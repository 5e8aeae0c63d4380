------------------------------ MODULE MCSmall ------------------------------
(***************************************************************************)
(* Instances for TLC of the modules with a small state space each.  They   *)
(* share nothing: a behaviour is one of the subject, and the variables of  *)
(* the others keep a value that they start with.                           *)
(***************************************************************************)
EXTENDS Completion, MySum, TcpRead, Udp, IupCallbacks, JsonStrings

CONSTANT Subjects

VARIABLE subject

\* a, ab, abc, ac, b; nothing before the cursor never gets to the search
FewNames == {<<97>>, <<97, 98>>, <<97, 98, 99>>, <<97, 99>>, <<98>>}
AnyPrefix == {<<97>>, <<97, 98>>, <<98>>, <<99>>}

\* Leads and continuations of every kind, a letter, a quote and a newline.
SomeInputs == SeqOf({10, 34, 65, 128, 159, 160, 191, 193, 195, 224, 237, 240, 244, 248}, 4)
SomeTexts == SeqOf([kind : {"char"}, code : {10, 65}]
                   \cup [kind : {"short"}, code : {47, 120}]
                   \cup [kind : {"hex"}, code : {65, 233, 8364, 55296, 56319, 56320, 57343}], 3)

SmallInit ==
  /\ subject \in Subjects
  /\ IF subject = "completion" THEN SearchInit
     ELSE env = {} /\ todo = {} /\ prefix = <<97>> /\ gbl_matches = <<>>
  /\ IF subject = "json" THEN JsonInit
     ELSE given = <<>> /\ c = 1 /\ text = <<>> /\ cp = 1 /\ bytes = <<>> /\ phase = "decode"
  /\ TcpInit /\ (subject # "tcp" => nuls = {})
  /\ UdpInit /\ SumInit /\ IupInit

SmallNext ==
  /\ subject' = subject
  /\ \/ subject = "completion" /\ SearchNext
        /\ UNCHANGED <<jsonvars, tcpvars, udpvars, sumvars, iupvars>>
     \/ subject = "json" /\ JsonNext
        /\ UNCHANGED <<searchvars, tcpvars, udpvars, sumvars, iupvars>>
     \/ subject = "tcp" /\ TcpNext
        /\ UNCHANGED <<searchvars, jsonvars, udpvars, sumvars, iupvars>>
     \/ subject = "udp" /\ UdpNext
        /\ UNCHANGED <<searchvars, jsonvars, tcpvars, sumvars, iupvars>>
     \/ subject = "sums" /\ SumNext
        /\ UNCHANGED <<searchvars, jsonvars, tcpvars, udpvars, iupvars>>
     \/ subject = "iup" /\ IupNext
        /\ UNCHANGED <<searchvars, jsonvars, tcpvars, udpvars, sumvars>>

SmallVars == <<subject, searchvars, jsonvars, tcpvars, udpvars, sumvars, iupvars>>

\* The kernel wakes up the caller of read-sock.
SmallSpec == SmallInit /\ [][SmallNext]_SmallVars
             /\ WF_SmallVars(subject = "tcp" /\ (Read \/ Return) /\ SmallNext)
=============================================================================
