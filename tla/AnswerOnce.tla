----------------------------- MODULE AnswerOnce -----------------------------
(***************************************************************************)
(* What a cache promises that asks a remote service at most once in the    *)
(* life of the server: there is one answer, whoever asks waits for it, and *)
(* everyone is given the same.  A failure to answer is an answer too.      *)
(***************************************************************************)
CONSTANTS Callers, Answers, NotYet  \* NotYet is none of the answers

VARIABLES
  asking,  \* callers that wait
  answer,  \* NotYet, or the answer
  given    \* what each caller was last given
vars == <<asking, answer, given>>

Init == asking = {} /\ answer = NotYet /\ given = [c \in Callers |-> NotYet]

Ask(c) ==
  /\ c \in Callers \ asking
  /\ asking' = asking \union {c}
  /\ UNCHANGED <<answer, given>>

Decide ==
  /\ asking # {} /\ answer = NotYet
  /\ answer' \in Answers
  /\ UNCHANGED <<asking, given>>

Give(c) ==
  /\ c \in asking /\ answer # NotYet
  /\ given' = [given EXCEPT ![c] = answer]
  /\ asking' = asking \ {c}
  /\ UNCHANGED answer

Next == Decide \/ \E c \in Callers : Ask(c) \/ Give(c)

Spec == Init /\ [][Next]_vars
FairSpec == Spec /\ WF_vars(Decide) /\ \A c \in Callers : WF_vars(Give(c))
=============================================================================
