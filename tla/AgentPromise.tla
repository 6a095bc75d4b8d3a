---------------------------- MODULE AgentPromise ----------------------------
(***************************************************************************)
(* What a server of requests over a stream promises its client: messages   *)
(* that have arrived whole are answered, each once and rightly, those that *)
(* want no answer not at all, and none for long while both ends are up.    *)
(***************************************************************************)
CONSTANTS
  Requests,       \* the positions in the stream
  Silent(_),      \* a message that wants no answer
  Right(_, _)     \* a message and an answer to it

VARIABLES
  asked,          \* per position: what has arrived whole, as a set
  answers,        \* per position: the answers given
  open            \* neither end has closed the stream
vars == <<asked, answers, open>>

Init ==
  /\ asked = [n \in Requests |-> {}]
  /\ answers = [n \in Requests |-> {}]
  /\ open = TRUE

\* Part of the stream arrives, and with it any number of messages.
Arrive ==
  /\ open /\ \A n \in Requests : asked[n] \subseteq asked'[n]
  /\ UNCHANGED <<answers, open>>

\* One message is answered, if it came and has not been.
Reply(n) ==
  /\ open /\ answers[n] = {} /\ answers'[n] # {}
  /\ \E m \in asked[n] : ~Silent(m) /\ \A a \in answers'[n] : Right(m, a)
  /\ \A k \in Requests \ {n} : answers'[k] = answers[k]
  /\ UNCHANGED <<asked, open>>

Close == open /\ ~open' /\ UNCHANGED <<asked, answers>>

Next == Arrive \/ Close \/ \E n \in Requests : Reply(n)

Served(n) == answers[n] # {} \/ \E m \in asked[n] : Silent(m)

\* What it promises at every step, and in time.
Safe == Init /\ [][Next]_vars
InTime == \A n \in Requests : (asked[n] # {}) ~> (Served(n) \/ ~open)

Spec == Safe /\ InTime
=============================================================================
