---------------------------- MODULE LintPromise ----------------------------
(***************************************************************************)
(* What linting a document promises its caller, with no cache in sight:    *)
(* the answer describes a content the file held at some moment between the *)
(* start of the task and its answer, or says that linting failed.  A task  *)
(* may also answer with no promise at all; DocumentCache says when.        *)
(***************************************************************************)
CONSTANTS Docs, Contents, Runs, None, Failed

VARIABLES
  now,     \* now[d]: what the file holds, or None
  window,  \* window[r][d]: what it held since the task began, while it waits
  answer   \* answer[r][d]: "idle", "waiting", "unpromised", Failed, a content

vars == <<now, window, answer>>

Init ==
  /\ now \in [Docs -> Contents \cup {None}]
  /\ window = [r \in Runs |-> [d \in Docs |-> {}]]
  /\ answer = [r \in Runs |-> [d \in Docs |-> "idle"]]

\* Anybody changes the file: an editor, or the fix of some task.
Change(d, v) ==
  /\ now' = [now EXCEPT ![d] = v]
  /\ window' = [r \in Runs |->
                  IF answer[r][d] = "waiting"
                    THEN [window[r] EXCEPT ![d] = @ \cup {v}] ELSE window[r]]
  /\ UNCHANGED answer

Begin(r, d) ==
  /\ answer[r][d] = "idle"
  /\ answer' = [answer EXCEPT ![r][d] = "waiting"]
  /\ window' = [window EXCEPT ![r][d] = {now[d]}]
  /\ UNCHANGED now

Answer(r, d, result) ==
  /\ answer[r][d] = "waiting"
  /\ result \in (window[r][d] \cap Contents) \cup {Failed, "unpromised"}
  /\ answer' = [answer EXCEPT ![r][d] = result]
  /\ window' = [window EXCEPT ![r][d] = {}]
  /\ UNCHANGED now

\* Runs have returned their answers, or their process ended.
Close(rs) ==
  /\ answer' = [r \in Runs |-> IF r \in rs THEN [d \in Docs |-> "idle"]
                                            ELSE answer[r]]
  /\ window' = [r \in Runs |-> IF r \in rs THEN [d \in Docs |-> {}]
                                            ELSE window[r]]
  /\ UNCHANGED now

Next ==
  \/ \E d \in Docs, v \in Contents \cup {None} : Change(d, v)
  \/ \E r \in Runs, d \in Docs :
       \/ Begin(r, d)
       \/ \E result \in Contents \cup {Failed, "unpromised"} :
            Answer(r, d, result)
  \/ \E rs \in SUBSET Runs : Close(rs)

Spec == Init /\ [][Next]_vars
=============================================================================
