----------------------------- MODULE McpServer ------------------------------
(***************************************************************************)
(* The server for agents: the bytes of its input are collected, cut into   *)
(* messages by their headers, and dispatched; handlers overlap, wait for   *)
(* the linter and the snapshot provider, and answer when they are done.    *)
(* A cell of the stream is a header line, an empty line, or a piece of a   *)
(* body; chunks cut it anywhere.                                           *)
(***************************************************************************)
EXTENDS Integers, Sequences, FiniteSets

CONSTANTS
  Messages,       \* the messages a client sends
  Headers,        \* the headers it puts before them
  BodySize,       \* the cells of a body
  Violations,     \* per text: the number of the linter's messages
  Corrected,      \* per text: applyFixes of it
  Tokens,         \* the token paths of every theme
  Words,          \* per token: what its path contains
  BuiltInRules,   \* the rules that explain_diagnostic knows
  Snapshot,       \* the hash the provider knows
  MaxMessages,
  None
ASSUME SizeAssumption == BodySize \in Nat \ {0}
ASSUME BoundAssumption == MaxMessages \in Nat
ASSUME TextAssumption ==
  /\ Violations \in [DOMAIN Violations -> Nat]
  /\ Corrected \in [DOMAIN Violations -> DOMAIN Violations]
ASSUME NoneAssumption == None \notin Nat
ASSUME HeaderAssumption ==
  \A h \in Headers : h \in Seq({"right", "short", "long", "unreadable", "other"})
\* The texts of a call are of those above, its budget is a number of passes.
ASSUME MessageAssumption ==
  \A m \in Messages :
    m.form = "request" /\ m.method = "tools/call" /\ m.params # None /\ m.params.args # None =>
      /\ m.params.name \in {"lint_snippet", "validate_component_usage"} =>
           m.params.args.code \in DOMAIN Violations
      /\ m.params.name = "lint_snippet" => m.params.args.depth \in Nat \cup {None}

VARIABLES
  wire,           \* the cells sent and not received
  buffer,         \* the cells received and not consumed
  reading,        \* processBuffer's loop is running
  task,           \* per message: its handler
  out,            \* the responses, in the order written
  linter,         \* the linter's tokens: "loading", "loaded", "failed", or
                  \* "tracked" when its tracker has loaded them too
  open,           \* the process runs
  sent,           \* history: the messages sent
  received        \* history: the number of cells received
vars == <<wire, buffer, reading, task, out, linter, open, sent, received>>

Numbers == 1..MaxMessages

(***************************************************************************)
(* The stream.                                                             *)
(***************************************************************************)
LengthLine(value) == [cell |-> "length", value |-> value]
OtherLine == [cell |-> "line"]
Blank == [cell |-> "blank"]
Piece(n, i) == [cell |-> "piece", of |-> n, at |-> i]
Body(n) == [i \in 1..BodySize |-> Piece(n, i)]
\* A header line of a client, which may count wrongly or not at all.
Line(l) ==
  CASE l = "right" -> LengthLine(BodySize)
    [] l = "short" -> LengthLine(BodySize - 1)
    [] l = "long" -> LengthLine(BodySize + 1)
    [] l = "unreadable" -> LengthLine(None)
    [] OTHER -> OtherLine
Frame(n, header) == [k \in DOMAIN header |-> Line(header[k])] \o <<Blank>> \o Body(n)
\* The first length line of a header decides.
Counts(header) ==
  \E k \in DOMAIN header :
    header[k] = "right" /\ \A j \in 1..(k - 1) : header[j] = "other"

\* findHeaderEnd: the first empty line, which ends the line before it too.
HeaderEnds(buf) == {k \in 2..Len(buf) : buf[k] = Blank /\ buf[k - 1].cell # "piece"}
HeaderEnd(buf) == CHOOSE k \in HeaderEnds(buf) : \A j \in HeaderEnds(buf) : k <= j
\* parseContentLength: the first line that begins with the field's name; what
\* is left of a body runs into the line after it.
LengthLines(buf) ==
  {k \in 1..(HeaderEnd(buf) - 1) :
     buf[k].cell = "length" /\ (k = 1 \/ buf[k - 1].cell # "piece")}
ContentLength(buf) ==
  IF LengthLines(buf) = {} THEN None
  ELSE buf[CHOOSE k \in LengthLines(buf) : \A j \in LengthLines(buf) : k <= j].value
HasMessage(buf) ==
  /\ HeaderEnds(buf) # {} /\ ContentLength(buf) # None
  /\ Len(buf) >= HeaderEnd(buf) + ContentLength(buf)
NextBody(buf) == SubSeq(buf, HeaderEnd(buf) + 1, HeaderEnd(buf) + ContentLength(buf))
Rest(buf) == SubSeq(buf, HeaderEnd(buf) + ContentLength(buf) + 1, Len(buf))

(***************************************************************************)
(* The answers.                                                            *)
(***************************************************************************)
Error(id, code) == [id |-> id, error |-> code]
Success(id, result) == [id |-> id, result |-> result]
Tools == {"lint_snippet", "get_token_completions", "validate_component_usage",
          "explain_diagnostic"}
Notifications == {"initialized", "notifications/initialized"}
\* A text that is not JSON, or JSON that is no request.
InvalidCode(m) == IF m.form = "text" THEN -32700 ELSE -32600
IsNotification(m) == m.form = "request" /\ m.id = None /\ m.method \in Notifications

\* getTokenCompletions and isRelevantForProperty: words is None for a
\* property of no category.
Matching(a) == {t \in Tokens : /\ a.words = None \/ a.words \cap Words[t] # {}
                               /\ a.partial = None \/ a.partial \in Words[t]}
TokenCompletions(a) == IF linter \in {"loaded", "tracked"} THEN Matching(a) ELSE {}
Explanation(a) == [rule |-> a.rule, known |-> a.rule \in BuiltInRules]

Idle == [phase |-> "idle"]
Done == [phase |-> "done"]
Settled(response) == [phase |-> "answer", response |-> response]
DefaultDepth == 3
Depth(a) == IF a.depth = None THEN DefaultDepth ELSE a.depth
\* Faulty variant: one pass more than the budget.
FaultyWithinBudget(used, a) == used <= Depth(a)
WithinBudget(used, a) == used < Depth(a)
\* A lint that is ready is past the tracker's load.
Linting(code, used, ready) ==
  [phase |-> "lint", code |-> code, used |-> used, ready |-> ready]
\* handleLintSnippet after its loop, handleValidateComponent after its lint.
Linted(code, used, remaining) ==
  [phase |-> "hash", code |-> code, used |-> used, remaining |-> remaining]

\* handleToolCall, up to the first await.
CallTool(m, tool, a) ==
  IF tool \in Tools /\ a = None THEN Settled(Error(m.id, -32602))
  ELSE CASE tool = "lint_snippet" ->
              IF a.version \notin {None, "1"} THEN Settled(Error(m.id, -32602))
              ELSE IF WithinBudget(0, a) THEN Linting(a.code, 0, linter = "tracked")
              ELSE Linted(a.code, 0, 0)
         [] tool = "get_token_completions" ->
              Settled(Success(m.id, [tokens |-> TokenCompletions(a)]))
         [] tool = "validate_component_usage" -> Linting(a.code, 0, linter = "tracked")
         [] tool = "explain_diagnostic" -> Settled(Success(m.id, Explanation(a)))
         [] OTHER -> Settled(Error(m.id, -32601))
\* handleRequest.
HandleRequest(m) ==
  CASE m.method \in {"initialize", "tools/list"} -> Settled(Success(m.id, [method |-> m.method]))
    [] m.method = "tools/call" ->
         IF m.params = None THEN Settled(Error(m.id, -32602))
         ELSE CallTool(m, m.params.name, m.params.args)
    [] m.method \in Notifications -> Settled(Success(m.id, [method |-> None]))
    [] OTHER -> Settled(Error(m.id, -32601))

Response(n, response) == [to |-> n, response |-> response]
Message(n) == sent[n].message
Waiting == {n \in Numbers : task[n].phase = "lint"}

Init ==
  /\ wire = <<>> /\ buffer = <<>> /\ reading = FALSE
  /\ task = [n \in Numbers |-> Idle] /\ out = <<>>
  /\ linter = "loading" /\ open = TRUE
  /\ sent = <<>> /\ received = 0

\* The client writes a message behind a header.
Send ==
  /\ Len(sent) < MaxMessages
  /\ \E m \in Messages, h \in Headers :
       LET frame == Frame(Len(sent) + 1, h)
       IN  /\ wire' = wire \o frame
           /\ sent' = Append(sent, [message |-> m, counts |-> Counts(h),
                                    end |-> received + Len(wire) + Len(frame)])
  /\ UNCHANGED <<buffer, reading, task, out, linter, open, received>>

\* Answers that are ready are written before the next event is taken.
Calm == ~reading /\ \A n \in Numbers : task[n].phase # "answer"

\* stdin 'data'.
Data ==
  /\ open /\ Calm
  /\ \E k \in 1..Len(wire) :
       /\ buffer' = buffer \o SubSeq(wire, 1, k)
       /\ wire' = SubSeq(wire, k + 1, Len(wire))
       /\ received' = received + k
  /\ reading' = TRUE
  /\ UNCHANGED <<task, out, linter, open, sent>>

\* The message whose body this is, taken whole.
Parsed(body) == {n \in DOMAIN sent : body = Body(n)}

\* processBuffer's loop: dispatchMessage of the next body.
Dispatch ==
  /\ open /\ reading /\ HasMessage(buffer)
  /\ \/ /\ Parsed(NextBody(buffer)) = {}
        /\ out' = Append(out, Response(0, Error(None, -32700)))
        /\ UNCHANGED task
     \/ \E n \in Parsed(NextBody(buffer)) :
          CASE Message(n).form = "request" ->
                 /\ task' = [task EXCEPT ![n] = HandleRequest(Message(n))]
                 /\ UNCHANGED out
            [] OTHER ->
                 /\ task' = [task EXCEPT ![n] = Done]
                 /\ out' = Append(out, Response(n, Error(None, InvalidCode(Message(n)))))
  /\ buffer' = Rest(buffer)
  /\ UNCHANGED <<wire, reading, linter, open, sent, received>>

\* ... until it has none, or a header that says no length.
StopReading ==
  /\ open /\ reading /\ ~HasMessage(buffer)
  /\ reading' = FALSE
  /\ UNCHANGED <<wire, buffer, task, out, linter, open, sent, received>>

\* The tracker's tokens are there for the lint: it loaded them, or another did.
Configure(n) ==
  /\ open /\ ~reading /\ linter \in {"loaded", "tracked"}
  /\ task[n].phase = "lint" /\ ~task[n].ready
  /\ task' = [task EXCEPT ![n] = Linting(@.code, @.used, TRUE)]
  /\ linter' = "tracked"
  /\ UNCHANGED <<wire, buffer, reading, out, open, sent, received>>

\* handleLintSnippet's loop and handleValidateComponent, when lintDocument
\* has returned.
LintEnds(n) ==
  /\ open /\ ~reading /\ task[n].phase = "lint" /\ task[n].ready
  /\ LET t == task[n]
         a == Message(n).params.args
         found == Violations[t.code]
         fixed == Corrected[t.code]
         more == found # 0 /\ fixed # t.code /\ WithinBudget(t.used + 1, a)
     IN  task' = [task EXCEPT ![n] =
           IF Message(n).params.name = "validate_component_usage" \/ found = 0
           THEN Linted(t.code, t.used, found)
           ELSE IF more THEN Linting(fixed, t.used + 1, TRUE)
           ELSE Linted(fixed, t.used + 1, found)]
  /\ UNCHANGED <<wire, buffer, reading, out, linter, open, sent, received>>

\* ... or has thrown, since the linter's load failed, or that of the tracker
\* which this lint began.
LintThrows(n) ==
  /\ open /\ ~reading /\ linter # "loading"
  /\ task[n].phase = "lint" /\ ~task[n].ready
  /\ task' = [task EXCEPT ![n] = Settled(Error(Message(n).id, -32603))]
  /\ UNCHANGED <<wire, buffer, reading, out, linter, open, sent, received>>

\* Faulty variant: a snippet without further fixes has converged.
FaultyConverged(t) == t.remaining = 0 \/ Corrected[t.code] = t.code
Converged(t) == t.remaining = 0
Result(t, hash) ==
  [code |-> t.code, used |-> t.used, remaining |-> t.remaining,
   converged |-> Converged(t), hash |-> hash]
\* The provider knows the snapshot's hash, or none.
HashKnown(n) ==
  /\ open /\ ~reading /\ task[n].phase = "hash"
  /\ \E hash \in {Snapshot, None} :
       task' = [task EXCEPT ![n] = Settled(Success(Message(n).id, Result(task[n], hash)))]
  /\ UNCHANGED <<wire, buffer, reading, out, linter, open, sent, received>>
HashThrows(n) ==
  /\ open /\ ~reading /\ task[n].phase = "hash"
  /\ task' = [task EXCEPT ![n] = Settled(Error(Message(n).id, -32603))]
  /\ UNCHANGED <<wire, buffer, reading, out, linter, open, sent, received>>

\* dispatchMessage's then and catch.
Answer(n) ==
  /\ open /\ ~reading /\ task[n].phase = "answer"
  /\ out' = IF IsNotification(Message(n)) THEN out
            ELSE Append(out, Response(n, task[n].response))
  /\ task' = [task EXCEPT ![n] = Done]
  /\ UNCHANGED <<wire, buffer, reading, linter, open, sent, received>>

\* tokensReady.
LoadTokens ==
  /\ open /\ ~reading /\ linter = "loading" /\ linter' = "loaded"
  /\ UNCHANGED <<wire, buffer, reading, task, out, open, sent, received>>
\* A rejection nobody waits for ends the process.
LoadFails ==
  /\ open /\ ~reading /\ linter = "loading" /\ linter' = "failed"
  /\ open' = (Waiting # {})
  /\ UNCHANGED <<wire, buffer, reading, task, out, sent, received>>

\* stdin 'end': the process exits, whatever is under way.
End ==
  /\ open /\ Calm /\ wire = <<>>
  /\ open' = FALSE
  /\ UNCHANGED <<wire, buffer, reading, task, out, linter, sent, received>>

Handle(n) ==
  \/ Configure(n) \/ LintEnds(n) \/ LintThrows(n)
  \/ HashKnown(n) \/ HashThrows(n) \/ Answer(n)
Next ==
  \/ Send \/ Data \/ Dispatch \/ StopReading \/ LoadTokens \/ LoadFails
  \/ End
  \/ \E n \in Numbers : Handle(n)

Spec == Init /\ [][Next]_vars
\* The process runs what is ready, the pipe delivers, tokens are loaded or not.
FairSpec ==
  /\ Spec /\ WF_vars(Data) /\ WF_vars(Dispatch \/ StopReading)
  /\ WF_vars(LoadTokens \/ LoadFails) /\ \A n \in Numbers : WF_vars(Handle(n))

(***************************************************************************)
(* Properties.                                                             *)
(***************************************************************************)
Cells ==
  [cell : {"length"}, value : Nat \cup {None}] \cup {OtherLine, Blank}
    \cup [cell : {"piece"}, of : Numbers, at : 1..BodySize]
IsSequence(s) == s \in Seq({s[k] : k \in DOMAIN s})
\* A handler's text and passes, if it has a text.
TaskType(t, m) ==
  /\ t.phase \in {"idle", "lint", "hash", "answer", "done"}
  /\ t.phase = "lint" => t.ready \in BOOLEAN
  /\ t.phase \in {"lint", "hash"} =>
       /\ t.code \in DOMAIN Violations
       /\ t.used \in Nat
       /\ m.params.name = "lint_snippet" => t.used <= Depth(m.params.args)

TypeOK ==
  /\ wire \in Seq(Cells) /\ buffer \in Seq(Cells)
  /\ reading \in BOOLEAN /\ open \in BOOLEAN
  /\ linter \in {"loading", "loaded", "tracked", "failed"}
  /\ IsSequence(out)
  /\ sent \in Seq([message : Messages, counts : BOOLEAN, end : Nat]) /\ received \in Nat
  /\ task = [n \in Numbers |-> task[n]]
  /\ \A n \in Numbers : TaskType(task[n], Message(n))
  /\ Len(sent) <= MaxMessages
  /\ received + Len(wire) = IF sent = <<>> THEN 0 ELSE sent[Len(sent)].end

\* The texts that k corrections of one make.
Corrections(k, first) ==
  {texts \in [0..k -> DOMAIN Violations] :
     texts[0] = first /\ \A i \in 1..k : texts[i] = Corrected[texts[i - 1]]}
\* A result is of the text k corrections after the one sent: clean, or
\* without further corrections and its messages counted, or the last one the
\* budget reached, with the messages of the text before it.
RightResult(a, r) ==
  /\ r.used <= Depth(a)
  /\ r.converged <=> r.remaining = 0
  /\ r.converged => Violations[r.code] = 0
  /\ \E texts \in Corrections(r.used, a.code) :
       /\ r.code = texts[r.used]
       /\ \/ r.converged
          \/ Corrected[r.code] = r.code /\ r.remaining = Violations[r.code]
          \/ r.used = Depth(a) /\ r.remaining = Violations[texts[r.used - 1]]
RightValidation(a, r) ==
  r.code = a.code /\ r.remaining = Violations[a.code] /\ (r.converged <=> r.remaining = 0)
RightTokens(a, r) == r.tokens \in {{}, Matching(a)}
RightCall(name, a, r) ==
  CASE name = "lint_snippet" -> Depth(a) > 0 => RightResult(a, r)
    [] name = "validate_component_usage" -> RightValidation(a, r)
    [] name = "get_token_completions" -> RightTokens(a, r)
    [] OTHER -> r = Explanation(a)

Linters == {"lint_snippet", "validate_component_usage"}
IsCall(m) == m.method = "tools/call" /\ m.params # None
Understood(m) ==
  /\ m.form = "request"
  /\ \/ m.method \in {"initialize", "tools/list"} \cup Notifications
     \/ /\ IsCall(m) /\ m.params.name \in Tools /\ m.params.args # None
        /\ m.params.name = "lint_snippet" => m.params.args.version \in {None, "1"}
\* An answer goes to the id of its message; it is an error if the message was
\* not understood, or if the linter or the provider failed it.
RightResponse(m, r) ==
  /\ r.id = IF m.form = "request" THEN m.id ELSE None
  /\ IF "error" \in DOMAIN r
     THEN \/ ~Understood(m)
          \/ IsCall(m) /\ m.params.name \in Linters /\ r.error = -32603
     ELSE /\ Understood(m)
          /\ IsCall(m) => RightCall(m.params.name, m.params.args, r.result)
RightAnswer(m, answer) == RightResponse(m, answer[2])

\* No header up to its own counts wrongly.
Counted(n) == n \in DOMAIN sent /\ \A k \in 1..n : sent[k].counts
Promised(n) == Counted(n) /\ sent[n].end <= received
AnswersTo(n) == {<<k, out[k].response>> : k \in {j \in DOMAIN out : out[j].to = n}}
askedBar == [n \in Numbers |-> IF Promised(n) THEN {Message(n)} ELSE {}]
answersBar == [n \in Numbers |-> IF Promised(n) THEN AnswersTo(n) ELSE {}]
Promise == INSTANCE AgentPromise WITH
  Requests <- Numbers, Silent <- IsNotification, Right <- RightAnswer,
  asked <- askedBar, answers <- answersBar

\* Wherever the chunks are cut, whatever overlaps and whichever handler ends
\* first, a message behind right headers is answered once, to its id, with
\* the result of its own text, and before long while the process runs.
PromiseKept == Promise!Spec

(***************************************************************************)
(* What the proofs rest on: where the last piece of each body is in the    *)
(* stream, so that a message is handled once and after it has arrived, and *)
(* how far each handler has come.                                          *)
(***************************************************************************)
consumed == received - Len(buffer)
Placed(cells, before) ==
  \A k \in DOMAIN cells, n \in Numbers :
    cells[k] = Piece(n, BodySize) => n \in DOMAIN sent /\ sent[n].end = before + k
StreamInv == consumed >= 0 /\ Placed(buffer, consumed) /\ Placed(wire, received)

\* It waits for the linter with the text that so many passes have made of its
\* own, and with a pass left.
RightPass(name, a, t) ==
  IF name = "lint_snippet"
  THEN t.used < Depth(a) /\ \E texts \in Corrections(t.used, a.code) : t.code = texts[t.used]
  ELSE t.used = 0 /\ t.code = a.code
\* What a handler has so far is right for its message.
RightTask(t, m) ==
  /\ t.phase \in {"lint", "hash"} => IsCall(m) /\ Understood(m) /\ m.params.name \in Linters
  /\ t.phase = "lint" => RightPass(m.params.name, m.params.args, t)
  /\ t.phase = "hash" => RightCall(m.params.name, m.params.args, Result(t, None))
  /\ t.phase = "answer" => RightResponse(m, t.response)
TaskInv ==
  \A n \in Numbers :
    /\ task[n].phase # "idle" => n \in DOMAIN sent /\ sent[n].end <= consumed
    /\ RightTask(task[n], Message(n))
OutInv ==
  \A k \in DOMAIN out :
    out[k].to # 0 => out[k].to \in Numbers /\ task[out[k].to].phase = "done"
ServerInv == StreamInv /\ TaskInv /\ OutInv

(***************************************************************************)
(* And why none is forgotten: where the stream has the frames of counted   *)
(* messages, the loop stands before one of them or is inside another.      *)
(***************************************************************************)
Before(n) == IF n = 1 THEN 0 ELSE sent[n - 1].end
CellAt(p) == IF p <= received THEN buffer[p - consumed] ELSE wire[p - received]
Framed(n, frame) ==
  /\ sent[n].end = Before(n) + Len(frame)
  /\ \A i \in 1..Len(frame) : Before(n) + i > consumed => CellAt(Before(n) + i) = frame[i]
FrameInv ==
  /\ \A i, j \in DOMAIN sent : i <= j => sent[i].end <= sent[j].end
  /\ \A n \in DOMAIN sent : Counted(n) => \E h \in Headers : Counts(h) /\ Framed(n, Frame(n, h))
\* All are handled up to the next one, or up to one that counts wrongly.
PlaceInv ==
  \E n \in 1..(Len(sent) + 1) :
    /\ \A k \in 1..(n - 1) : task[k].phase # "idle" /\ sent[k].counts
    /\ consumed = Before(n) \/ (n \in DOMAIN sent /\ ~sent[n].counts)
DoneInv ==
  \A n \in Numbers :
    task[n].phase = "done" => IsNotification(Message(n)) \/ AnswersTo(n) # {}
ProgressInv == FrameInv /\ PlaceInv /\ DoneInv /\ (~reading => ~HasMessage(buffer))

\* When the loop has stopped and no handler is under way, nothing that
\* arrived behind right headers is left without its answer.
NoneForgotten ==
  ~reading /\ (\A n \in Numbers : task[n].phase \in {"idle", "done"}) =>
    \A n \in Numbers : askedBar[n] # {} => Promise!Served(n)
=============================================================================
