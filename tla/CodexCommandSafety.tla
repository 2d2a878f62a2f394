------------------------- MODULE CodexCommandSafety -------------------------
(***************************************************************************)
(* Theorems of CodexCommand and CodexClient: a command of the tool host    *)
(* keeps its promise (CommandLife), its two app-servers never work at the  *)
(* same time, and the reader of an app-server is never held up, however    *)
(* often the servers misbehave and however few notifications are kept.     *)
(***************************************************************************)
EXTENDS CodexCommand, TLAPS

----------------------------------------------------------------------------
(* The inductive invariant.                                                *)

AnswerTo(line, id) == line.kind = "answer" /\ line.id = id

\* A request that waits has been told nothing, and what a request is told is "ok"
\* only if the server said so to it.
BoxOK(c, id) ==
  /\ id > c.next => c.box[id] = <<>> /\ c.asked[id] = "no" /\ id \notin c.pending
  /\ id \in c.pending => c.box[id] = <<>>
  /\ c.box[id] # <<>> => Len(c.box[id]) = 1 /\ (c.box[id][1] = "ok" => c.asked[id] = "ok")

\* A server that repeats itself with another answer comes too late: as long as the
\* request waits the first answer is in the pipe, and before the second.
InPipe(c, id) == \E j \in 1 .. Len(c.out) : AnswerTo(c.out[j], id)
PipeOK(c, id) ==
  /\ c.asked[id] \in {"ok", "answered"} => InPipe(c, id)
  /\ \A i \in 1 .. Len(c.out) :
       AnswerTo(c.out[i], id) /\ c.out[i].value = "ok" =>
         c.asked[id] = "ok" \/ \E j \in 1 .. Len(c.out) : j < i /\ AnswerTo(c.out[j], id)

TalkOK(c) ==
  \A id \in Ids :
    /\ BoxOK(c, id)
    /\ c.asked[id] \in {"no", "asked"} => ~InPipe(c, id)
    /\ id \in c.pending => PipeOK(c, id)

\* What the command may have left alive is in the tree that Close ends.
Works(c) == c.proc = "running" /\ ~c.killed
TreeOK(c) ==
  /\ c.closing \in {"fail", "closed"} => ~Works(c) /\ ~c.kids
  /\ c.kids => c.scope

ClientOK(c) == c \in ClientRecords /\ TalkOK(c) /\ TreeOK(c)
ClientsInv == \A k \in Clients : ClientOK(client[k])

\* The first client is gone before there is a second.
PlaceInv ==
  /\ step \in {"home", "launch"} => client[n] = NewClient
  /\ step \in {"home", "setup", "setupWait", "replace"} => n = 1
  /\ n = 1 => client[2] = NewClient
  /\ n = 2 => ~Works(client[1]) /\ ~client[1].kids

\* Every request has an id of its own, which its step tells.
Made(s) == CASE s \in {"home", "launch", "initialize"} -> 0
             [] s \in {"own", "readiness"} -> 1
             [] s \in {"setup", "exec"} -> 2
RequestInv ==
  /\ step \notin Requests => asking = "register"
  /\ step \in Requests \cup {"home", "launch", "own"} =>
       client[n].next = IF asking = "register" THEN Made(step) ELSE Made(step) + 1
  /\ asking = "send" => client[n].asked[client[n].next] = "no"

\* Nothing runs outside the tree, whenever the tool host stops it.
Owned(c) == c.killed \/ (c.scope /\ c.closing \in {"no", "release"})
TreeInv ==
  /\ client[n].closing # "no" => step \in Leaving \cup {"exec", "refused", "over"}
  /\ step \in {"readiness", "setup", "setupWait", "exec"} => Owned(client[n])

\* An exit that is reported is one that the server has told.
ExitInv ==
  step \in {"finish", "over"} =>
    answer \in {"exit", "error"} /\ (answer = "exit" => client[n].asked[3] = "ok")

CommandInv == TypeOK /\ ClientsInv /\ PlaceInv /\ RequestInv /\ TreeInv /\ ExitInv

----------------------------------------------------------------------------
(* What the operations of a client do to its record.                       *)

SameTree(c, d) ==
  /\ d.proc = c.proc /\ d.killed = c.killed /\ d.scope = c.scope /\ d.kids = c.kids
  /\ d.closing = c.closing
SameTalk(c, d) ==
  /\ d.next = c.next /\ d.pending = c.pending /\ d.box = c.box /\ d.asked = c.asked
  /\ d.out = c.out

LEMMA KeepsTalk == \A c, d : TalkOK(c) /\ SameTalk(c, d) => TalkOK(d)
BY DEF TalkOK, BoxOK, PipeOK, InPipe, SameTalk

LEMMA KeepsTree == \A c, d : TreeOK(c) /\ SameTree(c, d) => TreeOK(d)
BY DEF TreeOK, SameTree, Works

LEMMA FreshClient ==
  /\ ClientOK(NewClient) /\ ~Works(NewClient) /\ ~NewClient.kids /\ NewClient.closing = "no"
  /\ NewClient.next = 0 /\ NewClient.proc = "none" /\ NewClient.out = <<>>
<1>1. NewClient \in ClientRecords
  BY DEF NewClient, ClientRecords, Ids
<1>2. TalkOK(NewClient)
  BY DEF NewClient, TalkOK, BoxOK, InPipe, Ids
<1>3. TreeOK(NewClient)
  BY DEF NewClient, TreeOK, Works
<1> QED
  BY <1>1, <1>2, <1>3 DEF ClientOK, NewClient, Works

LEMMA OneValue ==
  \A v \in Values : /\ Append(<<>>, v) = <<v>> /\ <<v>> \in Seq(Values) /\ Len(<<v>>) = 1
                    /\ <<v>>[1] = v /\ <<v>> # <<>>
OBVIOUS

LEMMA FailPendingFields ==
  ASSUME NEW c, ClientOK(c)
  PROVE  /\ ClientOK(FailPending(c)) /\ SameTree(c, FailPending(c))
         /\ FailPending(c).next = c.next /\ FailPending(c).asked = c.asked
         /\ FailPending(c).pending = {} /\ FailPending(c).out = c.out
<1> DEFINE b == [id \in Ids |-> IF id \in c.pending /\ Room(c, id)
                                  THEN Append(c.box[id], "lost") ELSE c.box[id]]
           d == [c EXCEPT !.pending = {}, !.box = b]
<1>1. c \in ClientRecords /\ TalkOK(c) /\ TreeOK(c)
  BY DEF ClientOK
<1>2. ASSUME NEW id \in Ids
      PROVE  /\ b[id] \in Seq(Values)
             /\ (b[id] = c.box[id] \/ b[id] = <<"lost">>)
             /\ id > c.next => b[id] = <<>>
  <2>1. c.box[id] \in Seq(Values) /\ "lost" \in Values
    BY <1>1 DEF ClientRecords, Values
  <2>2. CASE id \in c.pending /\ Room(c, id)
    <3>1. c.box[id] = <<>> /\ ~(id > c.next)
      BY <1>1, <2>2 DEF TalkOK, BoxOK
    <3>2. b[id] = Append(<<>>, "lost")
      BY <2>2, <3>1
    <3>3. Append(<<>>, "lost") = <<"lost">> /\ <<"lost">> \in Seq(Values)
      BY <2>1, OneValue
    <3> HIDE DEF b
    <3> QED
      BY <3>1, <3>2, <3>3
  <2>3. CASE ~(id \in c.pending /\ Room(c, id))
    BY <1>1, <2>1, <2>3 DEF TalkOK, BoxOK
  <2> QED
    BY <2>2, <2>3
<1>3. b \in [Ids -> Seq(Values)]
  BY <1>2
<1> HIDE DEF b
<1>4. d \in ClientRecords /\ SameTree(c, d) /\ d.next = c.next /\ d.asked = c.asked
        /\ d.pending = {} /\ d.out = c.out /\ d.box = b
  BY <1>1, <1>3 DEF ClientRecords, SameTree
<1>5. d = FailPending(c)
  BY DEF FailPending, b
<1> HIDE DEF d
<1>6. TalkOK(d)
  <2>1. ASSUME NEW id \in Ids PROVE BoxOK(d, id)
    <3>1. BoxOK(c, id)
      BY <1>1 DEF TalkOK
    <3> QED
      BY <1>2, <1>4, <3>1, OneValue DEF BoxOK, Values
  <2> QED
    BY <1>1, <1>4, <2>1 DEF TalkOK, InPipe
<1> QED
  BY <1>1, <1>4, <1>5, <1>6, KeepsTree DEF ClientOK

LEMMA AppendLine ==
  \A s \in Seq(Lines), l \in Lines :
    /\ Append(s, l) \in Seq(Lines) /\ Len(s) \in Nat /\ Len(Append(s, l)) = Len(s) + 1
    /\ Append(s, l)[Len(s) + 1] = l
    /\ \A i \in 1 .. Len(s) : Append(s, l)[i] = s[i]
OBVIOUS

LEMMA TailLine ==
  \A s \in Seq(Lines) : s # <<>> =>
    /\ Tail(s) \in Seq(Lines) /\ Len(s) \in Nat \ {0} /\ Len(Tail(s)) = Len(s) - 1
    /\ Head(s) = s[1] /\ Head(s) \in Lines
    /\ \A i \in 1 .. Len(s) - 1 : Tail(s)[i] = s[i + 1]
OBVIOUS

LEMMA RegisteredFields ==
  ASSUME NEW c, ClientOK(c), c.next \in 0 .. 2
  PROVE  /\ ClientOK(Registered(c)) /\ SameTree(c, Registered(c))
         /\ Registered(c).next = c.next + 1 /\ Registered(c).asked = c.asked
         /\ Registered(c).asked[c.next + 1] = "no"
<1> DEFINE d == [c EXCEPT !.next = c.next + 1, !.pending = c.pending \cup {c.next + 1}]
<1>1. c \in ClientRecords /\ TalkOK(c) /\ TreeOK(c) /\ c.next + 1 \in Ids /\ c.next + 1 \in 0 .. 3
  BY DEF ClientOK, Ids
<1>2. d \in ClientRecords /\ SameTree(c, d) /\ d.next = c.next + 1 /\ d.asked = c.asked
        /\ d.pending = c.pending \cup {c.next + 1} /\ d.out = c.out /\ d.box = c.box
  BY <1>1 DEF ClientRecords, SameTree
<1>3. d = Registered(c)
  BY DEF Registered
<1> HIDE DEF d
<1>4. c.asked[c.next + 1] = "no"
  BY <1>1 DEF TalkOK, BoxOK, Ids
<1>5. ASSUME NEW id \in Ids PROVE BoxOK(d, id)
  <2>1. BoxOK(c, id)
    BY <1>1 DEF TalkOK
  <2> QED
    BY <1>1, <1>2, <2>1 DEF BoxOK, Ids
<1>6. ASSUME NEW id \in Ids, id \in d.pending PROVE PipeOK(d, id)
  <2>1. CASE id \in c.pending
    BY <1>1, <1>2, <2>1 DEF TalkOK, PipeOK, InPipe
  <2>2. CASE id = c.next + 1
    BY <1>1, <1>2, <1>4, <2>2 DEF TalkOK, PipeOK, InPipe
  <2> QED
    BY <1>2, <1>6, <2>1, <2>2
<1>7. TalkOK(d)
  BY <1>1, <1>2, <1>5, <1>6 DEF TalkOK, InPipe
<1> QED
  BY <1>1, <1>2, <1>3, <1>4, <1>7, KeepsTree DEF ClientOK

\* The line at the head of the pipe goes, and is not the answer of one who waits.
LEMMA SkippedFields ==
  ASSUME NEW c, ClientOK(c), c.out # <<>>, \A id \in c.pending : ~AnswerTo(Head(c.out), id)
  PROVE  LET d == [c EXCEPT !.out = Tail(c.out)]
         IN  /\ ClientOK(d) /\ SameTree(c, d) /\ d.next = c.next /\ d.asked = c.asked
             /\ d.pending = c.pending /\ d.box = c.box
<1> DEFINE d == [c EXCEPT !.out = Tail(c.out)]
<1>1. c \in ClientRecords /\ TalkOK(c) /\ TreeOK(c) /\ c.out \in Seq(Lines) /\ c.pending \subseteq Ids
  BY DEF ClientOK, ClientRecords
<1>2. /\ Tail(c.out) \in Seq(Lines) /\ Len(c.out) \in Nat \ {0} /\ Len(Tail(c.out)) = Len(c.out) - 1
      /\ Head(c.out) = c.out[1] /\ \A i \in 1 .. Len(c.out) - 1 : Tail(c.out)[i] = c.out[i + 1]
  BY <1>1, TailLine
<1>3. d \in ClientRecords /\ SameTree(c, d) /\ d.next = c.next /\ d.asked = c.asked
        /\ d.pending = c.pending /\ d.out = Tail(c.out) /\ d.box = c.box
  BY <1>1, <1>2 DEF ClientRecords, SameTree
<1> HIDE DEF d
<1>4. \A i \in 1 .. Len(d.out) : i + 1 \in 1 .. Len(c.out) /\ d.out[i] = c.out[i + 1]
  BY <1>2, <1>3
<1>5. ASSUME NEW id \in Ids PROVE BoxOK(d, id)
  BY <1>1, <1>3 DEF TalkOK, BoxOK
<1>6. ASSUME NEW id \in Ids PROVE InPipe(d, id) => InPipe(c, id)
  BY <1>4 DEF InPipe
<1>7. ASSUME NEW id \in Ids, id \in d.pending PROVE PipeOK(d, id)
  <2>1. PipeOK(c, id) /\ ~AnswerTo(c.out[1], id)
    BY <1>1, <1>2, <1>3, <1>7 DEF TalkOK
  <2>2. ASSUME NEW j \in 1 .. Len(c.out), AnswerTo(c.out[j], id)
        PROVE  j - 1 \in 1 .. Len(d.out) /\ AnswerTo(d.out[j - 1], id)
    BY <1>2, <1>3, <1>4, <2>1, <2>2
  <2>3. c.asked[id] \in {"ok", "answered"} => InPipe(d, id)
    BY <2>1, <2>2 DEF PipeOK, InPipe
  <2>4. ASSUME NEW i \in 1 .. Len(d.out), AnswerTo(d.out[i], id), d.out[i].value = "ok",
               c.asked[id] # "ok"
        PROVE  \E j \in 1 .. Len(d.out) : j < i /\ AnswerTo(d.out[j], id)
    <3>1. PICK j \in 1 .. Len(c.out) : j < i + 1 /\ AnswerTo(c.out[j], id)
      BY <1>4, <2>1, <2>4 DEF PipeOK
    <3> QED
      BY <2>2, <3>1
  <2> QED
    BY <1>3, <2>3, <2>4 DEF PipeOK
<1>8. TalkOK(d)
  BY <1>1, <1>3, <1>5, <1>6, <1>7 DEF TalkOK
<1> QED
  BY <1>1, <1>3, <1>8, KeepsTree DEF ClientOK, d

\* The answer that somebody waits for.
Awaited(c, id, v) ==
  /\ ClientOK(c) /\ c.out # <<>> /\ id \in c.pending
  /\ AnswerTo(Head(c.out), id) /\ v = Head(c.out).value /\ v \in Values
Heeds(c, id, v) ==
  LET d == Dispatched([c EXCEPT !.out = Tail(c.out)], id, v)
  IN  ClientOK(d) /\ SameTree(c, d) /\ d.next = c.next /\ d.asked = c.asked

LEMMA DispatchedFields ==
  ASSUME NEW c, NEW id, NEW v, Awaited(c, id, v)
  PROVE  Heeds(c, id, v)
<1> DEFINE r == [c EXCEPT !.out = Tail(c.out)]
           b == [r.box EXCEPT ![id] = Append(r.box[id], v)]
           d == [r EXCEPT !.pending = r.pending \ {id}, !.box = b]
<1>0. ClientOK(c) /\ c.out # <<>> /\ id \in c.pending /\ AnswerTo(Head(c.out), id) /\ v = Head(c.out).value
        /\ v \in Values
  BY DEF Awaited
<1>1. c \in ClientRecords /\ TalkOK(c) /\ TreeOK(c) /\ c.out \in Seq(Lines) /\ c.pending \subseteq Ids
        /\ c.box \in [Ids -> Seq(Values)] /\ id \in Ids
  BY <1>0 DEF ClientOK, ClientRecords
<1>2. /\ Tail(c.out) \in Seq(Lines) /\ Len(c.out) \in Nat \ {0} /\ Len(Tail(c.out)) = Len(c.out) - 1
      /\ Head(c.out) = c.out[1] /\ \A i \in 1 .. Len(c.out) - 1 : Tail(c.out)[i] = c.out[i + 1]
  BY <1>0, <1>1, TailLine
<1>3. r \in ClientRecords /\ SameTree(c, r) /\ r.next = c.next /\ r.asked = c.asked
        /\ r.pending = c.pending /\ r.out = Tail(c.out) /\ r.box = c.box
  BY <1>1, <1>2 DEF ClientRecords, SameTree
<1> HIDE DEF r
<1>4. c.box[id] = <<>> /\ ~(id > c.next) /\ PipeOK(c, id)
  BY <1>0, <1>1 DEF TalkOK, BoxOK
<1>5. b \in [Ids -> Seq(Values)] /\ b[id] = <<v>> /\ \A o \in Ids : o # id => b[o] = c.box[o]
  <2>1. Append(r.box[id], v) = <<v>> /\ <<v>> \in Seq(Values)
    BY <1>0, <1>3, <1>4, OneValue
  <2> QED
    BY <1>1, <1>3, <2>1
<1> HIDE DEF b
<1>6. d \in ClientRecords /\ SameTree(c, d) /\ d.next = c.next /\ d.asked = c.asked
        /\ d.pending = c.pending \ {id} /\ d.out = Tail(c.out) /\ d.box = b
  BY <1>3, <1>5 DEF ClientRecords, SameTree
<1>7. d = Dispatched(r, id, v)
  BY <1>0, <1>3 DEF Dispatched, b
<1> HIDE DEF d
<1>8. \A i \in 1 .. Len(d.out) : i + 1 \in 1 .. Len(c.out) /\ d.out[i] = c.out[i + 1]
  BY <1>2, <1>6
<1>9. v = "ok" => c.asked[id] = "ok"
  <2>1. 1 \in 1 .. Len(c.out) /\ AnswerTo(c.out[1], id) /\ c.out[1].value = v
    BY <1>0, <1>2
  <2>2. ~\E j \in 1 .. Len(c.out) : j < 1
    OBVIOUS
  <2> QED
    BY <1>4, <2>1, <2>2 DEF PipeOK
<1>10. ASSUME NEW o \in Ids PROVE BoxOK(d, o)
  <2>1. BoxOK(c, o)
    BY <1>1 DEF TalkOK
  <2>2. CASE o = id
    BY <1>0, <1>4, <1>5, <1>6, <1>9, <2>1, <2>2, OneValue DEF BoxOK
  <2>3. CASE o # id
    BY <1>5, <1>6, <2>1, <2>3 DEF BoxOK
  <2> QED
    BY <2>2, <2>3
<1>11. ASSUME NEW o \in Ids PROVE InPipe(d, o) => InPipe(c, o)
  BY <1>8 DEF InPipe
<1>12. ASSUME NEW o \in Ids, o \in d.pending PROVE PipeOK(d, o)
  <2>1. PipeOK(c, o) /\ ~AnswerTo(c.out[1], o)
    BY <1>0, <1>1, <1>2, <1>6, <1>12 DEF TalkOK, AnswerTo
  <2>2. ASSUME NEW j \in 1 .. Len(c.out), AnswerTo(c.out[j], o)
        PROVE  j - 1 \in 1 .. Len(d.out) /\ AnswerTo(d.out[j - 1], o)
    BY <1>2, <1>6, <1>8, <2>1, <2>2
  <2>3. c.asked[o] \in {"ok", "answered"} => InPipe(d, o)
    BY <2>1, <2>2 DEF PipeOK, InPipe
  <2>4. ASSUME NEW i \in 1 .. Len(d.out), AnswerTo(d.out[i], o), d.out[i].value = "ok",
               c.asked[o] # "ok"
        PROVE  \E j \in 1 .. Len(d.out) : j < i /\ AnswerTo(d.out[j], o)
    <3>1. PICK j \in 1 .. Len(c.out) : j < i + 1 /\ AnswerTo(c.out[j], o)
      BY <1>8, <2>1, <2>4 DEF PipeOK
    <3> QED
      BY <2>2, <3>1
  <2> QED
    BY <1>6, <2>3, <2>4 DEF PipeOK
<1>13. TalkOK(d)
  BY <1>1, <1>6, <1>10, <1>11, <1>12 DEF TalkOK
<1> QED
  BY <1>0, <1>1, <1>6, <1>7, <1>13, KeepsTree DEF ClientOK, Heeds, r

\* The server writes a line: the first answer to a request, another one, or none.
LEMMA SaidTalk ==
  ASSUME NEW c, NEW d, c \in ClientRecords, TalkOK(c), NEW line \in Lines,
         d.next = c.next, d.pending = c.pending, d.box = c.box, d.out = Append(c.out, line),
         \A id \in Ids :
           IF AnswerTo(line, id)
             THEN \/ /\ c.asked[id] = "asked"
                     /\ d.asked[id] = IF line.value = "ok" THEN "ok" ELSE "answered"
                  \/ c.asked[id] \in {"ok", "answered"} /\ d.asked[id] = c.asked[id]
             ELSE d.asked[id] = c.asked[id]
  PROVE  TalkOK(d)
<1>1. c.out \in Seq(Lines)
  BY DEF ClientRecords
<1> DEFINE l == Len(c.out) + 1
<1>2. /\ Len(c.out) \in Nat /\ Len(d.out) = l /\ d.out[l] = line /\ l \in 1 .. Len(d.out)
      /\ \A i \in 1 .. Len(c.out) : i \in 1 .. Len(d.out) /\ d.out[i] = c.out[i]
      /\ \A i \in 1 .. Len(d.out) : i = l \/ (i \in 1 .. Len(c.out) /\ i < l)
  BY <1>1, AppendLine
<1> HIDE DEF l
<1>3. ASSUME NEW id \in Ids
      PROVE  /\ BoxOK(c, id) /\ (c.asked[id] \in {"no", "asked"} => ~InPipe(c, id))
             /\ (id \in c.pending => PipeOK(c, id))
  BY DEF TalkOK
<1>4. ASSUME NEW id \in Ids PROVE BoxOK(d, id)
  BY <1>3 DEF BoxOK
<1>5. ASSUME NEW id \in Ids PROVE d.asked[id] \in {"no", "asked"} => ~InPipe(d, id)
  BY <1>2, <1>3 DEF InPipe
<1>6. ASSUME NEW id \in Ids, id \in d.pending PROVE PipeOK(d, id)
  <2>1. CASE ~AnswerTo(line, id)
    <3>1. PipeOK(c, id) /\ d.asked[id] = c.asked[id]
      BY <1>3, <1>6, <2>1
    <3>2. \A i \in 1 .. Len(d.out) : AnswerTo(d.out[i], id) => i \in 1 .. Len(c.out)
      BY <1>2, <2>1
    <3> QED
      BY <1>2, <3>1, <3>2 DEF PipeOK, InPipe
  <2>2. CASE AnswerTo(line, id) /\ c.asked[id] = "asked"
    <3>1. \A i \in 1 .. Len(c.out) : ~AnswerTo(c.out[i], id)
      BY <1>3, <2>2 DEF InPipe
    <3>2. d.asked[id] = IF line.value = "ok" THEN "ok" ELSE "answered"
      BY <2>2
    <3>3. \A i \in 1 .. Len(d.out) : AnswerTo(d.out[i], id) => d.out[i] = line
      BY <1>2, <3>1
    <3> QED
      BY <1>2, <2>2, <3>2, <3>3 DEF PipeOK, InPipe
  <2>3. CASE AnswerTo(line, id) /\ c.asked[id] \in {"ok", "answered"}
    <3>1. PipeOK(c, id) /\ d.asked[id] = c.asked[id]
      BY <1>3, <1>6, <2>3
    <3>2. PICK j \in 1 .. Len(c.out) : AnswerTo(c.out[j], id)
      BY <2>3, <3>1 DEF PipeOK, InPipe
    <3>3. j \in 1 .. Len(d.out) /\ AnswerTo(d.out[j], id) /\ j < l
      BY <1>2, <3>2
    <3>4. ASSUME NEW i \in 1 .. Len(d.out), AnswerTo(d.out[i], id), d.out[i].value = "ok",
                 c.asked[id] # "ok"
          PROVE  \E m \in 1 .. Len(d.out) : m < i /\ AnswerTo(d.out[m], id)
      <4>1. CASE i = l
        BY <3>3, <4>1
      <4>2. CASE i \in 1 .. Len(c.out)
        <5>1. PICK m \in 1 .. Len(c.out) : m < i /\ AnswerTo(c.out[m], id)
          BY <1>2, <3>1, <3>4, <4>2 DEF PipeOK
        <5> QED
          BY <1>2, <5>1
      <4> QED
        BY <1>2, <4>1, <4>2
    <3> QED
      BY <3>1, <3>3, <3>4 DEF PipeOK, InPipe
  <2> QED
    BY <1>6, <2>1, <2>2, <2>3
<1> QED
  BY <1>4, <1>5, <1>6 DEF TalkOK

LEMMA ReleasedFields ==
  ASSUME NEW c, ClientOK(c)
  PROVE  LET d == Released(c)
         IN  /\ ClientOK(d) /\ SameTalk(c, d) /\ d.closing = c.closing /\ d.proc = c.proc
             /\ d.scope = FALSE /\ d.kids = FALSE /\ (Works(d) => Works(c))
             /\ (Owned(c) => d.killed = TRUE)
<1> DEFINE d == [c EXCEPT !.scope = FALSE, !.killed = TRUE, !.kids = FALSE]
<1>1. c \in ClientRecords /\ TalkOK(c) /\ TreeOK(c) /\ c.scope \in BOOLEAN /\ c.kids \in BOOLEAN
        /\ c.killed \in BOOLEAN
  BY DEF ClientOK, ClientRecords
<1>2. CASE c.scope
  <2>1. d \in ClientRecords /\ SameTalk(c, d) /\ d.closing = c.closing /\ d.proc = c.proc
          /\ d.scope = FALSE /\ d.killed = TRUE /\ d.kids = FALSE
    BY <1>1 DEF ClientRecords, SameTalk
  <2>2. d = Released(c)
    BY <1>2 DEF Released
  <2> HIDE DEF d
  <2> QED
    BY <1>1, <2>1, <2>2, KeepsTalk DEF ClientOK, TreeOK, Works
<1>3. CASE ~c.scope
  <2>1. c = Released(c)
    BY <1>3 DEF Released
  <2>2. c.kids = FALSE /\ c.scope = FALSE /\ (Owned(c) => c.killed = TRUE)
    BY <1>1, <1>3 DEF TreeOK, Owned
  <2> QED
    BY <2>1, <2>2 DEF SameTalk
<1> QED
  BY <1>2, <1>3

\* What neither a goroutine of the client nor its server takes back.
Kept(c, d) ==
  /\ ClientOK(d) /\ d.next = c.next
  /\ \/ d.asked = c.asked
     \/ /\ d.kids = c.kids /\ d.proc = c.proc /\ d.killed = c.killed
        /\ \A id \in Ids : d.asked[id] = c.asked[id] \/ c.asked[id] = "asked"
  /\ (Works(d) => Works(c)) /\ (d.kids => c.kids)
  /\ (Owned(c) => Owned(d)) /\ (d.closing = "no" <=> c.closing = "no")

LEMMA SameKept ==
  ASSUME NEW c, NEW d, ClientOK(d), SameTree(c, d), d.next = c.next, d.asked = c.asked
  PROVE  Kept(c, d)
BY DEF Kept, SameTree, Works, Owned

LEMMA CloseStepKept ==
  ASSUME NEW c, ClientOK(c), c.closing \in {"release", "stdin", "kill", "fail"}
  PROVE  Kept(c, CloseStep(c))
<1> DEFINE r == Released(c)
           f == FailPending(c)
<1>c. c \in ClientRecords /\ TalkOK(c) /\ TreeOK(c) /\ c.kids \in BOOLEAN /\ c.killed \in BOOLEAN
  BY DEF ClientOK, ClientRecords
<1>r. /\ r \in ClientRecords /\ TalkOK(r) /\ SameTalk(c, r) /\ r.closing = c.closing
      /\ r.proc = c.proc /\ r.scope = FALSE /\ r.kids = FALSE /\ (Works(r) => Works(c))
      /\ (Owned(c) => r.killed = TRUE)
  BY ReleasedFields DEF ClientOK
<1>f. /\ f \in ClientRecords /\ TalkOK(f) /\ TreeOK(f) /\ SameTree(c, f)
      /\ f.next = c.next /\ f.asked = c.asked
  BY FailPendingFields DEF ClientOK
<1> HIDE DEF r, f
<1>1. CASE c.closing = "release"
  <2> DEFINE d == [r EXCEPT !.closing = "stdin"]
  <2>1. /\ d \in ClientRecords /\ SameTalk(r, d) /\ d.closing = "stdin" /\ d.proc = r.proc
        /\ d.scope = FALSE /\ d.kids = FALSE /\ d.killed = r.killed
    BY <1>r DEF ClientRecords, SameTalk
  <2>2. d = CloseStep(c)
    BY <1>1 DEF CloseStep, r
  <2> HIDE DEF d
  <2>3. ClientOK(d)
    BY <1>r, <2>1, KeepsTalk DEF ClientOK, TreeOK
  <2> QED
    BY <1>1, <1>r, <2>1, <2>2, <2>3 DEF Kept, SameTalk, Works, Owned
<1>2. CASE c.closing = "stdin"
  <2> DEFINE d == [c EXCEPT !.closing = "kill", !.stdin = FALSE]
  <2>1. /\ d \in ClientRecords /\ SameTalk(c, d) /\ d.closing = "kill" /\ d.proc = c.proc
        /\ d.scope = c.scope /\ d.kids = c.kids /\ d.killed = c.killed
    BY <1>c DEF ClientRecords, SameTalk
  <2>2. d = CloseStep(c)
    BY <1>2 DEF CloseStep
  <2> HIDE DEF d
  <2>3. ClientOK(d)
    BY <1>c, <2>1, KeepsTalk DEF ClientOK, TreeOK
  <2> QED
    BY <1>2, <2>1, <2>2, <2>3 DEF Kept, SameTalk, Works, Owned
<1>3. CASE c.closing = "kill"
  <2> DEFINE x == c.killed \/ c.proc = "running"
             d == [r EXCEPT !.closing = "fail", !.killed = x]
  <2>0. x \in BOOLEAN
    BY <1>c
  <2>1. /\ d \in ClientRecords /\ SameTalk(r, d) /\ d.closing = "fail" /\ d.proc = r.proc
        /\ d.scope = FALSE /\ d.kids = FALSE /\ d.killed = x
    <3> HIDE DEF x
    <3> QED
      BY <1>r, <2>0 DEF ClientRecords, SameTalk
  <2>2. d = CloseStep(c)
    BY <1>3 DEF CloseStep, r
  <2> HIDE DEF d
  <2>3. ClientOK(d) /\ ~Works(d)
    BY <1>r, <2>1, KeepsTalk DEF ClientOK, TreeOK, Works
  <2>4. Owned(c) => c.killed
    BY <1>3 DEF Owned
  <2> QED
    BY <1>3, <1>r, <2>1, <2>2, <2>3, <2>4 DEF Kept, SameTalk, Owned
<1>4. CASE c.closing = "fail"
  <2> DEFINE d == [f EXCEPT !.closing = "closed"]
  <2>1. /\ d \in ClientRecords /\ SameTalk(f, d) /\ d.closing = "closed" /\ d.proc = f.proc
        /\ d.scope = f.scope /\ d.kids = f.kids /\ d.killed = f.killed
    BY <1>f DEF ClientRecords, SameTalk
  <2>2. d = CloseStep(c)
    BY <1>4 DEF CloseStep, f
  <2> HIDE DEF d
  <2>3. ClientOK(d)
    BY <1>4, <1>f, <2>1, KeepsTalk DEF ClientOK, TreeOK, SameTree, Works
  <2> QED
    BY <1>4, <1>f, <2>1, <2>2, <2>3 DEF Kept, SameTalk, SameTree, Works, Owned
<1> QED
  BY <1>1, <1>2, <1>3, <1>4

----------------------------------------------------------------------------
(* The steps of the goroutines and of the server.                          *)

\* The client k, which is not a new one, has changed and kept what matters.
Moves(k) ==
  /\ client[k] # NewClient
  /\ \E d : Becomes(k, d) /\ Kept(client[k], d)

LEMMA ClosesMoves ==
  ASSUME NEW k \in Clients, ClientOK(client[k]), Closes(k)
  PROVE  Moves(k)
<1>1. client[k].closing \in {"release", "stdin", "kill", "fail"}
  BY DEF Closes, ClientOK, ClientRecords
<1>2. client[k] # NewClient
  BY <1>1, FreshClient
<1> QED
  BY <1>1, <1>2, CloseStepKept DEF Moves, Closes

LEMMA ReadsMoves ==
  ASSUME NEW k \in Clients, ClientOK(client[k]),
         Reads(k) \/ ( /\ Unread(client[k]) /\ Head(client[k].out).kind = "note"
                       /\ Becomes(k, [client[k] EXCEPT !.out = Tail(client[k].out)]) )
  PROVE  Moves(k)
<1> DEFINE c == client[k]
           r == [c EXCEPT !.out = Tail(c.out)]
           l == Head(c.out)
<1>0. c \in ClientRecords /\ c.out \in Seq(Lines) /\ c.pending \subseteq Ids /\ c.out # <<>>
        /\ c.reader = "reading"
  BY DEF ClientOK, ClientRecords, Reads, Unread
<1>1. l \in Lines /\ c # NewClient
  BY <1>0, TailLine, FreshClient
<1>2. CASE l.kind = "answer"
  <2>1. l.id \in Ids /\ l.value \in Values
    BY <1>1, <1>2 DEF Lines
  <2>2. Becomes(k, Dispatched(r, l.id, l.value))
    BY <1>2 DEF Reads, Understood
  <2>3. r.pending = c.pending
    BY <1>0 DEF ClientRecords
  <2>4. CASE l.id \in c.pending
    <3>1. AnswerTo(Head(c.out), l.id) /\ l.value = Head(c.out).value /\ l.value \in Values
      BY <1>2, <2>1 DEF AnswerTo
    <3>2. Awaited(c, l.id, l.value)
      BY <1>0, <2>4, <3>1 DEF Awaited
    <3>3. Heeds(c, l.id, l.value)
      <4> HIDE DEF c, l
      <4> QED
        BY <3>2, DispatchedFields
    <3>4. LET d == Dispatched(r, l.id, l.value)
          IN  ClientOK(d) /\ SameTree(c, d) /\ d.next = c.next /\ d.asked = c.asked
      BY <3>3 DEF Heeds
    <3> HIDE DEF r
    <3> QED
      BY <1>1, <2>2, <3>4, SameKept DEF Moves
  <2>5. CASE l.id \notin c.pending
    <3>1. ClientOK(r) /\ SameTree(c, r) /\ r.next = c.next /\ r.asked = c.asked
      BY <1>0, <2>5, SkippedFields DEF AnswerTo
    <3>2. Becomes(k, r)
      BY <2>2, <2>3, <2>5 DEF Dispatched
    <3> HIDE DEF r
    <3> QED
      BY <1>1, <3>1, <3>2, SameKept DEF Moves
  <2> QED
    BY <2>4, <2>5
<1>3. CASE l.kind # "answer"
  <2>1. ClientOK(r) /\ SameTree(c, r) /\ r.next = c.next /\ r.asked = c.asked
    BY <1>0, <1>3, SkippedFields DEF AnswerTo
  <2>2. l.kind \in {"note", "junk", "overlong"}
    BY <1>1, <1>3 DEF Lines
  <2>3. \/ Becomes(k, r) \/ Becomes(k, FailPending(r))
        \/ Becomes(k, [FailPending(r) EXCEPT !.reader = "stopped"])
    BY <2>2 DEF Reads, Understood
  <2> HIDE DEF r
  <2> DEFINE f == FailPending(r)
             g == [f EXCEPT !.reader = "stopped"]
  <2>4. ClientOK(f) /\ SameTree(r, f) /\ f.next = r.next /\ f.asked = r.asked
    BY <2>1, FailPendingFields
  <2>5. Becomes(k, r) \/ Becomes(k, f) \/ Becomes(k, g)
    BY <2>3
  <2> HIDE DEF f
  <2>6. /\ g \in ClientRecords /\ SameTree(f, g) /\ SameTalk(f, g)
    BY <2>4 DEF ClientOK, ClientRecords, SameTree, SameTalk
  <2>7. ClientOK(g)
    BY <2>4, <2>6, KeepsTalk, KeepsTree DEF ClientOK
  <2> HIDE DEF g
  <2>8. Kept(c, r)
    BY <2>1, SameKept
  <2>9. Kept(c, f)
    BY <2>1, <2>4, SameKept DEF SameTree
  <2>10. Kept(c, g)
    BY <2>1, <2>4, <2>6, <2>7, SameKept DEF SameTree, SameTalk
  <2> QED
    BY <1>1, <2>5, <2>8, <2>9, <2>10 DEF Moves
<1> QED
  BY <1>2, <1>3

LEMMA EndsMoves ==
  ASSUME NEW k \in Clients, ClientOK(client[k]), ReadsEnd(k) \/ Waits(k)
  PROVE  Moves(k)
<1> DEFINE c == client[k]
           f == FailPending(c)
<1>0. c \in ClientRecords
  BY DEF ClientOK
<1>1. c # NewClient
  BY DEF ReadsEnd, Waits, NewClient
<1>2. ClientOK(f) /\ SameTree(c, f) /\ f.next = c.next /\ f.asked = c.asked
  BY FailPendingFields
<1>3. PICK d : /\ Becomes(k, d)
               /\ \/ d = [c EXCEPT !.reader = "stopped"]
                  \/ d = [f EXCEPT !.reader = "stopped"]
                  \/ d = [c EXCEPT !.waiter = "failing", !.stdin = FALSE]
                  \/ d = [f EXCEPT !.waiter = "closing"]
                  \/ d = [c EXCEPT !.waiter = "done"]
  BY DEF ReadsEnd, Waits
<1> HIDE DEF f
<1>4. PICK e \in {c, f} : d \in ClientRecords /\ SameTree(e, d) /\ SameTalk(e, d)
  <2>1. f \in ClientRecords
    BY <1>2 DEF ClientOK
  <2>2. CASE d = [c EXCEPT !.reader = "stopped"]
    BY <1>0, <2>2 DEF ClientRecords, SameTree, SameTalk
  <2>3. CASE d = [f EXCEPT !.reader = "stopped"]
    BY <2>1, <2>3 DEF ClientRecords, SameTree, SameTalk
  <2>4. CASE d = [c EXCEPT !.waiter = "failing", !.stdin = FALSE]
    BY <1>0, <2>4 DEF ClientRecords, SameTree, SameTalk
  <2>5. CASE d = [f EXCEPT !.waiter = "closing"]
    BY <2>1, <2>5 DEF ClientRecords, SameTree, SameTalk
  <2>6. CASE d = [c EXCEPT !.waiter = "done"]
    BY <1>0, <2>6 DEF ClientRecords, SameTree, SameTalk
  <2> QED
    BY <1>3, <2>2, <2>3, <2>4, <2>5, <2>6
<1>5. ClientOK(e) /\ SameTree(c, e) /\ e.next = c.next /\ e.asked = c.asked
  BY <1>2 DEF SameTree
<1>6. ClientOK(d)
  BY <1>4, <1>5, KeepsTalk, KeepsTree DEF ClientOK
<1>7. Kept(c, d)
  BY <1>4, <1>5, <1>6, SameKept DEF SameTree, SameTalk
<1> QED
  BY <1>1, <1>3, <1>7 DEF Moves

LEMMA ServerMoves ==
  ASSUME NEW k \in Clients, ClientOK(client[k]), Server(k) \/ Ends(k)
  PROVE  Moves(k)
<1> DEFINE c == client[k]
<1>0. c \in ClientRecords /\ TalkOK(c) /\ TreeOK(c) /\ c.out \in Seq(Lines)
        /\ c.asked \in [Ids -> {"no", "asked", "ok", "answered"}]
  BY DEF ClientOK, ClientRecords
<1>1. c # NewClient
  BY FreshClient DEF Server, Answers, SetsUp, Misbehaves, Serves, Ends
<1>2. CASE Ends(k)
  <2> DEFINE d == [c EXCEPT !.proc = "ended"]
  <2>1. /\ d \in ClientRecords /\ SameTalk(c, d) /\ d.closing = c.closing /\ d.proc = "ended"
        /\ d.scope = c.scope /\ d.kids = c.kids /\ d.killed = c.killed
    BY <1>0 DEF ClientRecords, SameTalk
  <2>2. Becomes(k, d)
    BY <1>2 DEF Ends
  <2> HIDE DEF d
  <2>3. ClientOK(d)
    BY <1>0, <2>1, KeepsTalk DEF ClientOK, TreeOK, Works
  <2> QED
    BY <1>1, <2>1, <2>2, <2>3 DEF Moves, Kept, SameTalk, Works, Owned
<1>3. CASE Answers(k)
  <2>1. PICK id \in Ids, v \in Values \ {"lost"} :
          /\ c.asked[id] = "asked"
          /\ Becomes(k, [[c EXCEPT !.out = Append(c.out, Answer(id, v))]
                           EXCEPT !.asked[id] = IF v = "ok" THEN "ok" ELSE "answered"])
    BY <1>3 DEF Answers, Says
  <2> DEFINE w == IF v = "ok" THEN "ok" ELSE "answered"
             a == [c.asked EXCEPT ![id] = w]
             o == Append(c.out, Answer(id, v))
             d == [c EXCEPT !.out = o, !.asked = a]
  <2>2. Answer(id, v) \in Lines /\ Answer(id, v).kind = "answer" /\ Answer(id, v).id = id
          /\ Answer(id, v).value = v
    BY DEF Answer, Lines
  <2>3. a \in [Ids -> {"no", "asked", "ok", "answered"}] /\ a[id] = w
          /\ \A x \in Ids : x # id => a[x] = c.asked[x]
    BY <1>0
  <2>4. o \in Seq(Lines)
    BY <1>0, <2>2
  <2>5. [[c EXCEPT !.out = o] EXCEPT !.asked[id] = w] = d
    <3>1. [c EXCEPT !.out = o].asked = c.asked
      BY <1>0 DEF ClientRecords
    <3> QED
      BY <1>0, <3>1 DEF ClientRecords
  <2> HIDE DEF w, a, o
  <2>6. d \in ClientRecords /\ SameTree(c, d) /\ d.next = c.next /\ d.asked = a
        /\ d.pending = c.pending /\ d.box = c.box /\ d.out = o
    BY <1>0, <2>3, <2>4 DEF ClientRecords, SameTree
  <2>7. Becomes(k, d)
    BY <2>1, <2>5 DEF w, o
  <2> HIDE DEF d
  <2>8. \A x \in Ids : IF AnswerTo(Answer(id, v), x)
             THEN \/ /\ c.asked[x] = "asked"
                     /\ d.asked[x] = IF Answer(id, v).value = "ok" THEN "ok" ELSE "answered"
                  \/ c.asked[x] \in {"ok", "answered"} /\ d.asked[x] = c.asked[x]
             ELSE d.asked[x] = c.asked[x]
    BY <2>1, <2>2, <2>3, <2>6 DEF AnswerTo, w
  <2>9. TalkOK(d)
    BY <1>0, <2>2, <2>6, <2>8, SaidTalk DEF o
  <2>10. ClientOK(d)
    BY <1>0, <2>6, <2>9, KeepsTree DEF ClientOK
  <2> QED
    BY <1>1, <2>1, <2>3, <2>6, <2>7, <2>10 DEF Moves, Kept, SameTree, Works, Owned
<1>4. ASSUME NEW line \in Lines, \A id \in Ids : AnswerTo(line, id) => c.asked[id] \in {"ok", "answered"},
             NEW setup \in BOOLEAN,
             Becomes(k, [Says(k, line) EXCEPT !.setup = setup])
      PROVE  Moves(k)
  <2> DEFINE o == Append(c.out, line)
             d == [c EXCEPT !.out = o, !.setup = setup]
  <2>1. o \in Seq(Lines)
    BY <1>0
  <2>2. Becomes(k, d)
    BY <1>4 DEF Says
  <2> HIDE DEF o
  <2>3. d \in ClientRecords /\ SameTree(c, d) /\ d.next = c.next /\ d.asked = c.asked
        /\ d.pending = c.pending /\ d.box = c.box /\ d.out = o
    BY <1>0, <2>1 DEF ClientRecords, SameTree
  <2> HIDE DEF d
  <2>4. TalkOK(d)
    BY <1>0, <1>4, <2>3, SaidTalk DEF o
  <2>5. ClientOK(d)
    BY <1>0, <2>3, <2>4, KeepsTree DEF ClientOK
  <2> QED
    BY <1>1, <2>2, <2>3, <2>5, SameKept DEF Moves
<1>5. CASE SetsUp(k)
  <2>1. PICK s \in {"done", "failed"} : Becomes(k, [Says(k, Note(s)) EXCEPT !.setup = FALSE])
    BY <1>5 DEF SetsUp
  <2>2. Note(s) \in Lines /\ Note(s).kind = "note"
    BY DEF Note, Lines
  <2> QED
    BY <1>4, <2>1, <2>2 DEF AnswerTo
<1>6. CASE Misbehaves(k)
  <2>1. PICK line : /\ Becomes(k, Says(k, line))
                    /\ \/ \E id \in Ids : c.asked[id] \in {"ok", "answered"} /\ line = Answer(id, "ok")
                       \/ line = Note("other")
                       \/ line = [kind |-> "junk"]
                       \/ line = [kind |-> "overlong"]
    BY <1>6 DEF Misbehaves
  <2>2. /\ line \in Lines
        /\ \A id \in Ids : AnswerTo(line, id) => c.asked[id] \in {"ok", "answered"}
    BY <2>1 DEF Answer, Note, Lines, Values, AnswerTo
  <2>3. Says(k, line) = [Says(k, line) EXCEPT !.setup = c.setup] /\ c.setup \in BOOLEAN
    BY <1>0 DEF Says, ClientRecords
  <2> QED
    BY <1>4, <2>1, <2>2, <2>3
<1> QED
  BY <1>2, <1>3, <1>5, <1>6 DEF Server

----------------------------------------------------------------------------
(* The steps of the command.                                               *)

NotesOK == notes \in Seq({"done", "failed", "other"}) /\ Len(notes) <= MaxNotes

LEMMA ClientSet ==
  ASSUME ClientsInv, NEW k \in Clients, NEW d, Becomes(k, d), client \in [Clients -> ClientRecords]
  PROVE  /\ client'[k] = d /\ \A j \in Clients : j # k => client'[j] = client[j]
         /\ ClientOK(d) => ClientsInv' /\ client' \in [Clients -> ClientRecords]
<1>1. /\ client'[k] = d /\ \A j \in Clients : j # k => client'[j] = client[j]
      /\ d \in ClientRecords => client' \in [Clients -> ClientRecords]
  BY DEF Becomes
<1> QED
  BY <1>1 DEF ClientsInv, ClientOK

\* A goroutine or a server has moved, and the command has not.
LEMMA MovedNext ==
  ASSUME CommandInv, NEW k \in Clients, Moves(k), NotesOK', faults' \in 0 .. MaxFaults,
         UNCHANGED <<step, n, asking, cancelled, home, answer>>
  PROVE  CommandInv'
<1>t. /\ TypeOK /\ ClientsInv /\ PlaceInv /\ RequestInv /\ TreeInv /\ ExitInv
      /\ client \in [Clients -> ClientRecords]
  BY DEF CommandInv, TypeOK, ClientTypeOK
<1>1. PICK d : Becomes(k, d) /\ Kept(client[k], d)
  BY DEF Moves
<1>2. ClientOK(d) /\ client[k] # NewClient
  BY <1>1 DEF Kept, Moves
<1>3. /\ client'[k] = d /\ \A j \in Clients : j # k => client'[j] = client[j]
      /\ ClientsInv' /\ client' \in [Clients -> ClientRecords]
  BY <1>t, <1>1, <1>2, ClientSet
<1>4. TypeOK'
  BY <1>t, <1>3 DEF TypeOK, ClientTypeOK, NotesOK
<1>5. PlaceInv'
  <2>1. step \in {"home", "launch"} => k # n
    BY <1>t, <1>2 DEF PlaceInv
  <2>2. n = 1 => k = 1
    BY <1>t, <1>2 DEF PlaceInv, Clients
  <2>3. n = 2 => ~Works(client'[1]) /\ ~client'[1].kids
    BY <1>t, <1>1, <1>3 DEF PlaceInv, Kept, Clients
  <2> QED
    BY <1>t, <1>3, <2>1, <2>2, <2>3 DEF PlaceInv, TypeOK, Clients
<1>n. n \in Clients /\ (k # n => client'[n] = client[n])
  BY <1>t, <1>3 DEF TypeOK
<1>6. RequestInv'
  <2>1. client'[n].next = client[n].next
    BY <1>1, <1>3, <1>n DEF Kept
  <2>2. step \in Requests /\ asking = "send" => client[n].next \in Ids
    <3>1. client[n].next \in 0 .. 3
      BY <1>t, <1>n DEF ClientRecords
    <3>2. asking # "register" /\ step \in Requests => client[n].next = Made(step) + 1
      BY <1>t DEF RequestInv
    <3>3. step \in Requests => Made(step) \in 0 .. 2
      BY DEF Made, Requests
    <3> QED
      BY <3>2, <3>3 DEF Ids
  <2>3. asking = "send" => step \in Requests
    BY <1>t DEF RequestInv
  <2>4. asking = "send" => client'[n].asked[client[n].next] = "no"
    <3>1. asking = "send" => client[n].asked[client[n].next] = "no"
      BY <1>t DEF RequestInv
    <3> QED
      BY <1>1, <1>3, <1>n, <2>2, <2>3, <3>1 DEF Kept
  <2> QED
    BY <1>t, <2>1, <2>4 DEF RequestInv
<1>7. TreeInv'
  BY <1>t, <1>1, <1>3, <1>n DEF TreeInv, Kept
<1>8. ExitInv'
  BY <1>t, <1>1, <1>3, <1>n DEF ExitInv, Kept, Ids
<1> QED
  BY <1>3, <1>4, <1>5, <1>6, <1>7, <1>8 DEF CommandInv

LEMMA BeginCloseFields ==
  ASSUME NEW c, ClientOK(c), NEW at \in {"stdin", "release"}
  PROVE  LET d == BeginClose(c, at)
         IN  /\ ClientOK(d) /\ SameTalk(c, d) /\ d.closing # "no"
             /\ d.proc = c.proc /\ d.killed = c.killed /\ d.kids = c.kids
             /\ at = "release" /\ Owned(c) => Owned(d)
<1> DEFINE d == [c EXCEPT !.closing = at]
<1>1. c \in ClientRecords /\ TalkOK(c) /\ TreeOK(c)
  BY DEF ClientOK
<1>2. CASE c.closing = "no"
  <2>1. /\ d \in ClientRecords /\ SameTalk(c, d) /\ d.closing = at /\ d.proc = c.proc
        /\ d.scope = c.scope /\ d.kids = c.kids /\ d.killed = c.killed
    BY <1>1 DEF ClientRecords, SameTalk
  <2>2. d = BeginClose(c, at)
    BY <1>2 DEF BeginClose
  <2> HIDE DEF d
  <2>3. TalkOK(d) /\ TreeOK(d) /\ (at = "release" /\ Owned(c) => Owned(d))
    BY <1>1, <2>1, KeepsTalk DEF TreeOK, Owned
  <2> QED
    BY <2>1, <2>2, <2>3 DEF ClientOK
<1>3. CASE c.closing # "no"
  BY <1>1, <1>3 DEF BeginClose, SameTalk, ClientOK
<1> QED
  BY <1>2, <1>3

\* The goroutine of the command goes on to the step s, with its client as c.
LEMMA EntersNext ==
  ASSUME CommandInv, NEW s \in Requests \cup Leaving \cup {"own", "setupWait"}, NEW c, ClientOK(c),
         Enters(s, c), step # "home", n' = n, faults' = faults, home' = home, cancelled' = cancelled,
         NotesOK', asking' = "register", answer' \in {"none", "exit", "error"},
         s \in {"setup", "setupWait", "replace"} => n = 1,
         s \in Requests \cup {"own"} => c.next = Made(s),
         s \notin Leaving /\ c.closing # "no" => s = "exec",
         s \in {"readiness", "setup", "setupWait", "exec"} => Owned(c),
         s = "finish" => /\ answer' \in {"exit", "error"}
                         /\ answer' = "exit" => c.asked[3] = "ok"
  PROVE  CommandInv'
<1>t. /\ TypeOK /\ ClientsInv /\ PlaceInv /\ n \in Clients /\ client \in [Clients -> ClientRecords]
  BY DEF CommandInv, TypeOK, ClientTypeOK
<1>1. PICK d : /\ Becomes(n, d) /\ ClientOK(d) /\ SameTalk(c, d)
               /\ (s \in Leaving => d.closing # "no") /\ (s \notin Leaving => d = c)
  <2>1. CASE s \notin Leaving
    <3>1. Becomes(n, c)
      BY <2>1 DEF Enters, Leaving
    <3> QED
      BY <2>1, <3>1 DEF SameTalk
  <2>2. CASE s \in Leaving
    <3>1. PICK at \in {"stdin", "release"} : Becomes(n, BeginClose(c, at))
      BY <2>2 DEF Enters, Leaving
    <3> QED
      BY <2>2, <3>1, BeginCloseFields
  <2> QED
    BY <2>1, <2>2
<1>2. /\ client'[n] = d /\ \A j \in Clients : j # n => client'[j] = client[j]
      /\ ClientsInv' /\ client' \in [Clients -> ClientRecords]
  BY <1>t, <1>1, ClientSet
<1>3. step' = s
  BY DEF Enters
<1>4. TypeOK'
  BY <1>t, <1>2, <1>3 DEF TypeOK, ClientTypeOK, NotesOK, Steps
<1>5. PlaceInv'
  BY <1>t, <1>2, <1>3 DEF PlaceInv, Clients, Requests, Leaving
<1>6. RequestInv'
  BY <1>1, <1>2, <1>3 DEF RequestInv, SameTalk, Requests, Leaving
<1>7. TreeInv'
  BY <1>1, <1>2, <1>3 DEF TreeInv, Requests, Leaving
<1>8. ExitInv'
  BY <1>1, <1>2, <1>3 DEF ExitInv, SameTalk, Requests, Leaving
<1> QED
  BY <1>2, <1>4, <1>5, <1>6, <1>7, <1>8 DEF CommandInv

LEMMA Unpacked ==
  ASSUME CommandInv
  PROVE  /\ TypeOK /\ ClientsInv /\ PlaceInv /\ RequestInv /\ TreeInv /\ ExitInv
         /\ n \in Clients /\ client \in [Clients -> ClientRecords] /\ ClientOK(client[n])
         /\ client[n] \in ClientRecords /\ NotesOK /\ faults \in 0 .. MaxFaults
         /\ answer \in {"none", "exit", "error"}
BY DEF CommandInv, TypeOK, ClientTypeOK, ClientsInv, NotesOK

LEMMA MakesHomeNext ==
  ASSUME CommandInv, MakesHome
  PROVE  CommandInv'
<1>t. /\ TypeOK /\ ClientsInv /\ PlaceInv /\ RequestInv /\ TreeInv
  BY Unpacked
<1>1. /\ step = "home" /\ n = 1 /\ client[1] = NewClient
      /\ UNCHANGED <<client, faults, n, asking, notes, cancelled, answer>>
      /\ step' \in {"launch", "refused"} /\ home' \in {"made", "none", "left"}
  BY <1>t DEF MakesHome, clientVars, PlaceInv
<1>2. TypeOK'
  BY <1>t, <1>1 DEF TypeOK, ClientTypeOK, Steps
<1>3. ClientsInv' /\ PlaceInv'
  BY <1>t, <1>1 DEF ClientsInv, PlaceInv
<1>4. RequestInv'
  BY <1>t, <1>1 DEF RequestInv, Made, Requests
<1>5. TreeInv' /\ ExitInv'
  BY <1>t, <1>1, FreshClient DEF TreeInv, ExitInv
<1> QED
  BY <1>2, <1>3, <1>4, <1>5 DEF CommandInv

LEMMA LaunchesNext ==
  ASSUME CommandInv, Launches
  PROVE  CommandInv'
<1> DEFINE d == [NewClient EXCEPT !.proc = "running", !.stdin = TRUE, !.reader = "reading",
                                  !.waiter = "waiting"]
<1>t. CommandInv /\ step = "launch" /\ client[n] = NewClient /\ asking = "register" /\ NotesOK
        /\ answer \in {"none", "exit", "error"}
        /\ UNCHANGED <<faults, n, asking, notes, cancelled, home, answer>>
  BY Unpacked DEF Launches, PlaceInv, RequestInv, Requests
<1>n. NotesOK'
  BY <1>t DEF NotesOK
<1>1. NewClient \in ClientRecords /\ TalkOK(NewClient)
  BY FreshClient DEF ClientOK
<1>2. d \in ClientRecords /\ SameTalk(NewClient, d) /\ d.closing = "no" /\ d.kids = FALSE
        /\ d.next = 0
  BY <1>1 DEF ClientRecords, SameTalk, NewClient
<1>3. d = Launched(client[n])
  BY <1>t DEF Launched
<1> HIDE DEF d
<1>4. ClientOK(d)
  BY <1>1, <1>2, KeepsTalk DEF ClientOK, TreeOK
<1>5. CASE Enters("initialize", d)
  BY <1>t, <1>n, <1>2, <1>4, <1>5, EntersNext DEF Requests, Leaving, Made
<1>6. CASE Enters("drop", NewClient)
  BY <1>t, <1>n, <1>6, FreshClient, EntersNext DEF Requests, Leaving
<1> QED
  BY <1>t, <1>3, <1>5, <1>6 DEF Launches

LEMMA RegistersNext ==
  ASSUME CommandInv, Registers
  PROVE  CommandInv'
<1> DEFINE c == client[n]
           d == Registered(c)
<1>t. /\ TypeOK /\ ClientsInv /\ PlaceInv /\ RequestInv /\ TreeInv /\ ExitInv
      /\ n \in Clients /\ client \in [Clients -> ClientRecords] /\ ClientOK(c)
  BY Unpacked
<1>0. /\ step \in Requests /\ asking = "register" /\ asking' = "send" /\ Becomes(n, d)
      /\ UNCHANGED <<faults, step, n, notes, cancelled, home, answer>>
  BY DEF Registers
<1>1. c.next = Made(step) /\ c.next \in 0 .. 2
  BY <1>t, <1>0 DEF RequestInv, Made, Requests
<1>2. /\ ClientOK(d) /\ SameTree(c, d) /\ d.next = c.next + 1 /\ d.asked = c.asked
      /\ d.asked[c.next + 1] = "no"
  BY <1>t, <1>1, RegisteredFields
<1> HIDE DEF d
<1>3. /\ client'[n] = d /\ \A j \in Clients : j # n => client'[j] = client[j]
      /\ ClientsInv' /\ client' \in [Clients -> ClientRecords]
  BY <1>t, <1>0, <1>2, ClientSet
<1>4. TypeOK'
  BY <1>t, <1>0, <1>3 DEF TypeOK, ClientTypeOK
<1>5. PlaceInv'
  BY <1>t, <1>0, <1>3 DEF PlaceInv, Clients, Requests
<1>6. RequestInv'
  BY <1>0, <1>1, <1>2, <1>3 DEF RequestInv
<1>7. TreeInv'
  BY <1>t, <1>0, <1>2, <1>3 DEF TreeInv, SameTree, Owned
<1>8. ExitInv'
  BY <1>0 DEF ExitInv, Requests
<1> QED
  BY <1>3, <1>4, <1>5, <1>6, <1>7, <1>8 DEF CommandInv

\* A request is over.
LEMMA LearnsNext ==
  ASSUME CommandInv, NEW value, NEW c, ClientOK(c), SameTree(client[n], c), c.next = client[n].next,
         c.asked = client[n].asked, step \in Requests, asking # "register",
         value = "ok" => c.asked[c.next] = "ok", Learns(value, c)
  PROVE  CommandInv'
<1> DEFINE s == After(value)
<1>t. /\ CommandInv /\ RequestInv /\ TreeInv /\ NotesOK /\ TypeOK
      /\ answer \in {"none", "exit", "error"}
  BY Unpacked
<1>0. /\ Enters(s, c) /\ asking' = "register"
      /\ answer' = IF step # "exec" THEN answer ELSE IF value = "ok" THEN "exit" ELSE "error"
      /\ UNCHANGED <<faults, n, notes, cancelled, home>>
  BY DEF Learns
<1>1. c.next = Made(step) + 1
  BY <1>t DEF RequestInv
<1>2. /\ c.closing # "no" => step = "exec"
      /\ step \in {"readiness", "setup", "exec"} => Owned(c)
  BY <1>t DEF TreeInv, SameTree, Owned, Requests, Leaving
<1>3. \/ s = "own" /\ step = "initialize"
      \/ s = "exec" /\ step = "readiness"
      \/ s = "setup" /\ step = "readiness" /\ n = 1
      \/ s = "setupWait" /\ step = "setup"
      \/ s = "finish" /\ step = "exec"
      \/ s \in {"drop", "abandon"} /\ step # "exec"
  BY DEF After, Requests
<1>4. step = "setup" => n = 1
  BY <1>t DEF CommandInv, PlaceInv
<1>5. NotesOK'
  BY <1>t, <1>0 DEF NotesOK
<1> HIDE DEF s
<1>6. s \in Requests \cup Leaving \cup {"own", "setupWait"}
  BY <1>3 DEF Requests, Leaving
<1>7. s \in Requests \cup {"own"} => c.next = Made(s)
  BY <1>1, <1>3 DEF Made, Requests, Leaving
<1>8. s \notin Leaving /\ c.closing # "no" => s = "exec"
  BY <1>2, <1>3 DEF Leaving
<1>9. s \in {"readiness", "setup", "setupWait", "exec"} => Owned(c)
  BY <1>2, <1>3
<1>10. s \in {"setup", "setupWait", "replace"} => n = 1
  BY <1>3, <1>4
<1>11. s = "finish" => answer' \in {"exit", "error"} /\ (answer' = "exit" => c.asked[3] = "ok")
  BY <1>0, <1>1, <1>3 DEF Made
<1>12. answer' \in {"none", "exit", "error"} /\ step # "home"
  BY <1>t, <1>0 DEF Requests
<1> QED
  BY <1>0, <1>5, <1>6, <1>7, <1>8, <1>9, <1>10, <1>11, <1>12, EntersNext

LEMMA ForgottenFields ==
  ASSUME NEW c, ClientOK(c), NEW id
  PROVE  LET d == Forgotten(c, id)
         IN  ClientOK(d) /\ SameTree(c, d) /\ d.next = c.next /\ d.asked = c.asked
<1> DEFINE d == Forgotten(c, id)
<1>1. c \in ClientRecords /\ TalkOK(c) /\ TreeOK(c)
  BY DEF ClientOK
<1>2. /\ d \in ClientRecords /\ SameTree(c, d) /\ d.next = c.next /\ d.asked = c.asked
      /\ d.out = c.out /\ d.box = c.box /\ d.pending = c.pending \ {id}
  BY <1>1 DEF Forgotten, ClientRecords, SameTree
<1> HIDE DEF d
<1>3. TalkOK(d)
  BY <1>1, <1>2 DEF TalkOK, BoxOK, PipeOK, InPipe
<1> QED
  BY <1>1, <1>2, <1>3, KeepsTree DEF ClientOK, d

LEMMA IdIsNext == ASSUME CommandInv, step \in Requests, asking # "register"
                  PROVE  Id = client[n].next /\ client[n].next = Made(step) + 1 /\ Id \in Ids
BY DEF CommandInv, RequestInv, Id, Made, Requests, Ids

LEMMA SendsNext ==
  ASSUME CommandInv, Sends
  PROVE  CommandInv'
<1> DEFINE c == client[n]
<1>t. /\ TypeOK /\ ClientsInv /\ PlaceInv /\ RequestInv /\ TreeInv /\ ExitInv
      /\ n \in Clients /\ client \in [Clients -> ClientRecords] /\ ClientOK(c)
  BY Unpacked
<1>0. /\ step \in Requests /\ asking = "send" /\ Id = c.next /\ Id \in Ids
      /\ c.next = Made(step) + 1 /\ c.asked[Id] = "no"
  BY <1>t, IdIsNext DEF Sends, RequestInv
<1>1. CASE Learns("error", Forgotten(c, Id))
  <2>1. LET d == Forgotten(c, Id)
        IN  ClientOK(d) /\ SameTree(c, d) /\ d.next = c.next /\ d.asked = c.asked
    BY <1>t, ForgottenFields
  <2> QED
    BY <1>0, <1>1, <2>1, LearnsNext
<1>2. CASE /\ Becomes(n, [Sent(c, Id) EXCEPT !.kids = (step = "exec" /\ Serves(n)),
                                             !.setup = (step = "setup")])
           /\ asking' = "await"
           /\ UNCHANGED <<faults, step, n, notes, cancelled, home, answer>>
  <2> DEFINE x == step = "exec" /\ Serves(n)
             y == step = "setup"
             a == [c.asked EXCEPT ![Id] = "asked"]
             e == [c EXCEPT !.asked = a]
             d == [e EXCEPT !.kids = x, !.setup = y]
  <2>0. /\ c \in ClientRecords /\ TalkOK(c) /\ TreeOK(c)
        /\ c.asked \in [Ids -> {"no", "asked", "ok", "answered"}]
    BY <1>t DEF ClientOK, ClientRecords
  <2>1. x \in BOOLEAN /\ y \in BOOLEAN
    OBVIOUS
  <2>2. a \in [Ids -> {"no", "asked", "ok", "answered"}] /\ a[Id] = "asked"
          /\ \A i \in Ids : i # Id => a[i] = c.asked[i]
    BY <1>0, <2>0
  <2>3. x => ~(c.closing \in {"fail", "closed"}) /\ c.scope
    BY <1>t, <2>0 DEF TreeInv, Owned, TreeOK, Works, Serves
  <2>4. Becomes(n, d)
    BY <1>2 DEF Sent
  <2> HIDE DEF x, y, a
  <2>5. /\ e \in ClientRecords /\ SameTree(c, e) /\ e.next = c.next /\ e.asked = a
        /\ e.pending = c.pending /\ e.box = c.box /\ e.out = c.out
    BY <2>0, <2>2 DEF ClientRecords, SameTree
  <2> HIDE DEF e
  <2>6. /\ d \in ClientRecords /\ SameTalk(e, d) /\ d.closing = e.closing /\ d.proc = e.proc
        /\ d.scope = e.scope /\ d.killed = e.killed /\ d.kids = x
    BY <2>1, <2>5 DEF ClientRecords, SameTalk
  <2> HIDE DEF d
  <2>7. ASSUME NEW i \in Ids PROVE BoxOK(e, i)
    BY <1>0, <2>0, <2>2, <2>5 DEF TalkOK, BoxOK, Ids
  <2>8. ASSUME NEW i \in Ids, e.asked[i] \in {"no", "asked"} PROVE ~InPipe(e, i)
    BY <1>0, <2>0, <2>2, <2>5, <2>8 DEF TalkOK, InPipe
  <2>9. ASSUME NEW i \in Ids, i \in e.pending PROVE PipeOK(e, i)
    <3>1. CASE i = Id
      BY <2>2, <2>5, <2>8, <3>1 DEF PipeOK, InPipe
    <3>2. CASE i # Id
      BY <2>0, <2>2, <2>5, <2>9, <3>2 DEF TalkOK, PipeOK, InPipe
    <3> QED
      BY <3>1, <3>2
  <2>10. TalkOK(e)
    BY <2>7, <2>8, <2>9 DEF TalkOK
  <2>11. TreeOK(d)
    BY <2>0, <2>3, <2>5, <2>6 DEF TreeOK, SameTree, Works
  <2>12. ClientOK(d)
    BY <2>6, <2>10, <2>11, KeepsTalk DEF ClientOK
  <2>13. /\ client'[n] = d /\ \A j \in Clients : j # n => client'[j] = client[j]
         /\ ClientsInv' /\ client' \in [Clients -> ClientRecords]
    BY <1>t, <2>4, <2>12, ClientSet
  <2>14. TypeOK'
    BY <1>t, <1>2, <2>13 DEF TypeOK, ClientTypeOK
  <2>15. PlaceInv'
    BY <1>t, <1>0, <1>2, <2>13 DEF PlaceInv, Clients, Requests
  <2>16. RequestInv'
    BY <1>0, <1>2, <2>5, <2>6, <2>13 DEF RequestInv, SameTalk
  <2>17. TreeInv'
    BY <1>t, <1>2, <2>5, <2>6, <2>13 DEF TreeInv, SameTree, Owned
  <2>18. ExitInv'
    BY <1>0, <1>2 DEF ExitInv, Requests
  <2> QED
    BY <2>13, <2>14, <2>15, <2>16, <2>17, <2>18 DEF CommandInv
<1> QED
  BY <1>1, <1>2 DEF Sends

LEMMA TailOfOne ==
  \A s \in Seq(Values) : Len(s) = 1 => Tail(s) = <<>> /\ Head(s) = s[1] /\ <<>> \in Seq(Values)
<1>1. \A s \in Seq(Values) : Len(s) = 0 => s = <<>>
  OBVIOUS
<1>2. \A s \in Seq(Values) : Len(s) = 1 =>
        s # <<>> /\ Tail(s) \in Seq(Values) /\ Len(Tail(s)) = 0 /\ Head(s) = s[1]
  OBVIOUS
<1> QED
  BY <1>1, <1>2

LEMMA ReadAnswer ==
  ASSUME CommandInv, GetsAnswer
  PROVE  LET d == [client[n] EXCEPT !.box[Id] = Tail(client[n].box[Id])]
         IN  /\ ClientOK(d) /\ SameTree(client[n], d) /\ d.next = client[n].next
             /\ d.asked = client[n].asked
             /\ Head(client[n].box[Id]) = "ok" => client[n].asked[Id] = "ok"
<1> DEFINE c == client[n]
           v == Head(c.box[Id])
           b == [c.box EXCEPT ![Id] = Tail(c.box[Id])]
           d == [c EXCEPT !.box = b]
<1>t. ClientOK(c) /\ c \in ClientRecords /\ TalkOK(c) /\ TreeOK(c) /\ c.box \in [Ids -> Seq(Values)]
  BY Unpacked DEF ClientOK, ClientRecords
<1>0. /\ step \in Requests /\ asking = "await" /\ Id = c.next /\ Id \in Ids
      /\ c.box[Id] # <<>> /\ Learns(v, d)
  BY IdIsNext DEF GetsAnswer, Awaiting
<1>1. /\ Tail(c.box[Id]) = <<>> /\ v = c.box[Id][1] /\ Tail(c.box[Id]) \in Seq(Values)
      /\ v = "ok" => c.asked[Id] = "ok"
  <2>1. c.box[Id] \in Seq(Values) /\ Len(c.box[Id]) = 1
          /\ (c.box[Id][1] = "ok" => c.asked[Id] = "ok")
    BY <1>t, <1>0 DEF TalkOK, BoxOK
  <2> QED
    BY <2>1, TailOfOne
<1>2. b \in [Ids -> Seq(Values)] /\ b[Id] = <<>> /\ \A i \in Ids : i # Id => b[i] = c.box[i]
  BY <1>t, <1>0, <1>1
<1> HIDE DEF b, v
<1>3. /\ d \in ClientRecords /\ SameTree(c, d) /\ d.next = c.next /\ d.asked = c.asked
      /\ d.out = c.out /\ d.box = b /\ d.pending = c.pending
  BY <1>t, <1>2 DEF ClientRecords, SameTree
<1> HIDE DEF d
<1>4. ASSUME NEW i \in Ids PROVE BoxOK(d, i)
  BY <1>t, <1>2, <1>3 DEF TalkOK, BoxOK
<1>5. TalkOK(d)
  BY <1>t, <1>3, <1>4 DEF TalkOK, PipeOK, InPipe
<1>6. ClientOK(d)
  BY <1>t, <1>3, <1>5, KeepsTree DEF ClientOK
<1> QED
  BY <1>1, <1>3, <1>6 DEF d, b, v

LEMMA GetsAnswerNext ==
  ASSUME CommandInv, GetsAnswer
  PROVE  CommandInv'
<1> DEFINE d == [client[n] EXCEPT !.box[Id] = Tail(client[n].box[Id])]
<1>1. /\ ClientOK(d) /\ SameTree(client[n], d) /\ d.next = client[n].next
      /\ d.asked = client[n].asked
      /\ Head(client[n].box[Id]) = "ok" => client[n].asked[Id] = "ok"
  BY ReadAnswer
<1>2. step \in Requests /\ asking # "register" /\ Id = client[n].next
        /\ Learns(Head(client[n].box[Id]), d)
  BY DEF GetsAnswer, Awaiting, Id
<1> HIDE DEF d
<1> QED
  BY <1>1, <1>2, LearnsNext

LEMMA GivesUpNext ==
  ASSUME CommandInv, Expires \/ SeesEnd
  PROVE  CommandInv'
<1> DEFINE c == client[n]
<1>0. /\ step \in Requests /\ asking = "await" /\ ClientOK(c)
      /\ Learns("error", Forgotten(c, Id)) \/ Learns("lost", c)
  BY Unpacked DEF Expires, SeesEnd, Awaiting
<1>1. LET d == Forgotten(c, Id)
      IN  ClientOK(d) /\ SameTree(c, d) /\ d.next = c.next /\ d.asked = c.asked
  BY <1>0, ForgottenFields
<1>2. SameTree(c, c)
  BY DEF SameTree
<1> QED
  BY <1>0, <1>1, <1>2, LearnsNext

LEMMA OwnsNext ==
  ASSUME CommandInv, Owns
  PROVE  CommandInv'
<1> DEFINE c == client[n]
           d == [c EXCEPT !.scope = TRUE]
<1>t. /\ ClientOK(c) /\ c \in ClientRecords /\ TalkOK(c) /\ TreeOK(c) /\ NotesOK
      /\ answer \in {"none", "exit", "error"}
  BY Unpacked DEF ClientOK
<1>0. /\ step = "own" /\ asking = "register" /\ c.next = 1 /\ c.closing = "no"
      /\ Enters("readiness", d) \/ Enters("drop", c)
      /\ UNCHANGED <<faults, n, asking, notes, cancelled, home, answer>>
  BY Unpacked DEF Owns, RequestInv, TreeInv, Made, Requests, Leaving
<1>1. /\ d \in ClientRecords /\ SameTalk(c, d) /\ d.closing = c.closing /\ d.proc = c.proc
      /\ d.scope = TRUE /\ d.killed = c.killed /\ d.kids = c.kids
  BY <1>t DEF ClientRecords, SameTalk
<1> HIDE DEF d
<1>2. ClientOK(d)
  BY <1>t, <1>1, KeepsTalk DEF ClientOK, TreeOK, Works
<1>3. NotesOK'
  BY <1>t, <1>0 DEF NotesOK
<1>4. CASE Enters("readiness", d)
  BY <1>t, <1>0, <1>1, <1>2, <1>3, <1>4, EntersNext DEF Requests, Leaving, Made, SameTalk, Owned
<1>5. CASE Enters("drop", c)
  BY <1>t, <1>0, <1>3, <1>5, EntersNext DEF Requests, Leaving
<1> QED
  BY <1>0, <1>4, <1>5

LEMMA SetupNext ==
  ASSUME CommandInv, HearsSetup \/ SetupExpires
  PROVE  CommandInv'
<1> DEFINE c == client[n]
<1>t. /\ ClientOK(c) /\ NotesOK /\ answer \in {"none", "exit", "error"} /\ n \in Clients
  BY Unpacked
<1>0. /\ step = "setupWait" /\ asking = "register" /\ n = 1 /\ c.closing = "no" /\ Owned(c)
  BY Unpacked DEF HearsSetup, SetupExpires, PlaceInv, RequestInv, TreeInv, Requests, Leaving
<1>1. PICK s \in {"replace", "abandon", "setupWait"} : Enters(s, c)
  BY DEF HearsSetup, SetupExpires
<1>2. UNCHANGED <<faults, n, asking, cancelled, home, answer>>
  BY DEF HearsSetup, SetupExpires
<1>3. NotesOK'
  <2>1. CASE notes' = notes
    BY <1>t, <2>1 DEF NotesOK
  <2>2. CASE notes # <<>> /\ notes' = Tail(notes)
    <3>1. /\ Tail(notes) \in Seq({"done", "failed", "other"})
          /\ Len(Tail(notes)) = Len(notes) - 1 /\ Len(notes) \in Nat
      BY <1>t, <2>2 DEF NotesOK
    <3> QED
      BY <1>t, <2>2, <3>1, CommandAssumption DEF NotesOK
  <2> QED
    BY <2>1, <2>2 DEF HearsSetup, SetupExpires
<1> QED
  BY <1>t, <1>0, <1>1, <1>2, <1>3, EntersNext DEF Requests, Leaving

LEMMA GoneFields ==
  ASSUME NEW c, ClientOK(c), c.closing = "closed"
  PROVE  ClientOK(Gone(c)) /\ ~Works(Gone(c)) /\ Gone(c).kids = FALSE
<1> DEFINE d == [NewClient EXCEPT !.proc = c.proc, !.killed = c.killed, !.kids = c.kids,
                                  !.closing = c.closing]
<1>1. c \in ClientRecords /\ c.kids = FALSE /\ ~Works(c)
  BY DEF ClientOK, TreeOK, ClientRecords
<1>2. NewClient \in ClientRecords /\ TalkOK(NewClient)
  BY FreshClient DEF ClientOK
<1>3. /\ d \in ClientRecords /\ SameTalk(NewClient, d) /\ d.proc = c.proc /\ d.killed = c.killed
      /\ d.kids = c.kids
  BY <1>1, <1>2 DEF ClientRecords, SameTalk
<1>4. d = Gone(c)
  BY DEF Gone
<1> HIDE DEF d
<1>5. TalkOK(d) /\ TreeOK(d) /\ ~Works(d)
  BY <1>1, <1>2, <1>3, KeepsTalk DEF TreeOK, Works
<1> QED
  BY <1>1, <1>3, <1>4, <1>5 DEF ClientOK

LEMMA ReplacesNext ==
  ASSUME CommandInv, Replaces
  PROVE  CommandInv'
<1>t. /\ TypeOK /\ ClientsInv /\ PlaceInv /\ RequestInv
      /\ n \in Clients /\ client \in [Clients -> ClientRecords] /\ ClientOK(client[n])
  BY Unpacked
<1>0. /\ step = "replace" /\ n = 1 /\ client[2] = NewClient /\ asking = "register"
      /\ client[1].closing = "closed" /\ Becomes(1, Gone(client[1]))
      /\ n' = 2 /\ step' = "launch" /\ notes' = <<>>
      /\ UNCHANGED <<faults, asking, cancelled, home, answer>>
  BY <1>t DEF Replaces, Replaced, PlaceInv, RequestInv, Requests
<1>1. ClientOK(Gone(client[1])) /\ ~Works(Gone(client[1])) /\ Gone(client[1]).kids = FALSE
  BY <1>t, <1>0, GoneFields
<1>2. /\ client'[1] = Gone(client[1]) /\ client'[2] = NewClient
      /\ ClientsInv' /\ client' \in [Clients -> ClientRecords]
  BY <1>t, <1>0, <1>1, ClientSet DEF Clients
<1>3. TypeOK'
  <2>1. notes' \in Seq({"done", "failed", "other"}) /\ Len(notes') = 0
    BY <1>0
  <2> QED
    BY <1>t, <1>0, <1>2, <2>1, CommandAssumption DEF TypeOK, ClientTypeOK, Clients, Steps
<1>4. PlaceInv'
  BY <1>0, <1>1, <1>2 DEF PlaceInv
<1>5. RequestInv' /\ TreeInv' /\ ExitInv'
  BY <1>0, <1>2, FreshClient DEF RequestInv, TreeInv, ExitInv, Made, Requests
<1> QED
  BY <1>2, <1>3, <1>4, <1>5 DEF CommandInv

LEMMA LeavesNext ==
  ASSUME CommandInv, Leaves
  PROVE  CommandInv'
<1>t. /\ TypeOK /\ ClientsInv /\ PlaceInv /\ RequestInv /\ TreeInv /\ ExitInv
  BY Unpacked
<1>0. /\ step \in {"drop", "abandon", "finish"}
      /\ step' = IF step = "finish" THEN "over" ELSE "refused"
      /\ home' \in {"gone", "left"}
      /\ UNCHANGED <<client, faults, n, asking, notes, cancelled, answer>>
  BY DEF Leaves, clientVars
<1>1. TypeOK'
  BY <1>t, <1>0 DEF TypeOK, ClientTypeOK, Steps
<1>2. ClientsInv' /\ PlaceInv'
  BY <1>t, <1>0 DEF ClientsInv, PlaceInv
<1>3. RequestInv'
  BY <1>t, <1>0 DEF RequestInv, Requests
<1>4. TreeInv' /\ ExitInv'
  BY <1>t, <1>0 DEF TreeInv, ExitInv, Leaving
<1> QED
  BY <1>1, <1>2, <1>3, <1>4 DEF CommandInv

LEMMA StopNext ==
  ASSUME CommandInv, Stop
  PROVE  CommandInv'
<1> DEFINE c == client[n]
           d == BeginClose(c, "release")
<1>t. /\ TypeOK /\ ClientsInv /\ PlaceInv /\ RequestInv /\ TreeInv /\ ExitInv
      /\ n \in Clients /\ client \in [Clients -> ClientRecords] /\ ClientOK(c)
  BY Unpacked
<1>0. /\ step \in {"exec", "finish"} /\ cancelled' = TRUE /\ Becomes(n, d)
      /\ UNCHANGED <<faults, step, n, asking, notes, home, answer>>
  BY DEF Stop
<1>1. ClientOK(d) /\ SameTalk(c, d) /\ (Owned(c) => Owned(d))
  BY <1>t, BeginCloseFields
<1> HIDE DEF d
<1>2. /\ client'[n] = d /\ \A j \in Clients : j # n => client'[j] = client[j]
      /\ ClientsInv' /\ client' \in [Clients -> ClientRecords]
  BY <1>t, <1>0, <1>1, ClientSet
<1>3. TypeOK'
  BY <1>t, <1>0, <1>2 DEF TypeOK, ClientTypeOK
<1>4. PlaceInv'
  BY <1>t, <1>0, <1>2 DEF PlaceInv, Clients
<1>5. RequestInv'
  BY <1>t, <1>0, <1>1, <1>2 DEF RequestInv, SameTalk
<1>6. TreeInv' /\ ExitInv'
  BY <1>t, <1>0, <1>1, <1>2 DEF TreeInv, ExitInv, Leaving, SameTalk
<1> QED
  BY <1>2, <1>3, <1>4, <1>5, <1>6 DEF CommandInv

\* Nothing but the context, or nothing at all.
LEMMA CancelNext ==
  ASSUME CommandInv, cancelled' \in BOOLEAN,
         UNCHANGED <<client, faults, step, n, asking, notes, home, answer>>
  PROVE  CommandInv'
<1>t. /\ TypeOK /\ ClientsInv /\ PlaceInv /\ RequestInv /\ TreeInv /\ ExitInv
  BY Unpacked
<1>1. TypeOK'
  BY <1>t DEF TypeOK, ClientTypeOK
<1>2. ClientsInv' /\ PlaceInv' /\ RequestInv' /\ TreeInv' /\ ExitInv'
  BY <1>t DEF ClientsInv, PlaceInv, RequestInv, TreeInv, ExitInv
<1> QED
  BY <1>1, <1>2 DEF CommandInv

\* What a goroutine of a client or its server does, of one that it may do it to.
LEMMA Movements ==
  ASSUME CommandInv, NEW k \in Clients,
         Goroutines(k) \/ ((Server(k) \/ Ends(k)) /\ UNCHANGED commandVars)
  PROVE  /\ Moves(k) /\ NotesOK' /\ faults' \in 0 .. MaxFaults
         /\ UNCHANGED <<step, n, asking, cancelled, home, answer>>
<1>t. NotesOK /\ ClientOK(client[k]) /\ client[k] \in ClientRecords /\ faults \in 0 .. MaxFaults
  BY Unpacked DEF ClientsInv, ClientOK
<1>1. CASE ReadsNote(k)
  <2>1. Moves(k)
    BY <1>t, <1>1, ReadsMoves DEF ReadsNote
  <2>2. NotesOK'
    <3>1. /\ client[k].out \in Seq(Lines) /\ client[k].out # <<>> /\ Head(client[k].out).kind = "note"
          /\ notes' = Heard(Head(client[k].out).setup)
      BY <1>t, <1>1 DEF ReadsNote, Unread, ClientRecords
    <3>2. Head(client[k].out) \in Lines
      BY <3>1, TailLine
    <3>3. PICK x \in {"done", "failed", "other"} : notes' = Heard(x)
      BY <3>1, <3>2 DEF Lines
    <3>4. /\ Append(notes, x) \in Seq({"done", "failed", "other"}) /\ Len(notes) \in Nat
          /\ Len(Append(notes, x)) = Len(notes) + 1
      BY <1>t DEF NotesOK
    <3> QED
      BY <1>t, <3>3, <3>4, CommandAssumption DEF Heard, NotesOK
  <2> QED
    BY <1>t, <1>1, <2>1, <2>2 DEF ReadsNote
<1>2. CASE (Closes(k) \/ Reads(k) \/ ReadsEnd(k) \/ Waits(k) \/ Server(k) \/ Ends(k))
           /\ UNCHANGED commandVars
  <2>1. Moves(k)
    BY <1>t, <1>2, ClosesMoves, ReadsMoves, EndsMoves, ServerMoves
  <2>2. faults' \in 0 .. MaxFaults
    <3>1. faults' = faults \/ (faults > 0 /\ faults' = faults - 1)
      BY <1>2 DEF Closes, Reads, ReadsEnd, Waits, Server, Answers, SetsUp, Misbehaves, Ends
    <3> QED
      BY <1>t, <3>1, ClientAssumption
  <2>3. UNCHANGED <<step, n, asking, notes, cancelled, home, answer>>
    BY <1>2 DEF commandVars
  <2> QED
    BY <1>t, <2>1, <2>2, <2>3 DEF NotesOK
<1> QED
  BY <1>1, <1>2 DEF Goroutines

LEMMA CommandInit == Init => CommandInv
<1> SUFFICES ASSUME Init PROVE CommandInv
  OBVIOUS
<1>1. /\ client = [k \in Clients |-> NewClient] /\ faults = MaxFaults /\ step = "home" /\ n = 1
      /\ asking = "register" /\ notes = <<>> /\ cancelled = FALSE /\ home = "none" /\ answer = "none"
  BY DEF Init, ClientInit
<1>2. NewClient \in ClientRecords /\ client[1] = NewClient /\ client[2] = NewClient
  BY <1>1, FreshClient DEF Clients, ClientOK
<1>3. TypeOK
  <2>1. notes \in Seq({"done", "failed", "other"}) /\ Len(notes) = 0
    BY <1>1
  <2>2. client \in [Clients -> ClientRecords] /\ faults \in 0 .. MaxFaults
    BY <1>1, <1>2, ClientAssumption
  <2>3. Len(notes) <= MaxNotes
    BY <2>1, CommandAssumption
  <2> QED
    BY <1>1, <2>1, <2>2, <2>3 DEF TypeOK, ClientTypeOK, Clients, Steps
<1>4. ClientsInv
  BY <1>1, FreshClient DEF ClientsInv
<1>5. PlaceInv /\ RequestInv /\ TreeInv /\ ExitInv
  BY <1>1, <1>2, FreshClient DEF PlaceInv, RequestInv, TreeInv, ExitInv, Made, Requests, Leaving
<1> QED
  BY <1>3, <1>4, <1>5 DEF CommandInv

LEMMA CommandNext == CommandInv /\ [Next]_vars => CommandInv'
<1> SUFFICES ASSUME CommandInv, [Next]_vars PROVE CommandInv'
  OBVIOUS
<1>1. CASE Acts
  BY <1>1, MakesHomeNext, LaunchesNext, RegistersNext, SendsNext, GetsAnswerNext, GivesUpNext,
     OwnsNext, SetupNext, ReplacesNext, LeavesNext DEF Acts
<1>2. CASE Stop
  BY <1>2, StopNext
<1>3. CASE Cancel \/ UNCHANGED vars
  <2>1. cancelled \in BOOLEAN
    BY DEF CommandInv, TypeOK
  <2> QED
    BY <1>3, <2>1, CancelNext DEF Cancel, vars, clientVars
<1>4. ASSUME NEW k \in Clients,
             Goroutines(k) \/ ((Server(k) \/ Ends(k)) /\ UNCHANGED commandVars)
      PROVE  CommandInv'
  BY <1>4, Movements, MovedNext
<1> QED
  BY <1>1, <1>2, <1>3, <1>4 DEF Next

\* The invariant holds whatever the servers answer, the timers do and the tool
\* host asks for.
THEOREM CommandInductive == Spec => []CommandInv
BY CommandInit, CommandNext, PTL DEF Spec

\* Clients, notifications and the command are well formed: requests never run out
\* of ids, and the channel of notifications never holds more than it has room for.
THEOREM CommandTypes == Spec => []TypeOK
<1>1. CommandInv => TypeOK
  BY DEF CommandInv
<1> QED
  BY <1>1, CommandInductive, PTL

\* The first app-server can do nothing any more when the second one is started.
THEOREM OneServerHolds == Spec => []OneServer
<1>1. CommandInv => OneServer
  <2> SUFFICES ASSUME CommandInv PROVE OneServer
    OBVIOUS
  <2>1. n \in Clients /\ (n = 1 => ~Works(client[2])) /\ (n = 2 => ~Works(client[1]))
    BY Unpacked, FreshClient DEF PlaceInv
  <2> QED
    BY <2>1 DEF OneServer, Serves, Works, Clients
<1> QED
  BY <1>1, CommandInductive, PTL

\* dispatch writes to a channel of one only for a request that has been told
\* nothing, so readStdout never waits, whatever the server repeats.
THEOREM ReaderFreeHolds == Spec => []ReaderFree
<1>1. CommandInv => ReaderFree
  <2> SUFFICES ASSUME CommandInv, NEW k \in Clients, Blocked(client[k]) PROVE FALSE
    BY DEF ReaderFree
  <2>1. PICK id \in Ids : id \in client[k].pending /\ ~Room(client[k], id)
    BY Unpacked DEF Blocked, ClientsInv, ClientOK, ClientRecords
  <2>2. client[k].box[id] = <<>>
    BY <2>1 DEF CommandInv, ClientsInv, ClientOK, TalkOK, BoxOK
  <2> QED
    BY <2>1, <2>2 DEF Room
<1> QED
  BY <1>1, CommandInductive, PTL

----------------------------------------------------------------------------
(* A command keeps its promise: the steps of CommandLife.                  *)

Exited == Phase \in {"running", "over"} /\ client[n].asked[3] = "ok"
Alive == \E k \in Clients : client[k].kids \/ Serves(k)
Told == IF step = "over" THEN answer ELSE "none"

LEMMA AliveWorks == Alive <=> \E k \in Clients : client[k].kids \/ Works(client[k])
BY DEF Alive, Serves, Works

LEMMA LifeInit == Init => Life!Init
<1> SUFFICES ASSUME Init PROVE Life!Init
  OBVIOUS
<1>1. step = "home" /\ \A k \in Clients : client[k] = NewClient
  BY DEF Init, ClientInit
<1>2. ~Alive
  BY <1>1, AliveWorks, FreshClient
<1>3. Phase = "starting"
  BY <1>1 DEF Phase
<1> QED
  BY <1>1, <1>2, <1>3 DEF Life!Init, Alive

\* Something goes on that the caller knows nothing of.
LEMMA WorkStep ==
  ASSUME Phase \in {"starting", "running"}, Phase' = Phase, Exited' <=> Exited, Told' = Told
  PROVE  Life!Next
<1>1. Alive' \in BOOLEAN
  BY DEF Alive
<1> QED
  BY <1>1 DEF Life!Next, Life!Work, Exited, Alive, Told

LEMMA RefuseStep ==
  ASSUME Phase = "starting", Phase' = "refused", ~Alive', Told' = Told
  PROVE  Life!Next
BY DEF Life!Next, Life!Refuse, Exited, Alive, Told

LEMMA StartingOn ==
  ASSUME Phase = "starting", Phase' = "starting"
  PROVE  Life!Next
<1>1. Told' = Told
  BY DEF Phase, Told
<1> QED
  BY <1>1, WorkStep DEF Exited

\* Only the client of the command can leave something alive, and it is closed.
LEMMA NothingAlive == ASSUME CommandInv, client[n].closing = "closed" PROVE ~Alive
<1>1. PlaceInv /\ n \in Clients /\ TreeOK(client[n])
  BY Unpacked DEF ClientOK
<1>2. \A k \in Clients : ~Works(client[k]) /\ ~client[k].kids
  BY <1>1, FreshClient DEF PlaceInv, TreeOK, Clients
<1> QED
  BY <1>2, AliveWorks

LEMMA MakesHomeLife == ASSUME CommandInv, MakesHome PROVE Life!Next
<1>1. n = 1 /\ client[1] = NewClient /\ client[2] = NewClient /\ client' = client
  BY Unpacked DEF MakesHome, PlaceInv, clientVars
<1>2. ~Alive'
  <2>1. \A k \in Clients : client'[k] = NewClient
    BY <1>1 DEF Clients
  <2> QED
    BY <2>1, FreshClient DEF Alive, Serves, Works
<1>3. Phase = "starting" /\ Phase' \in {"starting", "refused"} /\ Told' = Told
  BY DEF MakesHome, Phase, Told
<1> QED
  BY <1>2, <1>3, RefuseStep, StartingOn

LEMMA SetsUpLife ==
  ASSUME Launches \/ Owns \/ HearsSetup \/ SetupExpires \/ Replaces PROVE Life!Next
<1>1. step \in {"launch", "own", "setupWait", "replace"}
        /\ step' \in {"initialize", "readiness", "drop", "replace", "abandon", "setupWait", "launch"}
  BY DEF Launches, Owns, HearsSetup, SetupExpires, Replaces, Replaced, Enters
<1>2. Phase = "starting" /\ Phase' = "starting"
  BY <1>1 DEF Phase
<1> QED
  BY <1>2, StartingOn

LEMMA LeavesLife == ASSUME CommandInv, Leaves PROVE Life!Next
<1>1. ExitInv /\ ~Alive
  BY Unpacked, NothingAlive DEF Leaves
<1>2. client' = client /\ n' = n /\ answer' = answer
  BY DEF Leaves, clientVars
<1>3. ~Alive'
  BY <1>1, <1>2 DEF Alive, Serves
<1>4. CASE step # "finish"
  <2>1. Phase = "starting" /\ Phase' = "refused" /\ Told' = Told
    BY <1>4 DEF Leaves, Phase, Told
  <2> QED
    BY <1>3, <2>1, RefuseStep
<1>5. CASE step = "finish"
  <2>1. Phase = "running" /\ Phase' = "over" /\ Told = "none" /\ Told' = answer
          /\ answer \in {"exit", "error"}
    BY <1>1, <1>2, <1>5 DEF Leaves, Phase, Told, ExitInv
  <2>2. (Exited' <=> Exited) /\ (answer = "exit" => Exited)
    BY <1>1, <1>2, <1>5, <2>1 DEF Exited, ExitInv
  <2> QED
    BY <1>3, <2>1, <2>2 DEF Life!Next, Life!End, Exited, Alive, Told
<1> QED
  BY <1>4, <1>5

LEMMA RegistersLife == ASSUME CommandInv, Registers PROVE Life!Next
<1>1. /\ step \in Requests /\ step' = step /\ n' = n /\ n \in Clients
      /\ client'[n].asked = client[n].asked
  BY Unpacked DEF Registers, Becomes, Registered, ClientRecords
<1>2. Phase \in {"starting", "running"} /\ Phase' = Phase /\ Told' = Told
  BY <1>1 DEF Phase, Told, Requests
<1> QED
  BY <1>1, <1>2, WorkStep DEF Exited

\* A request is over: the command runs, or has come to its end.
LEMMA LearnsLife ==
  ASSUME CommandInv, NEW value, NEW c, ClientOK(c), SameTree(client[n], c),
         c.asked = client[n].asked, step \in Requests, asking # "register", Learns(value, c)
  PROVE  Life!Next
<1> DEFINE s == After(value)
<1>t. n \in Clients /\ ClientsInv /\ client \in [Clients -> ClientRecords] /\ ClientOK(client[n])
  BY Unpacked
<1>0. Enters(s, c) /\ step' = s /\ n' = n
  BY DEF Learns, Enters
<1>1. \/ s = "exec" /\ step = "readiness"
      \/ s = "finish" /\ step = "exec"
      \/ s \in {"own", "setup", "setupWait", "drop", "abandon"} /\ step # "exec"
  BY DEF After, Requests
<1> HIDE DEF s
<1>2. CASE s = "exec"
  <2>1. Becomes(n, c) /\ step = "readiness"
    BY <1>0, <1>1, <1>2 DEF Enters, Leaving
  <2>2. client'[n] = c /\ \A j \in Clients : j # n => client'[j] = client[j]
    BY <1>t, <2>1, ClientSet
  <2>3. Alive' <=> Alive
    BY <1>t, <2>2 DEF Alive, Serves, SameTree
  <2>4. client[n].asked[3] = "no"
    <3>1. client[n].next = 2
      BY <2>1, IdIsNext DEF Made
    <3> QED
      BY <1>t, <3>1 DEF ClientOK, TalkOK, BoxOK, Ids
  <2>5. ~Exited' /\ ~Exited
    BY <1>0, <2>2, <2>4 DEF Exited
  <2>6. Phase = "starting" /\ Phase' = "running" /\ Told' = Told
    BY <1>0, <1>2, <2>1 DEF Phase, Told
  <2> QED
    BY <2>3, <2>5, <2>6 DEF Life!Next, Life!Run, Exited, Alive, Told
<1>3. CASE s = "finish"
  <2>1. PICK d : Becomes(n, d) /\ SameTalk(c, d)
    BY <1>0, <1>3, BeginCloseFields DEF Enters, Leaving
  <2>2. client'[n].asked = client[n].asked
    BY <1>t, <2>1, ClientSet DEF SameTalk
  <2>3. Phase = "running" /\ Phase' = "running" /\ Told' = Told
    BY <1>0, <1>1, <1>3 DEF Phase, Told
  <2> QED
    BY <1>0, <2>2, <2>3, WorkStep DEF Exited
<1>4. CASE s \notin {"exec", "finish"}
  <2>1. Phase = "starting" /\ Phase' = "starting"
    BY <1>0, <1>1, <1>4 DEF Phase, Requests
  <2> QED
    BY <2>1, StartingOn
<1> QED
  BY <1>2, <1>3, <1>4

LEMMA SendsLife == ASSUME CommandInv, Sends PROVE Life!Next
<1> DEFINE c == client[n]
<1>t. n \in Clients /\ client \in [Clients -> ClientRecords] /\ ClientOK(c) /\ c \in ClientRecords
  BY Unpacked
<1>0. /\ step \in Requests /\ asking = "send" /\ Id = c.next /\ Id \in Ids
      /\ c.next = Made(step) + 1 /\ c.asked[Id] = "no"
  BY Unpacked, IdIsNext DEF Sends, RequestInv
<1>1. CASE Learns("error", Forgotten(c, Id))
  BY <1>t, <1>0, <1>1, ForgottenFields, LearnsLife
<1>2. CASE /\ Becomes(n, [Sent(c, Id) EXCEPT !.kids = (step = "exec" /\ Serves(n)),
                                             !.setup = (step = "setup")])
           /\ UNCHANGED <<step, n>>
  <2>1. client'[n].asked = [c.asked EXCEPT ![Id] = "asked"]
    BY <1>t, <1>2 DEF Becomes, Sent, ClientRecords
  <2>2. step = "exec" => c.asked[3] = "no" /\ client'[n].asked[3] = "asked"
    BY <1>t, <1>0, <2>1 DEF Made, ClientRecords
  <2>3. Phase \in {"starting", "running"} /\ Phase' = Phase /\ Told' = Told
          /\ (Phase = "running" <=> step = "exec")
    BY <1>0, <1>2 DEF Phase, Told, Requests
  <2>4. ~Exited /\ ~Exited'
    BY <1>2, <2>2, <2>3 DEF Exited
  <2> QED
    BY <2>3, <2>4, WorkStep
<1> QED
  BY <1>1, <1>2 DEF Sends

LEMMA AnswerLife == ASSUME CommandInv, GetsAnswer \/ Expires \/ SeesEnd PROVE Life!Next
<1> DEFINE c == client[n]
           d == [c EXCEPT !.box[Id] = Tail(c.box[Id])]
<1>t. ClientOK(c) /\ c \in ClientRecords
  BY Unpacked
<1>0. step \in Requests /\ asking # "register"
  BY DEF GetsAnswer, Expires, SeesEnd, Awaiting
<1>1. CASE Expires
  BY <1>t, <1>0, <1>1, ForgottenFields, LearnsLife DEF Expires
<1>2. CASE SeesEnd
  BY <1>t, <1>0, <1>2, LearnsLife DEF SeesEnd, SameTree
<1>3. CASE GetsAnswer
  <2>1. ClientOK(d) /\ SameTree(c, d) /\ d.asked = c.asked
    BY <1>3, ReadAnswer
  <2> QED
    BY <1>0, <1>3, <2>1, LearnsLife DEF GetsAnswer
<1> QED
  BY <1>1, <1>2, <1>3

LEMMA StopLife == ASSUME CommandInv, Stop PROVE Life!Next
<1>1. PICK d : Becomes(n, d) /\ SameTalk(client[n], d)
  BY Unpacked, BeginCloseFields DEF Stop
<1>2. n \in Clients /\ n' = n /\ client'[n].asked = client[n].asked
  BY <1>1, Unpacked, ClientSet DEF SameTalk, Stop
<1>3. Phase = "running" /\ Phase' = "running" /\ Told' = Told
  BY DEF Stop, Phase, Told
<1> QED
  BY <1>2, <1>3, WorkStep DEF Exited

LEMMA CancelLife == ASSUME Cancel PROVE Life!Next
<1>1. client' = client /\ n' = n /\ step' = step /\ step \in Requests \cup {"setupWait"}
  BY DEF Cancel, clientVars
<1>2. Phase \in {"starting", "running"} /\ Phase' = Phase /\ Told' = Told
  BY <1>1 DEF Phase, Told, Requests
<1> QED
  BY <1>1, <1>2, WorkStep DEF Exited

\* The server may have reported the exit of the command; whatever else a goroutine or
\* a server does is work.
LEMMA MovedLife ==
  ASSUME CommandInv, NEW k \in Clients, Moves(k), ~Ended, UNCHANGED <<step, n, answer>>
  PROVE  Life!Next
<1>t. n \in Clients /\ ClientsInv /\ client \in [Clients -> ClientRecords]
  BY Unpacked
<1>1. PICK d : Becomes(k, d) /\ Kept(client[k], d)
  BY DEF Moves
<1>2. client'[k] = d /\ \A j \in Clients : j # k => client'[j] = client[j]
  BY <1>t, <1>1, ClientSet
<1>3. Phase \in {"starting", "running"} /\ Phase' = Phase /\ Told' = Told
  <2>1. step \in Steps
    BY Unpacked DEF TypeOK
  <2> QED
    BY <2>1 DEF Ended, Phase, Told, Steps, Requests, Leaving
<1>4. CASE Exited' <=> Exited
  BY <1>3, <1>4, WorkStep
<1>5. CASE ~(Exited' <=> Exited)
  <2>1. k = n /\ Phase = "running" /\ d.asked[3] # client[n].asked[3]
    BY <1>2, <1>3, <1>5, <1>t DEF Exited
  <2>2. /\ d.kids = client[n].kids /\ d.proc = client[n].proc /\ d.killed = client[n].killed
        /\ client[n].asked[3] = "asked"
    BY <1>1, <2>1 DEF Kept, Ids
  <2>3. ~Exited /\ Exited'
    BY <1>5, <2>2 DEF Exited
  <2>4. Alive' <=> Alive
    BY <1>2, <2>1, <2>2 DEF Alive, Serves
  <2> QED
    BY <1>3, <2>1, <2>3, <2>4 DEF Life!Next, Life!Exit, Exited, Alive, Told
<1> QED
  BY <1>4, <1>5

LEMMA LifeNext == CommandInv /\ [Next]_vars => [Life!Next]_(Life!vars)
<1> SUFFICES ASSUME CommandInv, [Next]_vars PROVE Life!Next \/ UNCHANGED Life!vars
  OBVIOUS
<1>1. CASE Acts
  BY <1>1, MakesHomeLife, SetsUpLife, LeavesLife, RegistersLife, SendsLife, AnswerLife DEF Acts
<1>2. CASE Stop \/ Cancel
  BY <1>2, StopLife, CancelLife
<1>3. ASSUME NEW k \in Clients, ~Ended,
             Goroutines(k) \/ ((Server(k) \/ Ends(k)) /\ UNCHANGED commandVars)
      PROVE  Life!Next
  BY <1>3, Movements, MovedLife
<1>4. CASE UNCHANGED vars
  <2>1. UNCHANGED <<client, step, n, answer>>
    BY <1>4 DEF vars, clientVars
  <2> QED
    BY <2>1 DEF Life!vars, Phase, Serves
<1> QED
  BY <1>1, <1>2, <1>3, <1>4 DEF Next

\* A command is refused or runs and is over once, an exit that is reported has been
\* reached, and nothing of it is left alive, whatever the server and the timers do.
THEOREM IsCommandHolds == Spec => IsCommand
<1>1. Init => Life!Init
  BY LifeInit
<1>2. CommandInv /\ [Next]_vars => [Life!Next]_(Life!vars)
  BY LifeNext
<1> QED
  BY <1>1, <1>2, CommandInductive, PTL DEF Spec, IsCommand, Life!Spec
=============================================================================
