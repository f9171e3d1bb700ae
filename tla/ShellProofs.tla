---------------------------- MODULE ShellProofs ----------------------------
(***************************************************************************)
(* Safety of the shell for a line buffer, a history and a pool of any      *)
(* size: the string a command runs with is the line as it was edited, the  *)
(* history is what was run, and every block has one owner but for the copy *)
(* a history without memory cannot keep.                                   *)
(***************************************************************************)
EXTENDS Shell, SequenceTheorems, NatInduction, TLAPS

-----------------------------------------------------------------------------
(* The inductive invariant.                                                *)

Text == Strings(BufferSize - 1)

(* The buffer holds the line up to the index, whatever lies behind it.     *)
Editing ==
  /\ Len(typed) = bufferIndex
  /\ \A i \in 1..Len(typed) : buffer[i - 1] = typed[i]

(* The objects that exist at each point of onChar, newCommand and          *)
(* processNewCommand.                                                      *)
Running == {"command", "args", "argStr", "ask", "reply", "return", "record",
            "push", "assign", "reset"}

Stages ==
  /\ history \in Seq(Text)
  /\ elements = NULL => history = <<>>
  /\ pc = "prompt" => str.block = NoObject
  /\ pc \in Running => str.block \notin {NoObject, NULL}
  /\ pc \in {"prompt", "command", "args", "record", "push", "assign", "reset"} =>
       args = NoObject
  /\ pc \in {"prompt", "command", "args", "argStr", "record", "push", "assign", "reset"} =>
       argStr = NoObject
  /\ pc \in Running \cup {"prompt"} =>
       (temp = NoObject <=> pc \notin {"push", "assign"})
  /\ pc = "assign" => Len(history) < Reservation

(* Between the comparison with the last command and the recording of this  *)
(* one, the history does not change.                                       *)
NewCommand == pc \in {"push", "assign"} => ~Unreadable /\ ~Repeated

IInv ==
  /\ TypeOK
  /\ LineIsTyped
  /\ HistoryExact
  /\ BlocksOwned
  /\ Editing
  /\ Stages
  /\ NewCommand

-----------------------------------------------------------------------------
(* Blocks and their owners.                                                *)

(* BlocksOwned for n objects with the pointers f, and the live blocks L.   *)
OwnedBy(n, f, L) ==
  /\ \A i, j \in 1..n : f[i] \notin {NoObject, NULL} /\ f[i] = f[j] => i = j
  /\ L = {f[i] : i \in {j \in 1..n : f[j] \notin {NoObject, NULL}}}

(* The pointers of the single objects, o, and those of the remembered lines. *)
PointersOf(o, h) == o \o [i \in 1..Len(h) |-> h[i].block]

LEMMA PointersAre ==
  ASSUME NEW o \in Seq(Int), NEW h \in Seq(Text)
  PROVE  LET f == PointersOf(o, h)
         IN /\ Len(f) = Len(o) + Len(h) /\ Len(h) \in Nat
            /\ \A i \in 1..Len(o) : f[i] = o[i]
            /\ \A i \in 1..Len(h) : f[Len(o) + i] = h[i].block
<1> DEFINE texts == [i \in 1..Len(h) |-> h[i].block]
<1>1. Len(h) \in Nat /\ \A i \in 1..Len(h) : h[i] \in Text
  OBVIOUS
<1>2. \A i \in 1..Len(h) : h[i].block \in Int
  BY <1>1, ConstAssumption DEF Text, Strings, NoObject
<1>3. texts \in Seq(Int) /\ Len(texts) = Len(h)
  BY <1>1, <1>2
<1> QED
  BY <1>1, <1>3, ConcatProperties DEF PointersOf

LEMMA OwnedNow ==
  ASSUME BlocksOwned, pc # "fault"
  PROVE  OwnedBy(Len(Pointers), Pointers, live)
BY DEF BlocksOwned, CopyLost, Owners, OwnedBy

LEMMA OwnedNext ==
  ASSUME NEW n, n = Len(Pointers'), NEW g, g = Pointers', OwnedBy(n, g, live')
  PROVE  BlocksOwned'
<1>1. \A i, j \in 1..n : g[i] \notin {NoObject, NULL} /\ g[i] = g[j] => i = j
  BY DEF OwnedBy
<1>2. live' = {g[i] : i \in {j \in 1..n : g[j] \notin {NoObject, NULL}}}
  BY DEF OwnedBy
<1>3. PICK O : O = {i \in 1..n : g[i] \notin {NoObject, NULL}}
  OBVIOUS
<1>4. Owners' = O
  BY <1>3 DEF Owners
<1>5. \A i, j \in O : g[i] = g[j] => i = j
  BY <1>1, <1>3
<1>6. {g[i] : i \in O} = live'
  BY <1>2, <1>3
<1> QED
  BY <1>4, <1>5, <1>6 DEF BlocksOwned

(* An object gets the block p, or finds none.                              *)
LEMMA Put ==
  ASSUME NEW n \in Nat, NEW f, NEW g, NEW L, OwnedBy(n, f, L),
         NEW k \in 1..n, f[k] \in {NoObject, NULL},
         \A i \in 1..n : i # k => g[i] = f[i],
         g[k] \notin L
  PROVE  OwnedBy(n, g, L \cup ({g[k]} \ {NoObject, NULL}))
BY DEF OwnedBy, NoObject, NULL

(* An object is destroyed, and its block is freed.                         *)
LEMMA Drop ==
  ASSUME NEW n \in Nat, NEW f, NEW g, NEW L, OwnedBy(n, f, L),
         NEW k \in 1..n, g[k] = NoObject,
         \A i \in 1..n : i # k => g[i] = f[i]
  PROVE  OwnedBy(n, g, L \ {f[k]})
BY DEF OwnedBy, NoObject, NULL

(* An object more.                                                         *)
LEMMA Extend ==
  ASSUME NEW n \in Nat, NEW f, NEW g, NEW L, OwnedBy(n, f, L),
         \A i \in 1..n : g[i] = f[i],
         g[n + 1] \notin L
  PROVE  OwnedBy(n + 1, g, L \cup ({g[n + 1]} \ {NoObject, NULL}))
BY DEF OwnedBy, NoObject, NULL

LEMMA MinIsElement ==
  ASSUME NEW S \in SUBSET Nat, S # {}
  PROVE  Min(S) \in S /\ \A y \in S : Min(S) <= y
<1>1. PICK x \in S : \A y \in S : x <= y
  BY SmallestOf
<1> QED
  BY <1>1 DEF Min

LEMMA AllocatedIsFree ==
  ASSUME TypeOK, NEW p \in Allocated
  PROVE  /\ p \in 0..Blocks /\ p \notin live
         /\ With(p) = live \cup ({p} \ {NoObject, NULL})
         /\ With(p) \subseteq 1..Blocks
<1>1. live \in SUBSET (1..Blocks) /\ Blocks \in Nat
  BY ConstAssumption DEF TypeOK
<1>2. p = NULL \/ p \in (1..Blocks) \ live
  <2>1. CASE p # NULL
    <3>1. live # 1..Blocks /\ p = Min((1..Blocks) \ live)
      BY <2>1 DEF Allocated
    <3>2. (1..Blocks) \ live \in SUBSET Nat
      BY <1>1
    <3>3. (1..Blocks) \ live # {}
      BY <1>1, <3>1
    <3> QED
      BY <3>1, <3>2, <3>3, MinIsElement
  <2> QED
    BY <2>1
<1>3. p \in 0..Blocks /\ p \notin live /\ p # NoObject
  BY <1>1, <1>2 DEF NULL, NoObject
<1>4. With(p) = live \cup ({p} \ {NoObject, NULL})
  BY <1>3 DEF With
<1>5. With(p) \subseteq 1..Blocks
  BY <1>1, <1>2 DEF With
<1> QED
  BY <1>3, <1>4, <1>5

-----------------------------------------------------------------------------
(* The text of the line.                                                   *)

LEMMA SeqOfIs ==
  ASSUME NEW S, NEW n \in Nat, NEW x
  PROVE  x \in SeqOf(S, n) <=> x \in Seq(S) /\ Len(x) <= n
<1>1. ASSUME x \in SeqOf(S, n)
      PROVE  x \in Seq(S) /\ Len(x) <= n
  <2>1. PICK m \in 0..n : x \in [1..m -> S]
    BY <1>1 DEF SeqOf
  <2> QED
    BY <2>1
<1>2. ASSUME x \in Seq(S), Len(x) <= n
      PROVE  x \in SeqOf(S, n)
  <2>1. Len(x) \in 0..n /\ x \in [1..Len(x) -> S]
    BY <1>2
  <2> QED
    BY <2>1 DEF SeqOf
<1> QED
  BY <1>1, <1>2

LEMMA LineIs ==
  \A x : x \in SeqOf(Chars, BufferSize - 1) <=> x \in Seq(Chars) /\ Len(x) <= BufferSize - 1
<1>1. BufferSize - 1 \in Nat
  BY ConstAssumption
<1> QED
  BY <1>1, SeqOfIs

LEMMA CTextIs ==
  ASSUME NEW f, DOMAIN f = 0..(BufferSize - 1), NEW k \in 0..(BufferSize - 1),
         f[k] = NUL, \A i \in 0..(k - 1) : f[i] # NUL
  PROVE  CText(f) = [i \in 1..k |-> f[i - 1]]
<1> DEFINE ends == {i \in DOMAIN f : f[i] = NUL}
<1>1. ends \in SUBSET Nat /\ k \in ends
  BY ConstAssumption
<1>2. Min(ends) \in ends /\ Min(ends) <= k
  BY <1>1, MinIsElement
<1>3. Min(ends) = k
  <2>1. PICK m : m = Min(ends)
    OBVIOUS
  <2> QED
    BY <1>2, <2>1, ConstAssumption
<1> QED
  BY <1>3 DEF CText

(* The line with its terminator.                                           *)
Line == [buffer EXCEPT ![bufferIndex] = NUL]

LEMMA LineText ==
  ASSUME TypeOK, Editing
  PROVE  /\ Line \in [0..(BufferSize - 1) -> Chars \cup {NUL}]
         /\ CText(Line) = typed
         /\ \A i \in 1..Len(typed) : Line[i - 1] = typed[i]
<1>1. PICK k \in 0..(BufferSize - 2) : k = bufferIndex
  BY DEF TypeOK
<1>2. PICK f, t : f = Line /\ t = typed
  OBVIOUS
<1>3. /\ f \in [0..(BufferSize - 1) -> Chars \cup {NUL}]
      /\ f[k] = NUL /\ \A i \in 0..(k - 1) : f[i] = buffer[i]
  BY <1>1, <1>2, ConstAssumption DEF Line, TypeOK
<1>4. t \in Seq(Chars) /\ Len(t) = k
  BY <1>1, <1>2, LineIs, ConstAssumption DEF TypeOK, Editing
<1>5. \A i \in 1..k : t[i] = f[i - 1] /\ t[i] \in Chars
  BY <1>1, <1>2, <1>3, <1>4 DEF Editing
<1>6. \A i \in 0..(k - 1) : f[i] # NUL
  <2>1. ASSUME NEW i \in 0..(k - 1)
        PROVE  f[i] \in Chars
    <3>1. i + 1 \in 1..k /\ (i + 1) - 1 = i
      OBVIOUS
    <3> QED
      BY <1>5, <3>1
  <2> QED
    BY <2>1, ConstAssumption
<1>7. k \in 0..(BufferSize - 1)
  BY ConstAssumption
<1>8. CText(f) = [i \in 1..k |-> f[i - 1]]
  BY <1>3, <1>6, <1>7, CTextIs
<1>9. CText(f) = t
  BY <1>4, <1>5, <1>8
<1> QED
  BY <1>2, <1>3, <1>4, <1>5, <1>9

-----------------------------------------------------------------------------
(* The editor.                                                             *)

(* What a step that leaves the objects alone keeps.                        *)
LEMMA SameObjects ==
  ASSUME BlocksOwned, pc # "fault", UNCHANGED <<history, memory>>, str'.block = str.block
  PROVE  BlocksOwned'
<1>1. Pointers' = Pointers
  BY DEF Pointers, memory, temporaries
<1>2. live' = live
  BY DEF memory
<1> QED
  BY <1>1, <1>2 DEF BlocksOwned, CopyLost, Owners

LEMMA TypeInv ==
  ASSUME IInv, NEW c \in Chars, Type(c)
  PROVE  IInv'
<1>1. /\ UNCHANGED <<str, command, ret, lastRet, history, memory, pc>> /\ pc = "prompt"
      /\ UNCHANGED <<temporaries, elements, live, args, argStr, temp>>
  BY DEF Type, memory, temporaries
<1>2. PICK k, t, f : k = bufferIndex /\ t = typed /\ f = buffer
  OBVIOUS
<1>3. /\ k \in 0..(BufferSize - 2) /\ t \in Seq(Chars) /\ Len(t) = k
      /\ f \in [0..(BufferSize - 1) -> Chars \cup {NUL}]
      /\ \A i \in 1..k : f[i - 1] = t[i]
  BY <1>2, LineIs, ConstAssumption DEF IInv, TypeOK, Editing
<1>4. /\ buffer' = [f EXCEPT ![k] = c, ![k + 1] = NUL]
      /\ bufferIndex' = IF k + 1 >= BufferSize - 1 THEN 0 ELSE k + 1
      /\ typed' = IF k + 1 >= BufferSize - 1 THEN <<>> ELSE Append(t, c)
  BY <1>2 DEF Type
<1>5. PICK g : g = [f EXCEPT ![k] = c, ![k + 1] = NUL]
  OBVIOUS
<1>6. /\ g \in [0..(BufferSize - 1) -> Chars \cup {NUL}]
      /\ g[k] = c /\ \A i \in 0..(k - 1) : g[i] = f[i]
  BY <1>3, <1>5, ConstAssumption
<1>7. /\ bufferIndex' \in 0..(BufferSize - 2)
      /\ typed' \in Seq(Chars) /\ Len(typed') = bufferIndex'
      /\ Len(typed') <= BufferSize - 1
      /\ \A i \in 1..Len(typed') : g[i - 1] = typed'[i]
  <2>1. CASE k + 1 >= BufferSize - 1
    BY <1>4, <2>1, ConstAssumption
  <2>2. CASE ~(k + 1 >= BufferSize - 1)
    <3>1. /\ typed' = Append(t, c) /\ bufferIndex' = k + 1
          /\ k + 1 \in 0..(BufferSize - 2)
      BY <1>3, <1>4, <2>2, ConstAssumption
    <3>2. /\ Append(t, c) \in Seq(Chars) /\ Len(Append(t, c)) = k + 1
          /\ Append(t, c)[k + 1] = c
          /\ \A i \in 1..k : Append(t, c)[i] = t[i]
      BY <1>3, AppendProperties
    <3>3. \A i \in 1..(k + 1) : g[i - 1] = Append(t, c)[i]
      BY <1>3, <1>6, <3>2
    <3> QED
      BY <3>1, <3>2, <3>3, ConstAssumption
  <2> QED
    BY <2>1, <2>2
<1>8. typed' \in SeqOf(Chars, BufferSize - 1)
  BY <1>7, LineIs, ConstAssumption
<1>9. TypeOK' /\ Editing'
  BY <1>1, <1>4, <1>5, <1>6, <1>7, <1>8 DEF IInv, TypeOK, Editing
<1>10. BlocksOwned'
  BY <1>1, SameObjects DEF IInv
<1>11. LineIsTyped' /\ HistoryExact' /\ Stages' /\ NewCommand'
  BY <1>1 DEF IInv, LineIsTyped, HistoryExact, Stages, NewCommand, Running
<1> QED
  BY <1>9, <1>10, <1>11 DEF IInv

LEMMA BackspaceInv ==
  ASSUME IInv, Backspace
  PROVE  IInv'
<1>1. /\ UNCHANGED <<buffer, str, command, ret, lastRet, history, memory, pc>>
      /\ pc = "prompt"
      /\ UNCHANGED <<temporaries, elements, live, args, argStr, temp>>
  BY DEF Backspace, memory, temporaries
<1>2. PICK k, t : k = bufferIndex /\ t = typed
  OBVIOUS
<1>3. /\ k \in 1..(BufferSize - 2) /\ t \in Seq(Chars) /\ Len(t) = k
      /\ \A i \in 1..k : buffer[i - 1] = t[i]
      /\ bufferIndex' = k - 1 /\ typed' = SubSeq(t, 1, k - 1)
  BY <1>2, LineIs, ConstAssumption DEF IInv, TypeOK, Editing, Backspace, Front
<1>4. /\ typed' \in Seq(Chars) /\ Len(typed') = k - 1
      /\ \A i \in 1..(k - 1) : typed'[i] = t[i]
  BY <1>3, ConstAssumption
<1>5. typed' \in SeqOf(Chars, BufferSize - 1)
  <2>1. Len(typed') <= BufferSize - 1
    BY <1>3, <1>4, ConstAssumption
  <2> QED
    BY <1>4, <2>1, LineIs
<1>6. TypeOK' /\ Editing'
  BY <1>1, <1>3, <1>4, <1>5, ConstAssumption DEF IInv, TypeOK, Editing
<1>7. BlocksOwned'
  BY <1>1, SameObjects DEF IInv
<1>8. LineIsTyped' /\ HistoryExact' /\ Stages' /\ NewCommand'
  BY <1>1 DEF IInv, LineIsTyped, HistoryExact, Stages, NewCommand, Running
<1> QED
  BY <1>6, <1>7, <1>8 DEF IInv

(* The line is cleared.                                                    *)
LEMMA ClearLineIs ==
  ASSUME ClearLine
  PROVE  /\ buffer' \in [0..(BufferSize - 1) -> Chars \cup {NUL}]
         /\ bufferIndex' = 0 /\ bufferIndex' \in 0..(BufferSize - 2)
         /\ typed' = <<>> /\ typed' \in SeqOf(Chars, BufferSize - 1)
         /\ pc' = "prompt"
         /\ Editing'
<1>1. /\ buffer' = Cleared /\ bufferIndex' = 0 /\ typed' = <<>> /\ pc' = "prompt"
  BY DEF ClearLine
<1>2. <<>> \in SeqOf(Chars, BufferSize - 1)
  <2>1. <<>> \in Seq(Chars) /\ Len(<<>>) <= BufferSize - 1
    BY ConstAssumption
  <2> QED
    BY <2>1, LineIs
<1> QED
  BY <1>1, <1>2, ConstAssumption DEF Cleared, Editing

LEMMA EnterEmptyInv ==
  ASSUME IInv, EnterEmpty
  PROVE  IInv'
<1>1. /\ UNCHANGED <<str, command, ret, lastRet, history, memory>>
      /\ ClearLine /\ pc = "prompt"
      /\ UNCHANGED <<temporaries, elements, live, args, argStr, temp>>
  BY DEF EnterEmpty, memory, temporaries
<1>2. TypeOK' /\ Editing'
  BY <1>1, ClearLineIs DEF IInv, TypeOK
<1>3. BlocksOwned'
  BY <1>1, SameObjects DEF IInv
<1>4. LineIsTyped' /\ HistoryExact' /\ Stages' /\ NewCommand'
  BY <1>1, ClearLineIs DEF IInv, LineIsTyped, HistoryExact, Stages, NewCommand, Running
<1> QED
  BY <1>2, <1>3, <1>4 DEF IInv

-----------------------------------------------------------------------------
(* The steps that touch no object.                                         *)

LEMMA QuietInv ==
  ASSUME IInv, UNCHANGED <<editor, str, history, memory>>,
         \/ \E c \in Command : Execute(c)
         \/ Ask \/ Answered \/ SkipHistory \/ Reserved \/ AssignFaults
  PROVE  IInv'
<1>1. UNCHANGED <<buffer, bufferIndex, typed, args, argStr, temp, elements, live>>
  BY DEF editor, memory, temporaries
<1>2. Editing' /\ LineIsTyped'
  BY <1>1 DEF IInv, Editing, LineIsTyped
<1>3. /\ command' \in Command \cup {NoCommand}
      /\ ret' \in {0, -1} /\ lastRet' \in {0, -1}
      /\ pc' \in Running \cup {"hung", "fault"}
      /\ pc \in Running /\ pc # "reset"
  <2>1. /\ command \in Command \cup {NoCommand} /\ ret \in {0, -1} /\ lastRet \in {0, -1}
    BY DEF IInv, TypeOK
  <2>2. ASSUME NEW c \in Command, Execute(c)
        PROVE  /\ command' = c /\ ret' \in {0, -1} /\ lastRet' = lastRet
               /\ pc' \in {"args", "record", "fault"} /\ pc = "command"
    BY <2>1, <2>2 DEF Execute
  <2>3. CASE Ask \/ Answered \/ SkipHistory \/ Reserved \/ AssignFaults
    BY <2>1, <2>3 DEF Ask, Answered, SkipHistory, Reserved, AssignFaults, Running
  <2> QED
    BY <2>1, <2>2, <2>3 DEF Running
<1>4. TypeOK' /\ BlocksOwned'
  <2>1. TypeOK'
    BY <1>1, <1>3 DEF IInv, TypeOK, Running
  <2>2. BlocksOwned'
    BY <1>3, SameObjects DEF IInv, Running
  <2> QED
    BY <2>1, <2>2
<1>5. Stages'
  <2>1. ASSUME NEW c \in Command, Execute(c)
        PROVE  pc = "command" /\ pc' \in {"args", "record", "fault"}
    BY <2>1 DEF Execute
  <2>2. \/ pc = "command" /\ pc' \in {"args", "record", "fault"}
        \/ pc = "ask" /\ pc' \in {"return", "reply"}
        \/ pc = "reply" /\ pc' = "return"
        \/ pc = "record" /\ pc' \in {"fault", "reset"}
        \/ pc = "push" /\ elements # NULL /\ pc' = "hung"
        \/ pc = "push" /\ elements # NULL /\ ~(Len(history) >= Reservation) /\ pc' = "assign"
        \/ pc = "assign" /\ pc' = "fault"
    BY <2>1 DEF Ask, Answered, SkipHistory, Reserved, AssignFaults
  <2>3. Len(history) \in Nat /\ Reservation \in Nat
    BY ConstAssumption DEF IInv, Stages
  <2> QED
    BY <1>1, <2>2, <2>3 DEF IInv, Stages, Running
<1>6. NewCommand'
  BY <1>1 DEF IInv, NewCommand, Unreadable, Repeated, SameSize,
       Execute, Ask, Answered, SkipHistory, Reserved, AssignFaults
<1>7. HistoryExact'
  <2>1. CASE pc' # "reset"
    BY <2>1 DEF IInv, HistoryExact
  <2>2. CASE pc' = "reset"
    <3>1. Repeated /\ ~Unreadable
      BY <2>2 DEF Execute, Ask, Answered, SkipHistory, Reserved, AssignFaults
    <3>2. PICK last, now : last = Last(history) /\ now = str
      OBVIOUS
    <3>3. /\ history # <<>> /\ last.size = now.size /\ last.block # NULL
          /\ \A i \in 1..now.size : last.data[i] = now.data[i]
      BY <3>1, <3>2 DEF Repeated, Unreadable, SameSize
    <3>4. last.size = Len(last.data) /\ last.data \in Seq(Chars)
      <4>1. PICK n \in 1..Len(history) : last = history[n]
        BY <3>2, <3>3 DEF IInv, Stages, Last
      <4> QED
        <5>1. /\ last \in Text
              /\ last.block # NULL => last.size = Len(last.data)
          BY <4>1 DEF IInv, TypeOK, HistoryExact, Text
        <5>2. last.data \in SeqOf(Chars, BufferSize - 1)
          BY <5>1 DEF Text, Strings
        <5> QED
          BY <3>3, <5>1, <5>2, LineIs
    <3>5. now.size = Len(now.data) /\ now.data \in Seq(Chars)
      BY <1>3, <3>2, LineIs, ConstAssumption DEF IInv, TypeOK, Stages, LineIsTyped, Strings
    <3>6. last.data = now.data
      BY <3>3, <3>4, <3>5, SeqEqual
    <3> QED
      BY <3>2, <3>3, <3>6 DEF IInv, HistoryExact
  <2> QED
    BY <2>1, <2>2
<1> QED
  BY <1>2, <1>4, <1>5, <1>6, <1>7 DEF IInv

-----------------------------------------------------------------------------
(* The steps that create and destroy objects.                              *)

ObjectsAre ==
  /\ Len(Pointers) = 6 + Len(history) /\ Len(history) \in Nat
  /\ Pointers[1] = BufferBlock /\ Pointers[2] = str.block
  /\ Pointers[3] = args /\ Pointers[4] = argStr /\ Pointers[5] = temp
  /\ Pointers[6] = elements
  /\ \A i \in 1..Len(history) : Pointers[6 + i] = history[i].block

LEMMA ObjectsNow ==
  ASSUME TypeOK, history \in Seq(Text)
  PROVE  ObjectsAre
<1>1. PICK s, a, g, t, e : /\ s = str.block /\ a = args /\ g = argStr
                           /\ t = temp /\ e = elements
  OBVIOUS
<1>2. s \in Int /\ a \in Int /\ g \in Int /\ t \in Int /\ e \in Int /\ BufferBlock \in Int
  BY <1>1, ConstAssumption DEF TypeOK, Strings, NoObject, BufferBlock
<1>3. PICK o, h : o = <<BufferBlock, s, a, g, t, e>> /\ h = history
  OBVIOUS
<1>4. /\ o \in Seq(Int) /\ Len(o) = 6 /\ h \in Seq(Text)
      /\ o[1] = BufferBlock /\ o[2] = s /\ o[3] = a /\ o[4] = g /\ o[5] = t /\ o[6] = e
  BY <1>2, <1>3
<1>5. PICK f : f = PointersOf(o, h)
  OBVIOUS
<1>6. /\ Len(f) = Len(o) + Len(h) /\ Len(h) \in Nat
      /\ \A i \in 1..Len(o) : f[i] = o[i]
      /\ \A i \in 1..Len(h) : f[Len(o) + i] = h[i].block
  BY <1>4, <1>5, PointersAre
<1>7. /\ Len(f) = 6 + Len(h)
      /\ f[1] = o[1] /\ f[2] = o[2] /\ f[3] = o[3] /\ f[4] = o[4] /\ f[5] = o[5]
      /\ f[6] = o[6]
      /\ \A i \in 1..Len(h) : f[6 + i] = h[i].block
  BY <1>4, <1>6
<1>8. f = Pointers
  BY <1>1, <1>3, <1>5 DEF PointersOf, Pointers
<1> QED
  BY <1>1, <1>3, <1>4, <1>6, <1>7, <1>8 DEF ObjectsAre

LEMMA ObjectsNext ==
  ASSUME TypeOK', (history \in Seq(Text))'
  PROVE  ObjectsAre'
<1>1. PICK s, a, g, t, e : /\ s = str'.block /\ a = args' /\ g = argStr'
                           /\ t = temp' /\ e = elements'
  OBVIOUS
<1>2. s \in Int /\ a \in Int /\ g \in Int /\ t \in Int /\ e \in Int /\ BufferBlock \in Int
  BY <1>1, ConstAssumption DEF TypeOK, Strings, NoObject, BufferBlock
<1>3. PICK o, h : o = <<BufferBlock, s, a, g, t, e>> /\ h = history'
  OBVIOUS
<1>4. /\ o \in Seq(Int) /\ Len(o) = 6 /\ h \in Seq(Text)
      /\ o[1] = BufferBlock /\ o[2] = s /\ o[3] = a /\ o[4] = g /\ o[5] = t /\ o[6] = e
  BY <1>2, <1>3
<1>5. PICK f : f = PointersOf(o, h)
  OBVIOUS
<1>6. /\ Len(f) = Len(o) + Len(h) /\ Len(h) \in Nat
      /\ \A i \in 1..Len(o) : f[i] = o[i]
      /\ \A i \in 1..Len(h) : f[Len(o) + i] = h[i].block
  BY <1>4, <1>5, PointersAre
<1>7. /\ Len(f) = 6 + Len(h)
      /\ f[1] = o[1] /\ f[2] = o[2] /\ f[3] = o[3] /\ f[4] = o[4] /\ f[5] = o[5]
      /\ f[6] = o[6]
      /\ \A i \in 1..Len(h) : f[6 + i] = h[i].block
  BY <1>4, <1>6
<1>8. f = Pointers'
  BY <1>1, <1>3, <1>5 DEF PointersOf, Pointers
<1> QED
  BY <1>1, <1>3, <1>4, <1>6, <1>7, <1>8 DEF ObjectsAre

(* The objects that a step leaves alone, when it changes one of them.      *)
LEMMA OneObject ==
  ASSUME IInv, TypeOK', Stages', history' = history,
         NEW k \in 2..6, \A i \in 2..6 : i # k => Pointers'[i] = Pointers[i],
         NEW n, n = Len(Pointers), NEW f, f = Pointers, NEW g, g = Pointers'
  PROVE  /\ n \in Nat /\ k \in 1..n /\ n = Len(g)
         /\ \A i \in 1..n : i # k => g[i] = f[i]
<1>1. PICK m : m = Len(history)
  OBVIOUS
<1>2. ObjectsAre /\ ObjectsAre'
  BY ObjectsNow, ObjectsNext DEF IInv, Stages
<1>3. m \in Nat /\ n = 6 + m /\ Len(g) = 6 + m
  BY <1>1, <1>2 DEF ObjectsAre
<1>4. ASSUME NEW i \in 1..(6 + m), i # k
      PROVE  g[i] = f[i]
  <2>1. CASE i = 1
    BY <1>2, <2>1 DEF ObjectsAre
  <2>2. CASE i \in 2..6
    BY <1>4, <2>2
  <2>3. CASE i > 6
    <3>1. PICK j \in 1..m : i = 6 + j
      <4>1. i - 6 \in 1..m /\ i = 6 + (i - 6)
        BY <1>3, <2>3
      <4> QED
        BY <4>1
    <3> QED
      BY <1>1, <1>2, <3>1 DEF ObjectsAre
  <2> QED
    BY <1>3, <2>1, <2>2, <2>3
<1> QED
  BY <1>3, <1>4

(* One of the shell's objects other than the buffer gets a block.          *)
LEMMA PutInv ==
  ASSUME IInv, TypeOK', Stages', history' = history, pc # "fault",
         NEW p \in Allocated, live' = With(p),
         NEW k \in 2..6, Pointers[k] \in {NoObject, NULL}, Pointers'[k] = p,
         \A i \in 2..6 : i # k => Pointers'[i] = Pointers[i]
  PROVE  BlocksOwned'
<1>1. PICK n, f, g, L : n = Len(Pointers) /\ f = Pointers /\ g = Pointers' /\ L = live
  OBVIOUS
<1>2. /\ n \in Nat /\ k \in 1..n /\ n = Len(g)
      /\ \A i \in 1..n : i # k => g[i] = f[i]
  BY <1>1, OneObject
<1>3. OwnedBy(n, f, L)
  BY <1>1, OwnedNow DEF IInv
<1>4. /\ g[k] \notin L /\ live' = L \cup ({g[k]} \ {NoObject, NULL})
  BY <1>1, AllocatedIsFree DEF IInv
<1>5. OwnedBy(n, g, live')
  BY <1>1, <1>2, <1>3, <1>4, Put
<1> QED
  BY <1>1, <1>2, <1>5, OwnedNext

(* One of them is destroyed.                                               *)
LEMMA DropInv ==
  ASSUME IInv, TypeOK', Stages', history' = history, pc # "fault",
         NEW k \in 2..6, live' = live \ {Pointers[k]}, Pointers'[k] = NoObject,
         \A i \in 2..6 : i # k => Pointers'[i] = Pointers[i]
  PROVE  BlocksOwned'
<1>1. PICK n, f, g, L : n = Len(Pointers) /\ f = Pointers /\ g = Pointers' /\ L = live
  OBVIOUS
<1>2. /\ n \in Nat /\ k \in 1..n /\ n = Len(g)
      /\ \A i \in 1..n : i # k => g[i] = f[i]
  BY <1>1, OneObject
<1>3. OwnedBy(n, f, L)
  BY <1>1, OwnedNow DEF IInv
<1>4. OwnedBy(n, g, L \ {f[k]}) /\ live' = L \ {f[k]}
  BY <1>1, <1>2, <1>3, Drop
<1>5. OwnedBy(n, g, live')
  BY <1>4
<1> QED
  BY <1>1, <1>2, <1>5, OwnedNext

(* Nothing of the editor and of the history changes.                       *)
LEMMA PlacesKept ==
  ASSUME IInv, UNCHANGED <<editor, str, history>>, pc' # "reset"
  PROVE  Editing' /\ LineIsTyped' /\ HistoryExact'
BY DEF IInv, Editing, LineIsTyped, HistoryExact, editor

LEMMA EnterInv ==
  ASSUME IInv, NEW p \in Allocated, Enter(p)
  PROVE  IInv'
<1>1. /\ pc = "prompt"
      /\ buffer' = Line /\ live' = With(p)
      /\ str' = StringOf(Line, bufferIndex, p)
      /\ pc' = IF p = NULL THEN "fault" ELSE "command"
      /\ UNCHANGED <<bufferIndex, typed, command, ret, lastRet, history, elements>>
      /\ UNCHANGED <<args, argStr, temp>>
  BY DEF Enter, Line, temporaries
<1>2. /\ p \in 0..Blocks /\ live' \subseteq 1..Blocks
  BY <1>1, AllocatedIsFree DEF IInv
<1>3. PICK t : t = typed
  OBVIOUS
<1>4. /\ Line \in [0..(BufferSize - 1) -> Chars \cup {NUL}]
      /\ CText(Line) = t
      /\ \A i \in 1..Len(t) : Line[i - 1] = t[i]
  BY <1>3, LineText DEF IInv
<1>5. /\ t \in SeqOf(Chars, BufferSize - 1) /\ <<>> \in SeqOf(Chars, BufferSize - 1)
      /\ Len(t) = bufferIndex /\ bufferIndex \in 0..(BufferSize - 1)
  <2>1. <<>> \in Seq(Chars) /\ Len(<<>>) <= BufferSize - 1
    BY ConstAssumption
  <2>2. /\ t \in SeqOf(Chars, BufferSize - 1) /\ Len(t) = bufferIndex
        /\ bufferIndex \in 0..(BufferSize - 1)
    BY <1>3, ConstAssumption DEF IInv, TypeOK, Editing
  <2> QED
    BY <2>1, <2>2, LineIs
<1>6. str' = [data |-> IF p = NULL THEN <<>> ELSE t, size |-> bufferIndex, block |-> p]
  BY <1>1, <1>4 DEF StringOf
<1>7. p \in NoObject..Blocks
  BY <1>2, ConstAssumption DEF NoObject
<1>8. str' \in Strings(BufferSize - 1)
  BY <1>5, <1>6, <1>7 DEF Strings
<1>9. TypeOK'
  BY <1>1, <1>2, <1>4, <1>8 DEF IInv, TypeOK
<1>10. Editing' /\ LineIsTyped'
  BY <1>1, <1>3, <1>4, <1>5, <1>6 DEF IInv, Editing, LineIsTyped
<1>11. Stages' /\ NewCommand' /\ HistoryExact'
  BY <1>1, <1>2, <1>6 DEF IInv, Stages, NewCommand, HistoryExact, Running, NoObject, NULL
<1>12. BlocksOwned'
  <2>1. ObjectsAre /\ ObjectsAre'
    BY <1>9, <1>11, ObjectsNow, ObjectsNext DEF IInv, Stages
  <2>2. Pointers[2] = NoObject /\ Pointers'[2] = p
    BY <1>1, <1>6, <2>1 DEF ObjectsAre, IInv, Stages
  <2>3. \A i \in 2..6 : i # 2 => Pointers'[i] = Pointers[i]
    BY <1>1, <2>1 DEF ObjectsAre
  <2> QED
    BY <1>1, <1>9, <1>11, <2>2, <2>3, PutInv
<1> QED
  BY <1>9, <1>10, <1>11, <1>12 DEF IInv

LEMMA ResetInv ==
  ASSUME IInv, Reset
  PROVE  IInv'
<1>1. /\ pc = "reset" /\ ClearLine
      /\ live' = live \ {str.block} /\ str' = NoString /\ command' = NoCommand
      /\ UNCHANGED <<ret, lastRet, history, elements>>
      /\ UNCHANGED <<args, argStr, temp>>
  BY DEF Reset, temporaries
<1>2. str' \in Strings(BufferSize - 1) /\ str'.block = NoObject
  <2>1. <<>> \in SeqOf(Chars, BufferSize - 1)
    BY <1>1, ClearLineIs
  <2> QED
    BY <1>1, <2>1, ConstAssumption DEF Strings, NoString, NoObject
<1>3. TypeOK' /\ Editing'
  BY <1>1, <1>2, ClearLineIs DEF IInv, TypeOK
<1>4. Stages' /\ NewCommand' /\ HistoryExact' /\ LineIsTyped'
  BY <1>1, <1>2, ClearLineIs
     DEF IInv, Stages, NewCommand, HistoryExact, LineIsTyped, Running
<1>5. BlocksOwned'
  <2>1. ObjectsAre /\ ObjectsAre'
    BY <1>3, <1>4, ObjectsNow, ObjectsNext DEF IInv, Stages
  <2>2. Pointers[2] = str.block /\ Pointers'[2] = NoObject
    BY <1>2, <2>1 DEF ObjectsAre
  <2>3. \A i \in 2..6 : i # 2 => Pointers'[i] = Pointers[i]
    BY <1>1, <2>1 DEF ObjectsAre
  <2> QED
    BY <1>1, <1>3, <1>4, <2>2, <2>3, DropInv
<1> QED
  BY <1>3, <1>4, <1>5 DEF IInv

(* args, argStr, and the temporary.                                        *)
LEMMA SplitInv ==
  ASSUME IInv, NEW p \in Allocated, Split(p) \/ SplitAgain(p) \/ MakeTemp(p)
  PROVE  IInv'
<1>1. /\ UNCHANGED <<buffer, bufferIndex, typed, str, history, elements, command, ret>>
      /\ live' = With(p) /\ lastRet' \in {lastRet, ret}
  BY DEF Split, SplitAgain, MakeTemp, editor
<1>2. /\ p \in 0..Blocks /\ live' \subseteq 1..Blocks
  BY <1>1, AllocatedIsFree DEF IInv
<1>3. \/ /\ pc = "args" /\ pc' \in {"fault", "argStr", "ask"}
         /\ args' = p /\ UNCHANGED <<argStr, temp>>
      \/ /\ pc = "argStr" /\ pc' \in {"fault", "ask"}
         /\ argStr' = p /\ UNCHANGED <<args, temp>>
      \/ /\ pc = "record" /\ pc' = "push" /\ ~Unreadable /\ ~Repeated
         /\ temp' = p /\ UNCHANGED <<args, argStr>>
  BY DEF Split, SplitAgain, MakeTemp
<1>4. p \in NoObject..Blocks
  BY <1>2, ConstAssumption DEF NoObject
<1>5. TypeOK'
  BY <1>1, <1>2, <1>3, <1>4 DEF IInv, TypeOK
<1>6. Editing' /\ LineIsTyped' /\ HistoryExact'
  BY <1>1, <1>3, PlacesKept DEF editor
<1>7. Stages'
  BY <1>1, <1>2, <1>3 DEF IInv, Stages, Running, NoObject, NULL
<1>8. NewCommand'
  BY <1>1, <1>3 DEF NewCommand, Unreadable, Repeated, SameSize
<1>9. BlocksOwned'
  <2>1. ObjectsAre /\ ObjectsAre'
    BY <1>5, <1>7, ObjectsNow, ObjectsNext DEF IInv, Stages
  <2>2. PICK k \in 3..5 : k = IF pc = "args" THEN 3 ELSE IF pc = "argStr" THEN 4 ELSE 5
    OBVIOUS
  <2>3. Pointers[k] = NoObject /\ Pointers'[k] = p
    BY <1>3, <2>1, <2>2 DEF ObjectsAre, IInv, Stages, Running
  <2>4. \A i \in 2..6 : i # k => Pointers'[i] = Pointers[i]
    BY <1>1, <1>3, <2>1, <2>2 DEF ObjectsAre
  <2> QED
    BY <1>1, <1>3, <1>5, <1>7, <2>3, <2>4, PutInv
<1> QED
  BY <1>5, <1>6, <1>7, <1>8, <1>9 DEF IInv

LEMMA FirstElementsInv ==
  ASSUME IInv, NEW p \in Allocated, FirstElements(p)
  PROVE  IInv'
<1>1. /\ UNCHANGED <<buffer, bufferIndex, typed, str, history, command, ret, lastRet>>
      /\ UNCHANGED <<args, argStr, temp>>
      /\ live' = With(p) /\ elements = NULL /\ elements' = p
      /\ pc = "push" /\ pc' = "assign"
  BY DEF FirstElements, editor, temporaries
<1>2. /\ p \in 0..Blocks /\ live' \subseteq 1..Blocks
  BY <1>1, AllocatedIsFree DEF IInv
<1>3. TypeOK'
  BY <1>1, <1>2 DEF IInv, TypeOK
<1>4. Editing' /\ LineIsTyped' /\ HistoryExact'
  BY <1>1, PlacesKept DEF editor
<1>5. Stages'
  <2>1. history = <<>> /\ Len(history) < Reservation
    BY <1>1, ConstAssumption DEF IInv, Stages
  <2> QED
    BY <1>1, <1>2, <2>1 DEF IInv, Stages, Running
<1>6. NewCommand'
  BY <1>1 DEF IInv, NewCommand, Unreadable, Repeated, SameSize
<1>7. BlocksOwned'
  <2>1. ObjectsAre /\ ObjectsAre'
    BY <1>3, <1>5, ObjectsNow, ObjectsNext DEF IInv, Stages
  <2>2. Pointers[6] = NULL /\ Pointers'[6] = p
    BY <1>1, <2>1 DEF ObjectsAre
  <2>3. \A i \in 2..6 : i # 6 => Pointers'[i] = Pointers[i]
    BY <1>1, <2>1 DEF ObjectsAre
  <2> QED
    BY <1>1, <1>3, <1>5, <2>2, <2>3, PutInv
<1> QED
  BY <1>3, <1>4, <1>5, <1>6, <1>7 DEF IInv

(* args and argStr are destroyed together.                                 *)
LEMMA ReturnInv ==
  ASSUME IInv, Return
  PROVE  IInv'
<1>1. /\ pc = "return" /\ pc' = "record"
      /\ UNCHANGED <<buffer, bufferIndex, typed, str, command, temp, ret, lastRet,
                     history, elements>>
      /\ live' = live \ {argStr, args} /\ argStr' = NoObject /\ args' = NoObject
  BY DEF Return, editor
<1>2. TypeOK'
  <2>1. NoObject \in NoObject..Blocks
    BY ConstAssumption DEF NoObject
  <2> QED
    BY <1>1, <2>1 DEF IInv, TypeOK
<1>3. Editing' /\ LineIsTyped' /\ HistoryExact'
  BY <1>1, PlacesKept DEF editor
<1>4. Stages' /\ NewCommand'
  BY <1>1 DEF IInv, Stages, NewCommand, Running
<1>5. BlocksOwned'
  <2>1. ObjectsAre /\ ObjectsAre'
    BY <1>2, <1>4, ObjectsNow, ObjectsNext DEF IInv, Stages
  <2>2. PICK n, f, g, L : n = Len(Pointers) /\ f = Pointers /\ g = Pointers' /\ L = live
    OBVIOUS
  <2>3. PICK m \in Nat : m = Len(history)
    BY <2>1 DEF ObjectsAre
  <2>4. /\ n \in Nat /\ n = 6 + m /\ n = Len(g)
        /\ f[3] = args /\ g[3] = NoObject /\ f[4] = argStr /\ g[4] = NoObject
        /\ \A i \in {1, 2, 5, 6} : g[i] = f[i]
        /\ \A i \in 1..m : g[6 + i] = f[6 + i]
    BY <1>1, <2>1, <2>2, <2>3 DEF ObjectsAre
  <2>5. \A i \in 1..n : i \notin {3, 4} => g[i] = f[i]
    <3>1. ASSUME NEW i \in 1..n, i > 6
          PROVE  g[i] = f[i]
      <4>1. i - 6 \in 1..m /\ i = 6 + (i - 6)
        BY <2>4, <3>1
      <4> QED
        BY <2>4, <4>1
    <3> QED
      BY <2>4, <3>1
  <2>6. PICK h : h = [i \in 1..n |-> IF i = 3 THEN NoObject ELSE f[i]]
    OBVIOUS
  <2>7. 3 \in 1..n /\ 4 \in 1..n
    BY <2>4
  <2>8. OwnedBy(n, f, L)
    BY <1>1, <2>2, OwnedNow DEF IInv
  <2>9. OwnedBy(n, h, L \ {f[3]})
    BY <2>4, <2>6, <2>7, <2>8, Drop
  <2>10. h[4] = f[4] /\ \A i \in 1..n : i # 4 => g[i] = h[i]
    BY <2>4, <2>5, <2>6, <2>7
  <2>11. OwnedBy(n, g, (L \ {f[3]}) \ {h[4]})
    BY <2>4, <2>7, <2>9, <2>10, Drop
  <2>12. live' = (L \ {f[3]}) \ {h[4]}
    BY <1>1, <2>2, <2>4, <2>10
  <2>13. OwnedBy(n, g, live')
    BY <2>11, <2>12
  <2> QED
    BY <2>2, <2>4, <2>13, OwnedNext
<1> QED
  BY <1>2, <1>3, <1>4, <1>5 DEF IInv

(* The new element, as far as it could be copied.                          *)
LEMMA AssignHistory ==
  ASSUME IInv, NEW p \in Allocated, Assign(p)
  PROVE  /\ history' \in Seq(Text) /\ Len(history') = Len(history) + 1
         /\ \A i \in 1..Len(history) : history'[i] = history[i]
         /\ history'[Len(history) + 1].block = p
         /\ HistoryExact'
<1>1. PICK h, s, n : h = history /\ s = str /\ n = Len(h)
  OBVIOUS
<1>2. PICK e : e = [data |-> IF p = NULL THEN <<>> ELSE s.data,
                    size |-> Len(s.data), block |-> p]
  OBVIOUS
<1>3. /\ history' = Append(h, e) /\ str' = s /\ pc = "assign"
  BY <1>1, <1>2 DEF Assign, editor
<1>4. /\ h \in Seq(Text) /\ n \in Nat
  BY <1>1 DEF IInv, Stages
<1>5. /\ s \in Text /\ s.size = Len(s.data)
  BY <1>1, <1>3 DEF IInv, TypeOK, Stages, LineIsTyped, Running, Text
<1>6. s.data \in Seq(Chars) /\ s.size \in 0..(BufferSize - 1)
      /\ s.data \in SeqOf(Chars, BufferSize - 1)
  BY <1>5, LineIs DEF Text, Strings
<1>7. p \in NoObject..Blocks
  <2>1. p \in 0..Blocks
    BY AllocatedIsFree DEF IInv
  <2> QED
    BY <2>1, ConstAssumption DEF NoObject
<1>8. e \in Text
  <2>1. <<>> \in SeqOf(Chars, BufferSize - 1)
    <3>1. <<>> \in Seq(Chars) /\ Len(<<>>) <= BufferSize - 1
      BY ConstAssumption
    <3> QED
      BY <3>1, LineIs
  <2> QED
    BY <1>2, <1>5, <1>6, <1>7, <2>1 DEF Text, Strings
<1>9. PICK k : k = Append(h, e)
  OBVIOUS
<1>10. /\ k \in Seq(Text) /\ Len(k) = n + 1 /\ k # <<>>
       /\ \A i \in 1..n : k[i] = h[i]
       /\ k[n + 1] = e
  BY <1>1, <1>4, <1>8, <1>9, AppendProperties
<1>11. ASSUME n >= 1
       PROVE  h[n].data # e.data \/ h[n].size # e.size
  <2>1. CASE h[n].size = s.size
    <3>1. /\ h[n].block # NULL
          /\ \E j \in 1..s.size : h[n].data[j] # s.data[j]
      <4>1. ~Unreadable /\ ~Repeated
        BY <1>3 DEF IInv, NewCommand
      <4>2. h # <<>> /\ Last(history) = h[n]
        BY <1>1, <1>4, <1>11 DEF Last
      <4> QED
        BY <1>1, <2>1, <4>1, <4>2 DEF Unreadable, Repeated, SameSize
    <3>2. Len(h[n].data) = s.size
      BY <1>1, <1>4, <1>11, <2>1, <3>1 DEF IInv, HistoryExact
    <3>3. h[n].data # <<>>
      BY <1>6, <3>1, <3>2
    <3> QED
      BY <1>2, <3>1, <3>3
  <2>2. CASE h[n].size # s.size
    BY <1>2, <1>5, <2>2
  <2> QED
    BY <2>1, <2>2
<1>12. \A i \in 1..((n + 1) - 1) : k[i].data # k[i + 1].data \/ k[i].size # k[i + 1].size
  <2>1. ASSUME NEW i \in 1..n
        PROVE  k[i].data # k[i + 1].data \/ k[i].size # k[i + 1].size
    <3>1. CASE i = n
      BY <1>4, <1>10, <1>11, <3>1
    <3>2. CASE i # n
      <4>1. i \in 1..(n - 1) /\ i + 1 \in 1..n
        BY <1>4, <3>2
      <4>2. h[i].data # h[i + 1].data \/ h[i].size # h[i + 1].size
        BY <1>1, <4>1 DEF IInv, HistoryExact
      <4> QED
        BY <1>10, <4>1, <4>2
    <3> QED
      BY <3>1, <3>2
  <2>2. (n + 1) - 1 = n
    BY <1>4
  <2> QED
    BY <2>1, <2>2
<1>13. \A i \in 1..(n + 1) : k[i].block # NULL => k[i].size = Len(k[i].data)
  <2>1. ASSUME NEW i \in 1..n
        PROVE  k[i].block # NULL => k[i].size = Len(k[i].data)
    BY <1>1, <1>10 DEF IInv, HistoryExact
  <2>2. e.block # NULL => e.size = Len(e.data)
    BY <1>2
  <2> QED
    BY <1>4, <1>10, <2>1, <2>2
<1>14. /\ Last(k) = e /\ e.size = s.size
       /\ e.block # NULL => e.data = s.data
  BY <1>2, <1>5, <1>10 DEF Last
<1>15. HistoryExact'
  BY <1>3, <1>9, <1>10, <1>12, <1>13, <1>14 DEF HistoryExact
<1>16. e.block = p
  BY <1>2
<1> QED
  BY <1>1, <1>3, <1>9, <1>10, <1>15, <1>16

LEMMA AssignInv ==
  ASSUME IInv, NEW p \in Allocated, Assign(p)
  PROVE  IInv'
<1>1. /\ pc = "assign" /\ pc' = "reset" /\ temp # NULL /\ elements # NULL
      /\ UNCHANGED <<buffer, bufferIndex, typed, str, command, args, argStr, ret, lastRet,
                     elements>>
      /\ live' = With(p) \ {temp} /\ temp' = NoObject
  BY DEF Assign, editor
<1>2. PICK m : m = Len(history)
  OBVIOUS
<1>3. /\ history' \in Seq(Text) /\ Len(history') = m + 1 /\ m \in Nat
      /\ \A i \in 1..m : history'[i] = history[i]
      /\ history'[m + 1].block = p
      /\ HistoryExact'
  BY <1>2, AssignHistory DEF IInv, Stages
<1>4. With(p) = live \cup ({p} \ {NoObject, NULL}) /\ p \notin live /\ With(p) \subseteq 1..Blocks
  BY AllocatedIsFree DEF IInv
<1>5. TypeOK'
  <2>1. m < Reservation
    BY <1>1, <1>2 DEF IInv, Stages
  <2>2. Len(history') <= Reservation
    BY <1>3, <2>1, ConstAssumption
  <2>3. \A i \in 1..Len(history') : history'[i] \in Strings(BufferSize - 1)
    BY <1>3 DEF Text
  <2>4. NoObject \in NoObject..Blocks
    BY ConstAssumption DEF NoObject
  <2> QED
    BY <1>1, <1>4, <2>2, <2>3, <2>4 DEF IInv, TypeOK
<1>6. Editing' /\ LineIsTyped' /\ NewCommand'
  BY <1>1 DEF IInv, Editing, LineIsTyped, NewCommand
<1>7. Stages'
  BY <1>1, <1>3 DEF IInv, Stages, Running
<1>8. BlocksOwned'
  <2>1. ObjectsAre /\ ObjectsAre'
    BY <1>5, <1>7, ObjectsNow, ObjectsNext DEF IInv, Stages
  <2>2. PICK n, f, g, L : n = Len(Pointers) /\ f = Pointers /\ g = Pointers' /\ L = live
    OBVIOUS
  <2>3. /\ n \in Nat /\ n = 6 + m /\ Len(g) = n + 1
        /\ f[5] = temp /\ g[5] = NoObject /\ g[6 + (m + 1)] = p
        /\ \A i \in {1, 2, 3, 4, 6} : g[i] = f[i]
        /\ \A i \in 1..m : g[6 + i] = f[6 + i]
    <3>1. /\ n = 6 + m /\ f[5] = temp
          /\ \A i \in 1..m : f[6 + i] = history[i].block
      BY <1>2, <2>1, <2>2 DEF ObjectsAre
    <3>2. /\ Len(g) = 6 + (m + 1) /\ g[5] = NoObject
          /\ \A i \in 1..(m + 1) : g[6 + i] = history'[i].block
      BY <1>1, <1>3, <2>1, <2>2 DEF ObjectsAre
    <3>3. \A i \in {1, 2, 3, 4, 6} : g[i] = f[i]
      BY <1>1, <2>1, <2>2 DEF ObjectsAre
    <3>4. m + 1 \in 1..(m + 1) /\ \A i \in 1..m : i \in 1..(m + 1)
      BY <1>3
    <3>5. g[6 + (m + 1)] = p
      BY <1>3, <3>2, <3>4
    <3>6. \A i \in 1..m : g[6 + i] = f[6 + i]
      BY <1>3, <3>1, <3>2, <3>4
    <3>7. n \in Nat /\ Len(g) = n + 1
      BY <1>3, <3>1, <3>2
    <3> QED
      BY <3>1, <3>2, <3>3, <3>5, <3>6, <3>7
  <2>4. \A i \in 1..n : i # 5 => g[i] = f[i]
    <3>1. ASSUME NEW i \in 1..n, i > 6
          PROVE  g[i] = f[i]
      <4>1. i - 6 \in 1..m /\ i = 6 + (i - 6)
        BY <1>3, <2>3, <3>1
      <4> QED
        BY <2>3, <4>1
    <3> QED
      BY <2>3, <3>1
  <2>5. PICK h : h = [i \in 1..n |-> IF i = 5 THEN NoObject ELSE f[i]]
    OBVIOUS
  <2>6. 5 \in 1..n /\ 6 + (m + 1) = n + 1
    BY <1>3, <2>3
  <2>7. OwnedBy(n, f, L)
    BY <1>1, <2>2, OwnedNow DEF IInv
  <2>8. OwnedBy(n, h, L \ {f[5]})
    BY <2>3, <2>5, <2>6, <2>7, Drop
  <2>9. /\ \A i \in 1..n : g[i] = h[i]
        /\ g[n + 1] = p
    BY <2>3, <2>4, <2>5, <2>6
  <2>10. OwnedBy(n + 1, g, (L \ {f[5]}) \cup ({p} \ {NoObject, NULL}))
    BY <1>4, <2>2, <2>3, <2>8, <2>9, Extend
  <2>11. temp \in live
    <3>1. f[5] \notin {NoObject, NULL}
      BY <1>1, <2>3 DEF IInv, Stages, Running
    <3> QED
      BY <2>2, <2>3, <2>6, <2>7, <3>1 DEF OwnedBy
  <2>12. live' = (L \ {f[5]}) \cup ({p} \ {NoObject, NULL})
    BY <1>1, <1>4, <2>2, <2>3, <2>11
  <2>13. OwnedBy(n + 1, g, live')
    BY <2>10, <2>12
  <2> QED
    BY <2>2, <2>3, <2>13, OwnedNext
<1> QED
  BY <1>3, <1>5, <1>6, <1>7, <1>8 DEF IInv

(* The copy that is stored through NULL.                                   *)
LEMMA AssignNowhereInv ==
  ASSUME IInv, NEW p \in Allocated, AssignNowhere(p)
  PROVE  IInv'
<1>1. /\ UNCHANGED <<buffer, bufferIndex, typed, str, command, args, argStr, temp, ret, lastRet,
                     history, elements>>
      /\ pc = "assign" /\ pc' = "fault"
      /\ temp # NULL /\ elements = NULL /\ live' = With(p)
  BY DEF AssignNowhere, editor, temporaries
<1>2. TypeOK'
  BY <1>1, AllocatedIsFree DEF IInv, TypeOK
<1>3. Editing' /\ LineIsTyped' /\ HistoryExact'
  BY <1>1, PlacesKept DEF editor
<1>4. Stages' /\ NewCommand'
  BY <1>1 DEF IInv, Stages, NewCommand, Running
<1>5. BlocksOwned'
  <2>1. Pointers' = Pointers
    BY <1>1 DEF Pointers
  <2>2. Owners' = Owners
    BY <2>1 DEF Owners
  <2>3. /\ live = {Pointers[i] : i \in Owners}
        /\ \A i, j \in Owners : Pointers[i] = Pointers[j] => i = j
    BY <1>1 DEF IInv, BlocksOwned, CopyLost
  <2>4. CopyLost'
    BY <1>1 DEF IInv, Stages, Running, CopyLost
  <2>5. live' = live \/ (p \in live' /\ live' = live \cup {p})
    BY <1>1 DEF With
  <2> QED
    BY <2>1, <2>2, <2>3, <2>4, <2>5 DEF BlocksOwned
<1> QED
  BY <1>2, <1>3, <1>4, <1>5 DEF IInv

-----------------------------------------------------------------------------
(* The invariant holds.                                                    *)

LEMMA InitInv == Init => IInv
<1> SUFFICES ASSUME Init
             PROVE  IInv
  OBVIOUS
<1>1. <<>> \in SeqOf(Chars, BufferSize - 1)
  <2>1. <<>> \in Seq(Chars) /\ Len(<<>>) <= BufferSize - 1
    BY ConstAssumption
  <2> QED
    BY <2>1, LineIs
<1>2. str \in Strings(BufferSize - 1) /\ str.block = NoObject
  BY <1>1, ConstAssumption DEF Init, Strings, NoString, NoObject
<1>3. TypeOK
  <2>1. NoObject \in NoObject..Blocks /\ BufferBlock \in 1..Blocks
    BY ConstAssumption DEF NoObject, BufferBlock
  <2>2. buffer \in [0..(BufferSize - 1) -> Chars \cup {NUL}] /\ bufferIndex \in 0..(BufferSize - 2)
    BY ConstAssumption DEF Init, Cleared
  <2>3. history = <<>> /\ Len(history) <= Reservation
    BY ConstAssumption DEF Init
  <2> QED
    BY <1>1, <1>2, <2>1, <2>2, <2>3, ConstAssumption DEF Init, TypeOK, NULL
<1>4. Editing /\ LineIsTyped /\ HistoryExact /\ NewCommand
  BY <1>2 DEF Init, Editing, LineIsTyped, HistoryExact, NewCommand
<1>5. Stages
  BY <1>2 DEF Init, Stages, Running
<1>6. BlocksOwned
  <2>1. ObjectsAre
    BY <1>3, <1>5, ObjectsNow DEF Stages
  <2>2. PICK n, f : n = Len(Pointers) /\ f = Pointers
    OBVIOUS
  <2>3. /\ n = 6 /\ f[1] = BufferBlock
        /\ f[2] = NoObject /\ f[3] = NoObject /\ f[4] = NoObject /\ f[5] = NoObject
        /\ f[6] = NULL
    BY <1>2, <2>1, <2>2 DEF ObjectsAre, Init
  <2>4. OwnedBy(n, f, live)
    BY <2>3 DEF OwnedBy, Init, BufferBlock, NoObject, NULL
  <2> QED
    BY <2>2, <2>4 DEF BlocksOwned, Owners, OwnedBy
<1> QED
  BY <1>3, <1>4, <1>5, <1>6 DEF IInv

LEMMA StepInv == IInv /\ [Next]_vars => IInv'
<1> SUFFICES ASSUME IInv, [Next]_vars
             PROVE  IInv'
  OBVIOUS
<1>1. ASSUME NEW c \in Chars, Type(c)
      PROVE  IInv'
  BY <1>1, TypeInv
<1>2. CASE Backspace
  BY <1>2, BackspaceInv
<1>3. CASE EnterEmpty
  BY <1>3, EnterEmptyInv
<1>4. CASE Reset
  BY <1>4, ResetInv
<1>5. CASE \/ \E c \in Command : Execute(c)
           \/ Ask \/ Answered \/ SkipHistory \/ Reserved \/ AssignFaults
  <2>1. UNCHANGED <<editor, str, history, memory>>
    BY <1>5 DEF Execute, Ask, Answered, SkipHistory, Reserved, AssignFaults
  <2> QED
    BY <1>5, <2>1, QuietInv
<1>6. CASE Return
  BY <1>6, ReturnInv
<1>7. ASSUME NEW p \in Allocated,
             Enter(p) \/ Split(p) \/ SplitAgain(p) \/ MakeTemp(p) \/ FirstElements(p) \/ Assign(p)
             \/ AssignNowhere(p)
      PROVE  IInv'
  BY <1>7, EnterInv, SplitInv, FirstElementsInv, AssignInv, AssignNowhereInv
<1>8. CASE UNCHANGED vars
  <2>1. /\ UNCHANGED <<editor, str, command, ret, lastRet, history, memory, pc>>
        /\ UNCHANGED <<buffer, bufferIndex, typed, args, argStr, temp, elements, live>>
    BY <1>8 DEF vars, editor, memory, temporaries
  <2>2. Pointers' = Pointers
    BY <2>1 DEF Pointers
  <2>3. BlocksOwned'
    BY <2>1, <2>2 DEF IInv, BlocksOwned, CopyLost, Owners
  <2> QED
    BY <2>1, <2>3 DEF IInv, TypeOK, LineIsTyped, HistoryExact, Editing, Stages, NewCommand,
       Unreadable, Repeated, SameSize
<1> QED
  BY <1>1, <1>2, <1>3, <1>4, <1>5, <1>6, <1>7, <1>8 DEF Next

LEMMA Invariance == Spec => []IInv
BY InitInv, StepInv, PTL DEF Spec

-----------------------------------------------------------------------------
(* The index of the line buffer stays in range, which onChar asserts, and  *)
(* every object of the shell has its type.                                 *)
THEOREM TypeCorrect == Spec => []TypeOK
<1>1. IInv => TypeOK
  BY DEF IInv
<1> QED
  BY <1>1, Invariance, PTL

(* The string that onChar makes of its buffer is the line as edited, with  *)
(* its length, after any typing, backspacing and wrapping.                 *)
THEOREM LineIsTypedHolds == Spec => []LineIsTyped
<1>1. IInv => LineIsTyped
  BY DEF IInv
<1> QED
  BY <1>1, Invariance, PTL

(* newCommand keeps the history exact, whichever allocation of the string  *)
(* and vector classes fails.                                               *)
THEOREM HistoryExactHolds == Spec => []HistoryExact
<1>1. IInv => HistoryExact
  BY DEF IInv
<1> QED
  BY <1>1, Invariance, PTL

(* The constructors, assignments and destructors of basic_string and of    *)
(* vector give every live block exactly one owner; only where the vector   *)
(* got no elements, and the shell stops, is a block left without one.      *)
THEOREM BlocksOwnedHolds == Spec => []BlocksOwned
<1>1. IInv => BlocksOwned
  BY DEF IInv
<1> QED
  BY <1>1, Invariance, PTL
=============================================================================
