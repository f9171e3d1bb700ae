------------------------------- MODULE Shell -------------------------------
(***************************************************************************)
(* The shell of Shell.cpp, run by the thread Com1: a line editor over a    *)
(* fixed buffer, a command table whose commands are mostly requests to the *)
(* root server, and a history in a vector of strings (lib/basic_string.hpp *)
(* and lib/vector.hpp).                                                    *)
(*                                                                         *)
(* The editor is modelled character by character, because what a string    *)
(* contains and what it takes for its size are computed differently: one   *)
(* is the bytes up to a NUL, the other the editor's index.  Which command  *)
(* a text is, is left open: any text may be any command.                   *)
(*                                                                         *)
(* Every allocation is modelled, with the object that owns the block and   *)
(* the destructor that frees it, and any may fail: the pool is shared.  A  *)
(* thread that touches a NULL pointer stops for good ("fault"), as no      *)
(* thread has a fault handler.  The first growth of the history never   *)
(* returns, as krealloc of a live block does not (see KMalloc).            *)
(***************************************************************************)
EXTENDS Integers, Sequences, SequencesExt, FiniteSetsExt

CONSTANTS
  Chars,        \* the characters that are neither Enter nor Backspace
  NUL,          \* the character 0
  None,         \* an argument that was not typed
  BufferSize,   \* size of the line buffer
  Reservation,  \* elements a vector reserves first
  Blocks,       \* blocks of memory that the shell can have at a time
  Numbers       \* the numbers users type

ASSUME ConstAssumption ==
  /\ NUL \notin Chars
  /\ BufferSize \in Nat /\ BufferSize >= 2
  /\ Reservation \in Nat \ {0}
  /\ Blocks \in Nat \ {0}
  /\ Numbers \subseteq Nat /\ 0 \in Numbers
  /\ None \notin Numbers

VARIABLES
  buffer, bufferIndex,   \* Shell::buffer, Shell::bufferIndex
  typed,      \* history: the line as edited since the prompt, or since the wrap
  str,        \* the string of onChar
  command,    \* the command it is
  args,       \* the block of the string args of processNewCommand ...
  argStr,     \* ... of the string argStr of cmdThread ...
  temp,       \* ... and of the temporary that push_back is given
  ret,        \* the result of processNewCommand
  lastRet,    \* Shell::lastRet
  history,    \* Shell::_history
  elements,   \* the block of its elements, _data
  live,       \* the blocks that are allocated
  pc          \* "prompt", "command", "args", "argStr", "ask", "reply", "return",
              \* "record", "push", "assign", "reset", "hung", "fault"

editor == <<buffer, bufferIndex, typed>>
temporaries == <<args, argStr, temp>>
memory == <<temporaries, elements, live>>
vars == <<editor, str, command, ret, lastRet, history, memory, pc>>

NULL == 0
NoObject == -1   \* the object that would own the block does not exist
BufferBlock == 1

Cleared == [i \in 0..(BufferSize - 1) |-> NUL]
NoString == [data |-> <<>>, size |-> 0, block |-> NoObject]
NoCommand == [name |-> "none", arg |-> None, prio |-> None]

Init ==
  /\ buffer = Cleared
  /\ bufferIndex = 0
  /\ typed = <<>>
  /\ str = NoString
  /\ command = NoCommand
  /\ args = NoObject /\ argStr = NoObject /\ temp = NoObject
  /\ ret = 0
  /\ lastRet = 0
  /\ history = <<>>
  /\ elements = NULL
  /\ live = {BufferBlock}
  /\ pc = "prompt"

(* What kmalloc may return, and what is live then.  Which of the free      *)
(* blocks it is makes no difference.                                       *)
Allocated == {NULL} \cup (IF live = 1..Blocks THEN {} ELSE {Min((1..Blocks) \ live)})
With(p) == live \cup ({p} \ {NULL})

-----------------------------------------------------------------------------
(* onChar.                                                                 *)

(* The characters up to the first NUL: strlen, strdup.                     *)
CText(bytes) ==
  LET length == Min({i \in DOMAIN bytes : bytes[i] = NUL})
  IN [i \in 1..length |-> bytes[i - 1]]

(* basic_string(data, size) copies the text and believes the size, even    *)
(* when there is no copy.                                                  *)
StringOf(bytes, size, p) ==
  [data |-> IF p = NULL THEN <<>> ELSE CText(bytes), size |-> size, block |-> p]

Enter_NoTerminator(p) ==   \* faulty variant: `buffer[bufferIndex] = 0` is missing
  /\ pc = "prompt"
  /\ CText(buffer) # <<>>
  /\ str' = StringOf(buffer, bufferIndex, p)
  /\ live' = With(p)
  /\ pc' = IF p = NULL THEN "fault" ELSE "command"
  /\ UNCHANGED <<editor, command, ret, lastRet, history, temporaries, elements>>

(* Enter on a line that is not empty.  The first comparison of             *)
(* processNewCommand reads the string.                                     *)
Enter(p) ==
  LET line == [buffer EXCEPT ![bufferIndex] = NUL]
  IN /\ pc = "prompt"
     /\ CText(line) # <<>>
     /\ buffer' = line
     /\ str' = StringOf(line, bufferIndex, p)
     /\ live' = With(p)
     /\ pc' = IF p = NULL THEN "fault" ELSE "command"
     /\ UNCHANGED <<bufferIndex, typed, command, ret, lastRet, history, temporaries, elements>>

ClearLine ==
  /\ buffer' = Cleared
  /\ bufferIndex' = 0
  /\ typed' = <<>>
  /\ pc' = "prompt"

EnterEmpty ==
  /\ pc = "prompt"
  /\ CText([buffer EXCEPT ![bufferIndex] = NUL]) = <<>>
  /\ ClearLine
  /\ UNCHANGED <<str, command, ret, lastRet, history, memory>>

(* The end of onChar behind newCommand, where str is destroyed.            *)
Reset ==
  /\ pc = "reset"
  /\ ClearLine
  /\ live' = live \ {str.block}
  /\ str' = NoString
  /\ command' = NoCommand
  /\ UNCHANGED <<ret, lastRet, history, temporaries, elements>>

(* The last character of the line is given up, not erased.                 *)
Backspace ==
  /\ pc = "prompt"
  /\ bufferIndex > 0
  /\ bufferIndex' = bufferIndex - 1
  /\ typed' = Front(typed)
  /\ UNCHANGED <<buffer, str, command, ret, lastRet, history, memory, pc>>

Type_WrapsLate(c) ==   \* faulty variant: the index wraps one character later
  /\ pc = "prompt"
  /\ buffer' = [buffer EXCEPT ![bufferIndex] = c, ![bufferIndex + 1] = NUL]
  /\ LET full == bufferIndex + 1 >= BufferSize
     IN /\ bufferIndex' = IF full THEN 0 ELSE bufferIndex + 1
        /\ typed' = IF full THEN <<>> ELSE Append(typed, c)
  /\ UNCHANGED <<str, command, ret, lastRet, history, memory, pc>>

(* Another character; a line that fills the buffer is given up.            *)
Type(c) ==
  /\ pc = "prompt"
  /\ buffer' = [buffer EXCEPT ![bufferIndex] = c, ![bufferIndex + 1] = NUL]
  /\ LET full == bufferIndex + 1 >= BufferSize - 1
     IN /\ bufferIndex' = IF full THEN 0 ELSE bufferIndex + 1
        /\ typed' = IF full THEN <<>> ELSE Append(typed, c)
  /\ UNCHANGED <<str, command, ret, lastRet, history, memory, pc>>

-----------------------------------------------------------------------------
(* processNewCommand and cmdThread.                                        *)

OneWay == {"sched", "vm"}
Printed == {"help", "history"}
WithNumber == {"kmalloc", "kfree", "mmap", "touch"}
ThreadCommands == {"list", "suspend", "resume", "del", "prio", "other"}

Arguments == Numbers \cup {None}

Command ==
  [name : OneWay \cup Printed \cup {"last", "list", "other", "unknown"}, arg : {None}, prio : {None}]
    \cup [name : WithNumber \cup {"suspend", "resume", "del"}, arg : Arguments, prio : {None}]
    \cup {c \in [name : {"prio"}, arg : Arguments, prio : Arguments] :
            c.arg = None => c.prio = None}

(* A text that is no command (or, after `thread`, no thread command), that *)
(* lacks its number, or has 0 for it; of the thread commands only `prio`   *)
(* looks for its number.                                                   *)
Refused(c) ==
  \/ c.name \in {"unknown", "other"}
  \/ c.name \in WithNumber /\ c.arg \in {None, 0}
  \/ c.name = "prio" /\ c.arg = None

(* The commands whose text is cut into strings of their own.               *)
HasArgs(c) == (c.name \in WithNumber /\ c.arg # None) \/ c.name \in ThreadCommands
HasArgStr(c) == c.name \in ThreadCommands \ {"list", "other"}

(* What a command returns by itself.  Debug requests have no reply; the    *)
(* history cannot be printed when there is no text in it.                  *)
Execute(c) ==
  /\ pc = "command"
  /\ command' = c
  /\ \/ HasArgs(c) /\ pc' = "args" /\ UNCHANGED ret
     \/ ~HasArgs(c) /\ Refused(c) /\ ret' = -1 /\ pc' = "record"
     \/ c.name = "last" /\ ret' = lastRet /\ pc' = "record"
     \/ /\ c.name \in OneWay \cup Printed
        /\ ret' = 0
        /\ pc' = IF c.name = "history" /\ \E i \in 1..Len(history) : history[i].block = NULL
                   THEN "fault" ELSE "record"
  /\ UNCHANGED <<editor, str, lastRet, history, memory>>

(* args = cmd.substr(..): the next statement reads it.                     *)
Split(p) ==
  /\ pc = "args"
  /\ args' = p
  /\ live' = With(p)
  /\ pc' = CASE p = NULL -> "fault"
             [] p # NULL /\ HasArgStr(command) -> "argStr"
             [] OTHER -> "ask"
  /\ UNCHANGED <<editor, str, command, argStr, temp, ret, lastRet, history, elements>>

(* argStr = args.substr(..), for strtol.                                   *)
SplitAgain(p) ==
  /\ pc = "argStr"
  /\ argStr' = p
  /\ live' = With(p)
  /\ pc' = IF p = NULL THEN "fault" ELSE "ask"
  /\ UNCHANGED <<editor, str, command, args, temp, ret, lastRet, history, elements>>

(* The arguments are known; `touch` asks nobody.                           *)
Ask ==
  /\ pc = "ask"
  /\ \/ Refused(command) /\ ret' = -1 /\ pc' = "return"
     \/ ~Refused(command) /\ command.name = "touch" /\ ret' = 0 /\ pc' = "return"
     \/ ~Refused(command) /\ command.name # "touch" /\ pc' = "reply" /\ UNCHANGED ret
  /\ UNCHANGED <<editor, str, command, lastRet, history, memory>>

(* The reply of the server to seL4_Call.                                   *)
Answered ==
  /\ pc = "reply"
  /\ ret' = 0
  /\ pc' = "return"
  /\ UNCHANGED <<editor, str, command, lastRet, history, memory>>

(* cmdThread and processNewCommand return: argStr and args are destroyed.  *)
Return ==
  /\ pc = "return"
  /\ live' = live \ {argStr, args}
  /\ argStr' = NoObject
  /\ args' = NoObject
  /\ pc' = "record"
  /\ UNCHANGED <<editor, str, command, temp, ret, lastRet, history, elements>>

(* The priority that `prio` asks for: strtol of an empty rest is 0.        *)
RequestedPriority == IF command.prio = None THEN 0 ELSE command.prio

-----------------------------------------------------------------------------
(* newCommand, after processNewCommand: operator== compares the sizes and  *)
(* then the characters; push_back is given a temporary made of cmd.c_str().*)

SameSize == history # <<>> /\ Last(history).size = str.size
(* back() has no characters to compare.                                    *)
Unreadable == SameSize /\ Last(history).block = NULL
Repeated ==
  /\ SameSize
  /\ ~Unreadable
  /\ \A i \in 1..str.size : Last(history).data[i] = str.data[i]

SkipHistory ==
  /\ pc = "record"
  /\ Unreadable \/ Repeated
  /\ lastRet' = ret
  /\ pc' = IF Unreadable THEN "fault" ELSE "reset"
  /\ UNCHANGED <<editor, str, command, ret, history, memory>>

MakeTemp_Always(p) ==   \* faulty variant: repeated commands are recorded too
  /\ pc = "record"
  /\ lastRet' = ret
  /\ temp' = p
  /\ live' = With(p)
  /\ pc' = "push"
  /\ UNCHANGED <<editor, str, command, args, argStr, ret, history, elements>>

MakeTemp(p) ==
  /\ pc = "record"
  /\ ~Unreadable /\ ~Repeated
  /\ lastRet' = ret
  /\ temp' = p
  /\ live' = With(p)
  /\ pc' = "push"
  /\ UNCHANGED <<editor, str, command, args, argStr, ret, history, elements>>

(* doRealloc of the empty vector; nobody looks at what krealloc returned.  *)
FirstElements(p) ==
  /\ pc = "push"
  /\ elements = NULL
  /\ elements' = p
  /\ live' = With(p)
  /\ pc' = "assign"
  /\ UNCHANGED <<editor, str, command, ret, lastRet, history, temporaries>>

(* The vector has room; when it is full, doRealloc calls krealloc, which   *)
(* does not return.                                                        *)
Reserved ==
  /\ pc = "push"
  /\ elements # NULL
  /\ pc' = IF Len(history) >= Reservation THEN "hung" ELSE "assign"
  /\ UNCHANGED <<editor, str, command, ret, lastRet, history, memory>>

Assign_Shares(p) ==   \* faulty variant: the element takes the temporary's pointer
  /\ pc = "assign"
  /\ temp # NULL /\ elements # NULL
  /\ history' = Append(history, [data |-> str.data, size |-> Len(str.data), block |-> temp])
  /\ live' = live \ {temp}
  /\ temp' = NoObject
  /\ pc' = "reset"
  /\ UNCHANGED <<editor, str, command, args, argStr, ret, lastRet, elements>>

(* _data[_size++] = value: a copy of the temporary's text, if there is     *)
(* memory for it, and its size; then the temporary is destroyed.           *)
Assign(p) ==
  /\ pc = "assign"
  /\ temp # NULL /\ elements # NULL
  /\ history' = Append(history, [data |-> IF p = NULL THEN <<>> ELSE str.data,
                                 size |-> Len(str.data), block |-> p])
  /\ live' = With(p) \ {temp}
  /\ temp' = NoObject
  /\ pc' = "reset"
  /\ UNCHANGED <<editor, str, command, args, argStr, ret, lastRet, elements>>

(* Without elements the copy is made before it is stored through NULL.     *)
AssignNowhere(p) ==
  /\ pc = "assign"
  /\ temp # NULL /\ elements = NULL
  /\ live' = With(p)
  /\ pc' = "fault"
  /\ UNCHANGED <<editor, str, command, temporaries, ret, lastRet, history, elements>>

(* strdup of the temporary that has no text.                               *)
AssignFaults ==
  /\ pc = "assign"
  /\ temp = NULL
  /\ pc' = "fault"
  /\ UNCHANGED <<editor, str, command, ret, lastRet, history, memory>>

-----------------------------------------------------------------------------
Next ==
  \/ \E c \in Chars : Type(c)
  \/ Backspace \/ EnterEmpty \/ Reset
  \/ \E c \in Command : Execute(c)
  \/ Ask \/ Answered \/ Return \/ SkipHistory \/ Reserved \/ AssignFaults
  \/ \E p \in Allocated :
       Enter(p) \/ Split(p) \/ SplitAgain(p) \/ MakeTemp(p) \/ FirstElements(p) \/ Assign(p)
         \/ AssignNowhere(p)

Spec == Init /\ [][Next]_vars

-----------------------------------------------------------------------------
Strings(n) == [data : SeqOf(Chars, n), size : 0..n, block : NoObject..Blocks]

(* The bound on bufferIndex is the assert of onChar.                       *)
TypeOK ==
  /\ buffer \in [0..(BufferSize - 1) -> Chars \cup {NUL}]
  /\ bufferIndex \in 0..(BufferSize - 2)
  /\ typed \in SeqOf(Chars, BufferSize - 1)
  /\ str \in Strings(BufferSize - 1)
  /\ command \in Command \cup {NoCommand}
  /\ {args, argStr, temp} \subseteq NoObject..Blocks
  /\ ret \in {0, -1} /\ lastRet \in {0, -1}
  /\ Len(history) <= Reservation
  /\ \A i \in 1..Len(history) : history[i] \in Strings(BufferSize - 1)
  /\ elements \in 0..Blocks
  /\ live \subseteq 1..Blocks
  /\ pc \in {"prompt", "command", "args", "argStr", "ask", "reply", "return",
             "record", "push", "assign", "reset", "hung", "fault"}

(* The string a command runs with is the line as it was edited, after any  *)
(* typing and backspacing, and its size is the number of its characters:   *)
(* nothing of a longer, abandoned line comes back.                         *)
LineIsTyped ==
  str.block \notin {NoObject, NULL} => str.data = typed /\ str.size = Len(typed)

(* The history is the commands that were run, the last one last, without   *)
(* repetitions in a row; where memory ran out, an element has its          *)
(* command's size and no text.                                             *)
HistoryExact ==
  /\ \A i \in 1..(Len(history) - 1) :
       history[i].data # history[i + 1].data \/ history[i].size # history[i + 1].size
  /\ \A i \in 1..Len(history) :
       history[i].block # NULL => history[i].size = Len(history[i].data)
  /\ pc = "reset" =>
       /\ history # <<>>
       /\ Last(history).size = str.size
       /\ Last(history).block # NULL => Last(history).data = str.data

(* The pointers of the shell's objects, and which of them are to a block.   *)
Pointers ==
  <<BufferBlock, str.block, args, argStr, temp, elements>>
    \o [i \in 1..Len(history) |-> history[i].block]
Owners == {i \in 1..Len(Pointers) : Pointers[i] \notin {NoObject, NULL}}

(* The fault of the store through NULL: the copy that was to be stored has *)
(* no place, and the thread that made it has stopped.                      *)
CopyLost == pc = "fault" /\ elements = NULL /\ temp \notin {NoObject, NULL}

(* Every block that is allocated has exactly one object that will free it, *)
(* or that keeps it in the history: whatever command is run, refused or    *)
(* repeated, and whichever allocation fails, nothing is freed twice or     *)
(* shared by a string that is destroyed, and nothing is leaked but one     *)
(* block at most, the copy for a history that found no memory.             *)
BlocksOwned ==
  LET owned == {Pointers[i] : i \in Owners}
  IN /\ \A i, j \in Owners : Pointers[i] = Pointers[j] => i = j
     /\ \/ live = owned
        \/ CopyLost /\ \E p \in live : live = owned \cup {p}

(* "Missing priority arg": a thread's priority is changed only to one that *)
(* was typed.                                                              *)
PriorityWasTyped ==
  pc = "reply" /\ command.name = "prio" => RequestedPriority = command.prio
=============================================================================
