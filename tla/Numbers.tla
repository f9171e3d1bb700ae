------------------------------ MODULE Numbers ------------------------------
(***************************************************************************)
(* Numbers between the shell and its user: printf writes them (the address *)
(* of `kmalloced at address %lu`), and strtol reads them again when the    *)
(* user types one as the argument of a command (`kfree`, `touch`).  A      *)
(* behaviour is a call of printf, a conversion of a string, or, after a    *)
(* call that printed one number, the conversion of what is on the screen.  *)
(***************************************************************************)
EXTENDS Strtol

CONSTANTS Calls, NtoaBufferSize, Wrap, Memory   \* of Printf

VARIABLES call, fmt, idx, memory, console, flags, value, negative, buf, ppc

printfVars == <<call, fmt, idx, memory, console, flags, value, negative, buf, ppc>>

P == INSTANCE Printf

(* A long has 64 bits, and no integer that printf takes has more.          *)
ASSUME PrintfConstants ==
  /\ P!Constants
  /\ Wrap["l"] = 2 * (LongMax + 1)
  /\ \A l \in DOMAIN Wrap : Wrap[l] <= Wrap["l"]

NoCall == [format |-> <<>>, sink |-> "none", maxlen |-> 0]

(* The string is typed without a number having been printed.               *)
TypeAnything ==
  /\ Init
  /\ call = NoCall /\ fmt = <<>> /\ idx = 0 /\ memory = <<>> /\ console = <<>>
  /\ flags = {} /\ value = 0 /\ negative = FALSE /\ buf = <<>>
  /\ ppc = "typed"

Prints ==
  /\ P!Init
  /\ str = <<>> /\ pos = 1 /\ sign = 1 /\ sum = 0
  /\ erange = FALSE /\ end = 0 /\ exact = 0 /\ pc = "start"

NumbersInit == TypeAnything \/ Prints

Call == P!Next /\ UNCHANGED vars

PrintedNumber ==
  /\ call.sink = "console"
  /\ Len(call.format) = 1
  /\ call.format[1].conv \in {"d", "u", "x"}

(* The user copies the number from the screen.                             *)
TypeBack ==
  /\ ppc = "done"
  /\ PrintedNumber
  /\ str' = console
  /\ ppc' = "typed"
  /\ UNCHANGED <<pos, sign, sum, erange, end, exact, pc>>
  /\ UNCHANGED <<call, fmt, idx, memory, console, flags, value, negative, buf>>

Convert == ppc = "typed" /\ Next /\ UNCHANGED printfVars

NumbersNext == Call \/ TypeBack \/ Convert

NumbersSpec == NumbersInit /\ [][NumbersNext]_<<vars, printfVars>>

-----------------------------------------------------------------------------
PrintfTypeOK == ppc # "typed" => P!TypeOK

(* See Printf.                                                             *)
WritesWithinCount == call # NoCall /\ ppc # "typed" => P!WritesWithinCount
FormatsAsC == call # NoCall /\ ppc # "typed" => P!FormatsAsC

(* The user reads decimal numbers, and hexadecimal ones of one digit.      *)
ReadAsPrinted(e) ==
  e.conv = "x" => "hash" \notin e.flags /\ P!Argument(e) < Base

(* A number that was printed and typed again is the same number, as far as *)
(* a long can hold it: `kfree` frees the block whose address `kmalloc`     *)
(* reported, in decimal.  The badges of threads are reported in            *)
(* hexadecimal (%X), and `thread suspend` finds the thread only as long as *)
(* they are below 10.                                                      *)
RoundTrip ==
  pc = "done" /\ call # NoCall /\ str # <<>> =>
    LET e == call.format[1]
        printed == P!Argument(e)
    IN ReadAsPrinted(e) /\ ~P!Deviates(e) =>
         sum = Clamp(printed) /\ (printed <= LongMax => ~erange)
=============================================================================
