------------------------------ MODULE LineBuffer ------------------------------
(***************************************************************************)
(* What the console promises to the programs that read it: the lines that  *)
(* were typed, as edited, each character to one reader, in order; a read   *)
(* ends with its line, and one that finds ^D first gets nothing.           *)
(***************************************************************************)
EXTENDS Naturals, Sequences

CONSTANTS Readers, Size

Chars == {"x", "nl", "eof"}

VARIABLES
  ready,      \* what readers may take
  edit,       \* the line that is being typed
  out         \* what each reader has got in its latest call

vars == <<ready, edit, out>>

Init ==
  /\ ready = <<>> /\ edit = <<>>
  /\ out = [p \in Readers |-> <<>>]

Type(c) ==
  LET line == Append(edit, c)
      room == Size - Len(ready) - Len(edit)
  IN  /\ room > 0
      /\ IF c # "x" \/ room = 1 THEN ready' = ready \o line /\ edit' = <<>>
                                ELSE edit' = line /\ UNCHANGED ready
      /\ UNCHANGED out

Erase(n) ==
  /\ n \in 1 .. Len(edit)
  /\ edit' = SubSeq(edit, 1, Len(edit) - n)
  /\ UNCHANGED <<ready, out>>

Read(p) ==
  /\ out' = [out EXCEPT ![p] = <<>>]
  /\ UNCHANGED <<ready, edit>>

Take(p) ==
  /\ ready # <<>> /\ Head(ready) # "eof"
  /\ out[p] # <<>> => out[p][Len(out[p])] # "nl"
  /\ out' = [out EXCEPT ![p] = Append(@, Head(ready))]
  /\ ready' = Tail(ready)
  /\ UNCHANGED edit

EndOfFile(p) ==
  /\ ready # <<>> /\ Head(ready) = "eof" /\ out[p] = <<>>
  /\ ready' = Tail(ready)
  /\ UNCHANGED <<edit, out>>

Next ==
  \/ \E c \in Chars : Type(c)
  \/ \E n \in 1 .. Size : Erase(n)
  \/ \E p \in Readers : Read(p) \/ Take(p) \/ EndOfFile(p)

Spec == Init /\ [][Next]_vars
===============================================================================
