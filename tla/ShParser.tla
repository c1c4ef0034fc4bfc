------------------------------ MODULE ShParser ------------------------------
(***************************************************************************)
(* The shell reads a command line and parses it (sh.c).  The parser is the *)
(* recursive descent of the code, over pointers into the line; the grammar *)
(* it is compared with splits a line at its operators.                     *)
(*                                                                         *)
(* Pointers are indices; es is Len(b) + 1.  A parser that has panicked     *)
(* goes on with the pointer 0, at which it finds nothing any more.         *)
(***************************************************************************)
EXTENDS Integers, Sequences, FiniteSets, SequencesExt

CONSTANTS
  Chars,       \* what is typed; characters that are not listed below belong to words
  NBUF,        \* the size of the buffer for a line
  MAXARGS

Whitespace == {" ", "\n"}
Symbols    == {"<", "|", ">", "&", ";", "(", ")"}

VARIABLE buf   \* the line as far as gets() has read it

Init == buf = <<>>

\* A turn of the loop of gets(); it ends with a line that is complete or too long, whose
\* rest is read as the next one.
Complete(b) == Len(b) + 1 >= NBUF \/ (b # <<>> /\ Last(b) = "\n")
Gets(c) == ~Complete(buf) /\ buf' = Append(buf, c)
Getcmd  == Complete(buf) /\ buf' = <<>>

Next == Getcmd \/ \E c \in Chars : Gets(c)

-----------------------------------------------------------------------------
(* Tokens                                                                  *)

\* The first place from s on that is the end or does not satisfy P.
Past(b, s, P(_)) ==
  CHOOSE i \in s .. Len(b) + 1 :
    /\ i = Len(b) + 1 \/ ~P(b[i])
    /\ \A j \in s .. i - 1 : P(b[j])

IsSpace(c)  == c \in Whitespace
IsLetter(c) == c \notin Whitespace \cup Symbols \cup {""}
Skip(b, s)  == IF s = 0 THEN 0 ELSE Past(b, s, IsSpace)

At(b, s) == IF s \in DOMAIN b THEN b[s] ELSE ""
Peek_NoSkip(b, s, toks) == At(b, s) \in toks
Peek(b, s, toks) == At(b, Skip(b, s)) \in toks

TokenEnd(b, q) ==
  IF At(b, q) = "" THEN q
  ELSE IF IsLetter(b[q]) THEN Past(b, q, IsLetter)
  ELSE IF b[q] = ">" /\ At(b, q + 1) = ">" THEN q + 2 ELSE q + 1

\* gettoken() from s: the token, "a" for a word and "+" for >>, its ends, and the new *ps.
GetToken(b, s) ==
  LET q  == Skip(b, s)
      eq == TokenEnd(b, q) IN
  [tok |-> IF At(b, q) = "" THEN "" ELSE IF IsLetter(b[q]) THEN "a"
           ELSE IF eq = q + 2 THEN "+" ELSE b[q],
   word |-> <<q, eq>>, s |-> Skip(b, eq)]

-----------------------------------------------------------------------------
(* Commands                                                                *)

Execcmd(argv)       == [type |-> "EXEC", argv |-> argv]
Redircmd(cmd, r)    == [type |-> "REDIR", cmd |-> cmd, file |-> r.file, fd |-> r.fd]
Pipecmd(left, right) == [type |-> "PIPE", left |-> left, right |-> right]
Listcmd(left, right) == [type |-> "LIST", left |-> left, right |-> right]
Backcmd(cmd)        == [type |-> "BACK", cmd |-> cmd]
Syntax              == [type |-> "panic"]

\* cmd inside the redirections rs, the first of them innermost.
Redirected(cmd, rs) == FoldLeft(Redircmd, cmd, rs)

Parsed(cmd, s) == [cmd |-> cmd, s |-> s]
Panic          == Parsed(Syntax, 0)

-----------------------------------------------------------------------------
(* The parser                                                              *)

\* The procedures call each other, and go round their loops, by applying `parse' to the
\* name of one and a place in the line.

\* parseredirs(): the redirections from s on.
Redirs(b, s, parse) ==
  LET op   == GetToken(b, s)
      file == GetToken(b, op.s)
      rest == parse["redirs", file.s] IN
  IF ~Peek(b, s, {"<", ">"}) THEN [rs |-> <<>>, s |-> Skip(b, s)]
  ELSE IF file.tok # "a" THEN [rs |-> <<>>, s |-> 0]
  ELSE [rs |-> <<[file |-> file.word, fd |-> IF op.tok = "<" THEN 0 ELSE 1]>> \o rest.rs,
        s |-> rest.s]

\* The loop of parseexec(): the arguments and redirections from s on.
Args(b, s, parse) ==
  LET t    == GetToken(b, s)
      r    == parse["redirs", t.s]
      rest == parse["args", r.s] IN
  IF Peek(b, s, {"|", ")", "&", ";"}) \/ t.tok = ""
  THEN [argv |-> <<>>, rs |-> <<>>, s |-> Skip(b, s)]
  ELSE IF t.tok # "a" THEN [argv |-> <<>>, rs |-> <<>>, s |-> 0]
  ELSE [argv |-> <<t.word>> \o rest.argv, rs |-> r.rs \o rest.rs, s |-> rest.s]

ParseBlock(b, s, parse) ==
  LET line == parse["line", GetToken(b, s).s]
      r    == parse["redirs", GetToken(b, line.s).s] IN
  IF Peek(b, line.s, {")"}) THEN Parsed(Redirected(line.cmd, r.rs), r.s) ELSE Panic

ParseExec(b, s, parse) ==
  LET r    == parse["redirs", s]
      args == parse["args", r.s] IN
  IF Peek(b, s, {"("}) THEN ParseBlock(b, s, parse)
  ELSE IF Len(args.argv) >= MAXARGS THEN Panic
  ELSE Parsed(Redirected(Execcmd(args.argv), r.rs \o args.rs), args.s)

ParsePipe(b, s, parse) ==
  LET left  == parse["exec", s]
      right == parse["pipe", GetToken(b, left.s).s] IN
  IF Peek(b, left.s, {"|"}) THEN Parsed(Pipecmd(left.cmd, right.cmd), right.s) ELSE left

\* The loop of parseline() for &: how many of them are at s.
Backs(b, s, parse) ==
  LET rest == parse["backs", GetToken(b, s).s] IN
  IF Peek(b, s, {"&"}) THEN [n |-> rest.n + 1, s |-> rest.s] ELSE [n |-> 0, s |-> s]

ParseLine(b, s, parse) ==
  LET cmd   == parse["pipe", s]
      backs == parse["backs", cmd.s]
      right == parse["line", GetToken(b, backs.s).s]
      left[n \in 0 .. Len(b)] == IF n = 0 THEN cmd.cmd ELSE Backcmd(left[n - 1]) IN
  IF Peek(b, backs.s, {";"}) THEN Parsed(Listcmd(left[backs.n], right.cmd), right.s)
  ELSE Parsed(left[backs.n], backs.s)

Parser(b) ==
  LET parse[f \in {"redirs", "args", "exec", "pipe", "backs", "line"}, s \in 0 .. Len(b) + 1] ==
        CASE f = "redirs" -> Redirs(b, s, parse)
          [] f = "args"   -> Args(b, s, parse)
          [] f = "exec"   -> ParseExec(b, s, parse)
          [] f = "pipe"   -> ParsePipe(b, s, parse)
          [] f = "backs"  -> Backs(b, s, parse)
          [] f = "line"   -> ParseLine(b, s, parse)
  IN parse

\* parsecmd(): leftovers are a syntax error.
ParseCmd(b) ==
  LET p == Parser(b)["line", 1] IN IF Skip(b, p.s) = Len(b) + 1 THEN p.cmd ELSE Syntax

\* The ends of the words, which nulterminate() overwrites, and the line after that.
RECURSIVE Ends(_)
Ends(cmd) ==
  CASE cmd.type = "EXEC"  -> {w[2] : w \in ToSet(cmd.argv)}
    [] cmd.type = "REDIR" -> Ends(cmd.cmd) \cup {cmd.file[2]}
    [] cmd.type \in {"PIPE", "LIST"} -> Ends(cmd.left) \cup Ends(cmd.right)
    [] cmd.type = "BACK"  -> Ends(cmd.cmd)
    [] cmd.type = "panic" -> {}

NulTerminate(b, cmd) ==
  [i \in 1 .. Len(b) + 1 |-> IF i = Len(b) + 1 \/ i \in Ends(cmd) THEN "" ELSE b[i]]

-----------------------------------------------------------------------------
(* The grammar                                                             *)

\* Where tokens begin: a letter behind another character, a symbol, but not the second
\* of two >, counted from the first of a row.
Begins(b) ==
  {i \in DOMAIN b :
    \/ IsLetter(b[i]) /\ ~IsLetter(At(b, i - 1))
    \/ b[i] \in Symbols \ {">"}
    \/ b[i] = ">" /\ LET row == CHOOSE n \in 0 .. i - 1 :
                                  /\ \A j \in i - n .. i : b[j] = ">"
                                  /\ At(b, i - n - 1) # ">"
                     IN row % 2 = 0}

Tokens(b) ==
  [k \in 1 .. Cardinality(Begins(b)) |->
     GetToken(b, SetToSortSeq(Begins(b), LAMBDA i, j : i < j)[k])]

Toks(ts)      == {t.tok : t \in ToSet(ts)}
Count(ts, x)  == Cardinality({k \in DOMAIN ts : ts[k].tok = x})
Depth(ts, k)  == Count(SubSeq(ts, 1, k), "(") - Count(SubSeq(ts, 1, k), ")")
Balanced(ts)  == Depth(ts, Len(ts)) = 0 /\ \A k \in DOMAIN ts : Depth(ts, k) >= 0
Outside(ts, x) == {k \in DOMAIN ts : ts[k].tok = x /\ Depth(ts, k) = 0}
Least(S)      == CHOOSE k \in S : \A j \in S : k <= j
Before(ts, k) == SubSeq(ts, 1, k - 1)
Behind(ts, k) == SubSeq(ts, k + 1, Len(ts))

\* A command of wrong parts is wrong.
Unless(parts, cmd) == IF Syntax \in parts THEN Syntax ELSE cmd

\* Words and redirections in any order.
IsFile(ts, k) == k > 1 /\ ts[k].tok = "a" /\ ts[k - 1].tok \in {"<", ">", "+"}
Simple(ts) ==
  /\ Toks(ts) \subseteq {"a", "<", ">", "+"}
  /\ \A k \in DOMAIN ts : ts[k].tok # "a" => k < Len(ts) /\ ts[k + 1].tok = "a"
Words(ts) ==
  LET at == {k \in DOMAIN ts : ts[k].tok = "a" /\ ~IsFile(ts, k)} IN
  [i \in 1 .. Cardinality(at) |-> ts[SetToSortSeq(at, LAMBDA j, k : j < k)[i]].word]
Files(ts) ==
  LET at == {k \in DOMAIN ts : IsFile(ts, k)}
      nth(i) == SetToSortSeq(at, LAMBDA j, k : j < k)[i] IN
  [i \in 1 .. Cardinality(at) |->
     [file |-> ts[nth(i)].word, fd |-> IF ts[nth(i) - 1].tok = "<" THEN 0 ELSE 1]]

\* What the parts of a line are is looked up in g.
Line(ts, g) ==
  LET k == Least(Outside(ts, ";"))
      left == g["job", Before(ts, k)] right == g["line", Behind(ts, k)] IN
  IF Outside(ts, ";") = {} THEN g["job", ts] ELSE Unless({left, right}, Listcmd(left, right))

Job(ts, g) ==
  LET cmd == g["job", Front(ts)] IN
  IF ts = <<>> \/ Last(ts).tok # "&" THEN g["pipeline", ts] ELSE Unless({cmd}, Backcmd(cmd))

Pipeline(ts, g) ==
  LET k == Least(Outside(ts, "|"))
      left == g["command", Before(ts, k)] right == g["pipeline", Behind(ts, k)] IN
  IF Outside(ts, "|") = {} THEN g["command", ts]
  ELSE Unless({left, right}, Pipecmd(left, right))

Block(ts, g) ==
  LET k    == Least(Outside(ts, ")"))
      cmd  == g["line", SubSeq(ts, 2, k - 1)]
      rest == Behind(ts, k) IN
  IF Simple(rest) /\ Words(rest) = <<>> THEN Unless({cmd}, Redirected(cmd, Files(rest)))
  ELSE Syntax

Command(ts, g) ==
  IF ts # <<>> /\ Head(ts).tok = "(" THEN Block(ts, g)
  ELSE IF Simple(ts) /\ Len(Words(ts)) < MAXARGS
  THEN Redirected(Execcmd(Words(ts)), Files(ts)) ELSE Syntax

Grammar(b) ==
  LET all   == Tokens(b)
      parts == {SubSeq(all, i, j) : i \in 1 .. Len(all) + 1, j \in 0 .. Len(all)}
      g[kind \in {"line", "job", "pipeline", "command"}, ts \in parts] ==
        CASE kind = "line"     -> Line(ts, g)
          [] kind = "job"      -> Job(ts, g)
          [] kind = "pipeline" -> Pipeline(ts, g)
          [] kind = "command"  -> Command(ts, g)
  IN IF Balanced(all) THEN g["line", all] ELSE Syntax

-----------------------------------------------------------------------------
(* Properties                                                              *)

RECURSIVE WordsOf(_)
WordsOf(cmd) ==
  CASE cmd.type = "EXEC"  -> ToSet(cmd.argv)
    [] cmd.type = "REDIR" -> WordsOf(cmd.cmd) \cup {cmd.file}
    [] cmd.type \in {"PIPE", "LIST"} -> WordsOf(cmd.left) \cup WordsOf(cmd.right)
    [] cmd.type = "BACK"  -> WordsOf(cmd.cmd)
    [] cmd.type = "panic" -> {}

\* Every line is parsed as the grammar says: ; binds less than &, & less than |, all of
\* them less than redirections, and what is no command is refused; and after nulterminate()
\* each word ends where it ended in the line, whichever symbol stood behind it.
ParsesAsGrammar ==
  \A cmd \in {ParseCmd(buf)} :
    /\ cmd = Grammar(buf)
    /\ \A w \in WordsOf(cmd) :
         LET b == NulTerminate(buf, cmd) IN
         b[w[2]] = "" /\ \A i \in w[1] .. w[2] - 1 : b[i] = buf[i]
==============================================================================
