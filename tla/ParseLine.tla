----------------------------- MODULE ParseLine -----------------------------
(***************************************************************************)
(* parseline() of src/tshlab/tsh.c: a command line becomes the arguments,  *)
(* the files of a redirection and whether the job runs in the background.  *)
(* A line is a sequence of characters; a word whose inside the parser does *)
(* not look at is one character, such as "./myspin1".                      *)
(***************************************************************************)
LOCAL INSTANCE Integers
LOCAL INSTANCE Sequences
LOCAL INSTANCE FiniteSets
LOCAL INSTANCE FiniteSetsExt

CONSTANT MAXARGS  \* as in tsh.c, where it is 128

delims == {" "}
Quotes == {"'", "\""}
Redirections == [infile |-> "<", outfile |-> ">"]

\* the first place from i on with one of these characters, or the end
FirstOf(line, i, chars) == Min({k \in i..Len(line) : line[k] \in chars} \cup {Len(line) + 1})
FirstNotOf(line, i, chars) == Min({k \in i..Len(line) : line[k] \notin chars} \cup {Len(line) + 1})

\* NULL is <<>>, a file name is a sequence of length one
NoTokens == [argv |-> <<>>, infile |-> <<>>, outfile |-> <<>>, awaited |-> {}, ok |-> TRUE]
Malformed == [NoTokens EXCEPT !.ok = FALSE]

(* The token is an argument, or the file that one < or > has announced.    *)
Record(tok, t) ==
  CASE tok.awaited = {} -> [tok EXCEPT !.argv = Append(@, t)]
    [] tok.awaited = {"infile"} -> [tok EXCEPT !.infile = <<t>>, !.awaited = {}]
    [] tok.awaited = {"outfile"} -> [tok EXCEPT !.outfile = <<t>>, !.awaited = {}]
    [] OTHER -> Malformed

\* mutant: a second file takes the place of the first
Replaced(tok, f) == [tok EXCEPT !.awaited = @ \cup {f}]
Announced(tok, f) == IF tok[f] # <<>> THEN Malformed ELSE [tok EXCEPT !.awaited = @ \cup {f}]

(* One turn of the loop over the line: at is the place of buf.  The loop   *)
(* ends where the line does, at a malformed token, or when argv is full.   *)
Turn(line, s) ==
  LET buf == FirstNotOf(line, s.at, delims)
      c == line[buf]
      quoted == c \in Quotes
      start == IF quoted THEN buf + 1 ELSE buf
      next == FirstOf(line, start, IF quoted THEN {c} ELSE delims)
      got == Record(s.tok, SubSeq(line, start, next - 1))
  IN CASE buf > Len(line) \/ ~s.tok.ok -> s
       [] \E f \in DOMAIN Redirections : c = Redirections[f] ->
            [at |-> buf + 1,
             tok |-> Announced(s.tok, CHOOSE f \in DOMAIN Redirections : c = Redirections[f])]
       [] quoted /\ next > Len(line) -> [s EXCEPT !.tok = Malformed]
       [] OTHER -> [at |-> IF Len(got.argv) >= MAXARGS - 1 THEN Len(line) + 1 ELSE next + 1,
                    tok |-> got]

\* every turn takes a character of the line
Scan(line) ==
  LET after[n \in 0..Len(line)] ==
        IF n = 0 THEN [at |-> 1, tok |-> NoTokens] ELSE Turn(line, after[n - 1])
  IN  after[Len(line)].tok

BuiltinNames == {"quit", "jobs", "bg", "fg"}

(* bg is -1 for a malformed line and 1 for an empty one.  An & counts when *)
(* the last argument begins with it.                                       *)
parseline(line) ==
  LET tok == Scan(line)
      argc == Len(tok.argv)
      background == tok.argv[argc] # <<>> /\ Head(tok.argv[argc]) = "&"
      builtin == {b \in BuiltinNames : tok.argv[1] = <<b>>}
  IN CASE ~tok.ok \/ tok.awaited # {} -> [bg |-> -1, tok |-> Malformed, builtins |-> {}]
       [] argc = 0 -> [bg |-> 1, tok |-> tok, builtins |-> {}]
       [] background -> [bg |-> 1, builtins |-> builtin,
                         tok |-> [tok EXCEPT !.argv = SubSeq(@, 1, argc - 1)]]
       [] OTHER -> [bg |-> 0, tok |-> tok, builtins |-> builtin]
=============================================================================
