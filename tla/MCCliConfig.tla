---------------------------- MODULE MCCliConfig ----------------------------
(* Instance of CliConfig for TLC: the commands of at most four arguments  *)
(* made from a few.  With U16 = 32 the word "33" is what 65537 is in the   *)
(* program, with WrBufMax = 8 the longest data has 8 bytes.                *)
EXTENDS CliConfig

W(text, n, b) == [whole |-> text = "number", digits |-> text # "none", int |-> n, bytes |-> b]
W0 == W("number", 0, -1)
W2 == W("number", 2, -1)
W12 == W("number", 12, 1)
W33 == W("number", 33, 1)
WMinus == W("number", -2, -1)
WDate == W("number", 7, 4)
WLong == W("none", 0, 8)
WMixed == W("start", 1, 1)

Tok(form, opts, neg, w) == [form |-> form, opts |-> opts, neg |-> neg, word |-> w]
Arg(w) == Tok("word", <<>>, FALSE, w)
Short(opts) == Tok("short", opts, FALSE, NoWord)
Long(o, w) == Tok("long", <<o>>, FALSE, w)
No(o) == Tok("long", <<o>>, TRUE, NoWord)
Rest == Tok("end", <<>>, FALSE, NoWord)
Help == Tok("help", <<>>, FALSE, NoWord)
Minus == Tok("unknown", <<>>, FALSE, WMinus)

UpTo(n, S) == UNION {[1 .. k -> S] : k \in 0 .. n}

Common ==
  {Arg(W12), Arg(W2), Arg(WDate), Arg(WMixed), Rest, Help,
   Tok("unknown", <<>>, FALSE, Dashed),
   Short(<<"write">>), Short(<<"read">>), Short(<<"write", "test">>),
   Long("test", W2), Long("set", NoWord), Long("update", NoWord), Long("date", NoWord), Short(<<"info">>)}
Usual ==
  UpTo(4, Common) \cup {<<Long(o, NoWord), Minus>> : o \in {"level", "type", "set"}}

Negated == UpTo(3, {Short(<<"write">>), Short(<<"read">>), No("read"), No("write"), Arg(W12)})

(* Options with values, also those without a meaning, two commands at a    *)
(* time.                                                                   *)
Values ==
  {Long("type", W0), Long("type", NoWord), Long("set", W12), Long("nvm", W2),
   Long("level", W2), Long("clean", W12), Short(<<"asc">>), Short(<<"send">>),
   Short(<<"open", "close">>), Short(<<"reset">>), Long("force", W2), Arg(W0), Arg(W12), Arg(WLong)}

(* A flag with a value; a count that fits only after it is cut; a test of  *)
(* no rounds, which is none; data that fill the buffer.                    *)
OddLines ==
  {<<Long("write", W2), Long("test", NoWord), Arg(W12), Arg(W12), Arg(W12)>>,
   <<Short(<<"read">>), Arg(W12), Arg(W33)>>,
   <<Short(<<"write">>), Long("test", W0), Arg(W12), Arg(W12)>>,
   <<Short(<<"write">>), Arg(W12), Arg(WLong)>>}

AllLines == Usual \cup Negated \cup UpTo(3, Values) \cup OddLines
=============================================================================
