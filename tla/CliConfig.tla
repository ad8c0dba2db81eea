----------------------------- MODULE CliConfig -----------------------------
(***************************************************************************)
(* From the command line to the access: argparse_parse and the option      *)
(* functions (src/src/general/argparse.c:49-287), the checks and the       *)
(* choice of the mode (src/src/main.c:38-233), and the mode that reads and *)
(* writes registers (src/src/run.c:30-87).  The other modes are modules    *)
(* MpuBusiness, CanFlow, CanEvent and BurnMcu.                             *)
(*                                                                         *)
(* A word of the command line is what the program makes of it: the number  *)
(* strtol finds, whether it finds one, whether it uses all of the word,    *)
(* and how many bytes hex_string_to_byte_array finds.                      *)
(***************************************************************************)
EXTENDS Integers, Sequences, FiniteSets, SequencesExt

CONSTANTS
  CommandLines,  \* the arguments the program may be given: token sequences
  U16,           \* 2^16
  WrBufMax,      \* WR_BUF_MAX, the size of wr_buf
  DateBytes      \* 4, the bytes of a production date

U32 == U16 * U16

Flag ==
  {"write", "read", "send", "receive", "asc", "event", "info", "look", "open",
   "close", "reset", "exit", "goto", "echo", "date"}
Path == {"update", "force"}
Number == {"test", "set", "type", "clean", "nvm", "level"}
Option == Flag \cup Path \cup Number

Word == [whole : BOOLEAN, digits : BOOLEAN, int : Int, bytes : Nat \cup {-1}]
NoWord == [whole |-> FALSE, digits |-> FALSE, int |-> 0, bytes |-> -2]
Dashed == [whole |-> FALSE, digits |-> FALSE, int |-> 0, bytes |-> -1]

(* A token is a word, "--", an unknown option, or options: one --long or a *)
(* cluster of short ones, of which only the last may take a value; neg is  *)
(* for --no-..., word for a value in the same token.                       *)
Form == {"word", "end", "unknown", "help", "short", "long"}
Token ==
  {t \in [form : Form, neg : BOOLEAN, opts : Seq(Option), word : Word \cup {NoWord}] :
    /\ \A i \in 1 .. Len(t.opts) - 1 : t.opts[i] \in Flag
    /\ t.form \in {"word", "unknown"} => t.word \in Word
    /\ t.form \in {"short", "long"} <=> t.opts # <<>>
    /\ t.form = "long" => Len(t.opts) = 1
    /\ t.neg => t.form = "long" /\ t.opts[1] \in Flag
    /\ t.form = "short" /\ Last(t.opts) \in Flag => t.word = NoWord}

ASSUME CliAssumption ==
  /\ CommandLines \subseteq Seq(Token)
  /\ U16 \in Nat \ {0, 1} /\ WrBufMax \in Nat \ {0, 1} /\ WrBufMax < U16 /\ DateBytes \in Nat

VARIABLES
  stage,        \* "parse", "check", "init", "run", and how the program ends
  argv,      \* the tokens not parsed yet
  out,       \* the words that are no options
  optvalue,  \* self->optvalue
  val,       \* val[o]: the variable of option o
  mode, reg_cnt,
  data,      \* how many bytes of wr_buf were typed
  tried, failed, result,   \* accesses made, those that failed, the result
  typed,     \* the options typed so far and not taken back
  valued     \* a flag was typed with a value, as in --write=5

cliVars == <<stage, argv, out, optvalue, val, mode, reg_cnt, data, tried, failed, result, typed, valued>>
line == <<typed, valued>>
config == <<mode, reg_cnt, data>>
access == <<tried, failed, result>>

(* Mutant: 0 stands for no mirror type.                                    *)
DefaultTypeZero(o) == IF o = "level" THEN -1 ELSE 0

(* The initial values in main; 0xFFFFFFFF for no mirror type.              *)
Default(o) == IF o = "type" THEN U32 - 1 ELSE IF o = "level" THEN -1 ELSE 0

CliInit ==
  /\ stage = "parse" /\ argv \in CommandLines /\ out = <<>> /\ optvalue = NoWord
  /\ val = [o \in Option |-> Default(o)]
  /\ mode = "online" /\ reg_cnt = 0 /\ data = 0
  /\ tried = 0 /\ failed = 0 /\ result = 0 /\ typed = {} /\ valued = FALSE

Given(o) == val[o] # Default(o)

-----------------------------------------------------------------------------
(* argparse_parse, one token at a time.                                    *)
At(form) == stage = "parse" /\ argv # <<>> /\ Head(argv).form = form

ParseEnd ==
  /\ stage = "parse" /\ argv = <<>> /\ stage' = "check"
  /\ UNCHANGED <<argv, out, optvalue, val, config, access, line>>

AsWord(t) == IF t.form \in {"word", "unknown"} THEN t.word ELSE Dashed

ParseWord ==
  /\ At("word")
  /\ out' = Append(out, Head(argv).word) /\ argv' = Tail(argv)
  /\ UNCHANGED <<stage, optvalue, val, config, access, line>>

(* "--": the rest are words.                                               *)
ParseRest ==
  /\ At("end")
  /\ out' = out \o [i \in 1 .. Len(argv) - 1 |-> AsWord(argv[i + 1])]
  /\ argv' = <<>>
  /\ UNCHANGED <<stage, optvalue, val, config, access, line>>

Exit(how) == stage' = how /\ UNCHANGED <<argv, out, optvalue, val, config, access, line>>

ParseExit ==
  \/ At("unknown") /\ Exit("error")
  \/ At("help") /\ Exit("help")

Greater(a, b) == IF a > b THEN a ELSE b

Count(opts, o) == Cardinality({i \in DOMAIN opts : opts[i] = o})

(* A flag counts how often it is given; --no- takes one back.              *)
Flagged(t) ==
  [o \in Option |->
    IF o \notin Flag THEN val[o]
    ELSE IF t.neg THEN Greater(val[o] - Count(t.opts, o), 0)
    ELSE val[o] + Count(t.opts, o)]

ParseFlags ==
  /\ (At("short") \/ At("long"))
  /\ LET t == Head(argv) IN
       /\ Last(t.opts) \in Flag
       /\ val' = Flagged(t)
       /\ optvalue' = IF t.form = "short" \/ t.word # NoWord THEN t.word ELSE optvalue
       /\ typed' = {o \in typed \cup ToSet(t.opts) : o \in Flag => val'[o] > 0}
       /\ valued' = (valued \/ (t.form = "long" /\ t.word # NoWord))
  /\ argv' = Tail(argv)
  /\ UNCHANGED <<stage, out, config, access>>

(* What strtol found, stored as an int: in a uint32_t but for level.       *)
Stored(o, w) ==
  IF o \in Path THEN 1
  ELSE IF o = "level" THEN ((w.int + U32 \div 2) % U32) - (U32 \div 2)
  ELSE w.int % U32

(* Mutant: the value stays for the next option.                            *)
LeftOver(w) == w

AfterUse(w) == NoWord

(* The value is in the token, left in optvalue, or the next argument,      *)
(* whatever that looks like.                                               *)
ParseValue ==
  /\ (At("short") \/ At("long"))
  /\ LET t == Head(argv)
         o == Last(t.opts)
         here == IF t.form = "short" \/ t.word # NoWord THEN t.word ELSE optvalue
         w == IF here # NoWord THEN here
              ELSE IF Len(argv) > 1 THEN AsWord(argv[2]) ELSE NoWord
     IN /\ o \notin Flag
        /\ argv' = IF here # NoWord \/ Len(argv) = 1 THEN Tail(argv) ELSE Tail(Tail(argv))
        /\ IF w = NoWord \/ (o \in Number /\ ~w.whole)
           THEN stage' = "error" /\ UNCHANGED <<val, optvalue, typed>>
           ELSE /\ val' = [Flagged(t) EXCEPT ![o] = Stored(o, w)]
                /\ optvalue' = AfterUse(w)
                /\ typed' = typed \cup ToSet(t.opts)
                /\ UNCHANGED stage
  /\ UNCHANGED <<out, config, access, valued>>

-----------------------------------------------------------------------------
(* other_argparse_parse                                                    *)

(* Mutant: only reading takes a count.                                     *)
CountedRead == Given("read")

(* The second word is a count, not data.                                   *)
Counted == Given("test") \/ Given("read")

Pair == Given("write") \/ Given("read") \/ Given("send")

PairBad ==
  \/ Len(out) # 2
  \/ ~out[1].digits
  \/ Counted /\ (~out[2].digits \/ (out[2].int % U16) \notin 1 .. WrBufMax - 2)
  \/ ~Counted /\ out[2].bytes \notin 0 .. WrBufMax

DateBad == Len(out) # 1 \/ out[1].bytes # DateBytes

(* The tests in their order: the last that holds sets the mode.            *)
ModeOrder ==
  <<[by |-> {"write", "read"}, mode |-> "rw"], [by |-> {"update"}, mode |-> "update"],
    [by |-> {"force"}, mode |-> "force"], [by |-> {"event"}, mode |-> "event"],
    [by |-> {"look"}, mode |-> "look"], [by |-> {"set", "clean"}, mode |-> "dtc"],
    [by |-> {"send"}, mode |-> "send"], [by |-> {"receive"}, mode |-> "receive"],
    [by |-> {"open", "close"}, mode |-> "wdog"], [by |-> {"reset"}, mode |-> "reset"],
    [by |-> {"type"}, mode |-> "type"], [by |-> {"goto"}, mode |-> "goto"],
    [by |-> {"exit"}, mode |-> "exit"], [by |-> {"level"}, mode |-> "level"],
    [by |-> {"nvm"}, mode |-> "nvm"], [by |-> {"echo"}, mode |-> "echo"],
    [by |-> {"date"}, mode |-> "date"]>>

Holding == {i \in DOMAIN ModeOrder : \E o \in ModeOrder[i].by : Given(o)}

Chosen ==
  IF Given("info") THEN "info"
  ELSE IF Holding = {} THEN "online"
  ELSE ModeOrder[CHOOSE i \in Holding : \A j \in Holding : j <= i].mode

Check ==
  /\ stage = "check"
  /\ IF (Given("write") /\ Given("read")) \/ (Pair /\ PairBad) \/ (Given("date") /\ DateBad)
     THEN stage' = "help" /\ UNCHANGED config
     ELSE /\ stage' = "init"
          /\ mode' = Chosen
          /\ reg_cnt' = IF ~Pair THEN 0 ELSE IF Counted THEN out[2].int % U16 ELSE out[2].bytes
          /\ data' = IF Given("date") THEN DateBytes
                     ELSE IF Pair /\ ~Counted THEN out[2].bytes ELSE 0
  /\ UNCHANGED <<argv, out, optvalue, val, access, line>>

-----------------------------------------------------------------------------
(* main: RVMcu_Init may fail (module SpiLifecycle); run.                   *)
InitBus == stage = "init" /\ (Exit("run") \/ Exit("no bus"))

Wanted == IF Given("test") THEN val["test"] ELSE 1

(* fun_wr and _run_test: the test counts failures and returns 0.           *)
Access ==
  /\ stage = "run" /\ mode = "rw"
  /\ \E ok \in BOOLEAN :
       /\ tried' = tried + 1
       /\ failed' = IF ok THEN failed ELSE failed + 1
       /\ result' = IF ok \/ Given("test") THEN 0 ELSE -1
  /\ stage' = IF tried' = Wanted THEN "done" ELSE "run"
  /\ UNCHANGED <<argv, out, optvalue, val, config, line>>

(* The other modes return from their functions.                            *)
Other == stage = "run" /\ mode # "rw" /\ Exit("done")

CliNext ==
  \/ ParseEnd \/ ParseWord \/ ParseRest \/ ParseExit \/ ParseFlags \/ ParseValue
  \/ Check \/ InitBus \/ Access \/ Other

CliSpec == CliInit /\ [][CliNext]_cliVars

-----------------------------------------------------------------------------
(* A flag counts, and is far from any limit; the other variables of the    *)
(* options have 32 bits, and the level a sign.                             *)
ValTypeOK(o) ==
  IF o \in Flag THEN val[o] \in Nat
  ELSE IF o = "level" THEN val[o] \in (-(U32 \div 2)) .. U32 - 1 - U32 \div 2
  ELSE val[o] \in 0 .. U32 - 1

(* What was parsed is of its type, and what runs has arguments that fit    *)
(* the 16 bits of reg_cnt and wr_buf.                                      *)
CliTypeOK ==
  /\ stage \in {"parse", "check", "init", "run", "done", "help", "error", "no bus"}
  /\ argv \in Seq(Token) /\ out \in Seq(Word) /\ optvalue \in Word \cup {NoWord}
  /\ DOMAIN val = Option /\ \A o \in Option : ValTypeOK(o)
  /\ mode \in {"online", "info"} \cup {ModeOrder[i].mode : i \in DOMAIN ModeOrder}
  /\ reg_cnt \in 0 .. U16 - 1 /\ data \in 0 .. Greater(WrBufMax, DateBytes)
  /\ tried \in Nat /\ failed \in 0 .. tried /\ result \in {0, -1}
  /\ typed \subseteq Option /\ valued \in BOOLEAN

OfMode(m) == IF m = "info" THEN {"info"}
             ELSE UNION {ModeOrder[i].by : i \in {j \in DOMAIN ModeOrder : ModeOrder[j].mode = m}}

(* No mirror type, level, fault, command or count has this value.          *)
Meaningless ==
  [type |-> U32 - 1, level |-> -1, set |-> 0, clean |-> 0, nvm |-> 0, test |-> 0]

(* The mode that runs was asked for: one of its options was typed.  Only   *)
(* without any, or with a value without a meaning, the program falls back  *)
(* to feeding the watchdog for ever (main.c:128-149).                      *)
AskedModeRuns ==
  stage \in {"run", "done"} =>
    IF mode = "online"
      THEN \A o \in typed \ {"asc", "test"} : o \in Number /\ val[o] = Meaningless[o]
      ELSE OfMode(mode) \cap typed # {}

(* The register mode has its count, also when several modes are asked for: *)
(* a read or a test one within the limit of main.c:68, the number typed if *)
(* it has 16 bits (a larger one is cut before it is looked at, main.c:67,  *)
(* and may be within the limit then); else as many as the bytes typed, of  *)
(* which RoomForCrc speaks.  The date has its bytes.  A test of no rounds  *)
(* is none: the same words are data then (main.c:66).                      *)
RunHasArguments ==
  stage \in {"run", "done"} =>
    /\ mode = "rw" /\ ("read" \in typed \/ val["test"] # 0) =>
         /\ reg_cnt \in 1 .. WrBufMax - 2
         /\ out[2].int \in 0 .. U16 - 1 => reg_cnt = out[2].int
    /\ mode = "rw" /\ "read" \notin typed /\ val["test"] = 0 => reg_cnt = data
    /\ mode = "date" => data = DateBytes /\ typed \cap {"write", "read", "send"} = {}

(* What the register mode writes is at most WR_BUF_MAX - 2 bytes, as the   *)
(* text at main.c:77 says: SpiReg_Write puts the two bytes of the CRC      *)
(* behind them in a buffer of WR_BUF_MAX bytes (spi_reg.c:204-213,         *)
(* spi_reg.h:15).  The check at main.c:74 lets in WR_BUF_MAX.              *)
RoomForCrc == stage \in {"run", "done"} /\ mode = "rw" => reg_cnt <= WrBufMax - 2

(* An option gets the value typed with it: in its token, else the next     *)
(* argument (argparse.h:101, "current option value").  Only after a flag   *)
(* with a value, which is kept for it, it may not (argparse.c:192).        *)
OwnValue ==
  [][\A o \in Number :
       argv # <<>> /\ Head(argv).opts # <<>> /\ Last(Head(argv).opts) = o /\ stage' = "parse" /\ ~valued =>
         \/ Head(argv).word # NoWord /\ val'[o] = Stored(o, Head(argv).word)
         \/ /\ Head(argv).word = NoWord /\ Len(argv) > 1
            /\ val'[o] = Stored(o, AsWord(argv[2]))]_cliVars
=============================================================================
