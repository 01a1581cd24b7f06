----------------------------- MODULE OptLoader -----------------------------
(***************************************************************************)
(* opt_loader (opt_loader.h/.cpp): the options of a program, registered    *)
(* one by one, are loaded from argv into a struct of the program and saved *)
(* from it as lines "key=value".                                           *)
(*                                                                         *)
(* A word of argv, and a value in a line, is a tuple: its kind and its     *)
(* contents.  The kinds are numerals ("num", an integer), hexadecimal ones *)
(* ("hex"), fractions ("dec", in units of 1/Unit), addresses ("quad", four *)
(* numbers), the words that mean false ("false"), option keys ("key") and  *)
(* any other text ("str").  A byte has UnitBits bits, 8 in the code.       *)
(***************************************************************************)
EXTENDS Integers, Sequences, FiniteSets, SequencesExt

CONSTANTS
  OptDefs,    (* the meta_opts: key, none, kind, size, addr, default       *)
  Argvs,      (* the command lines, the program's name included            *)
  Sizes,      (* the sizes of the struct that load() and save() are told   *)
  Changes,    (* <<addr, value>>: what the program may put into its struct *)
  UnitBits, Unit,
  Shown,      (* what a stream shows of a fraction is a multiple of this   *)
  MaxOpts     (* bound: the options registered                             *)

ASSUME OptAssumption ==
  /\ {UnitBits, Unit, Shown} \subseteq Nat \ {0}
  /\ \A o \in OptDefs : o.key # <<>> /\ (o.default = <<>> => o.kind = "bool")
  /\ \A args \in Argvs : args \in Seq(Range(args) \ {<<>>})

VARIABLES
  opts,      (* mMetaOptSet                                                *)
  mem,       (* the struct: what is at the address of every option         *)
  call,      (* the call that runs, "load" or "save", or none              *)
  argv, bufSize, i, err,  (* its arguments and its variables               *)
  lines,     (* what save() has written                                    *)
  before     (* history: the struct when the last call began               *)

optVars == <<opts, mem, call, argv, bufSize, i, err, lines, before>>

NoWord == <<>>
EINVAL == -22
IntSizes == {1, 2, 4, 8}
FloatSizes == {4, 8}     (* float, double *)
StrSizes == {8, 16, 32}  (* char *, str_val, std::string *)

-----------------------------------------------------------------------------
(***************************************************************************)
(* opt_parser.                                                             *)
(***************************************************************************)
Find(option) == SelectInSeq(argv, LAMBDA w : w = option)

isOptExisted(option) == IF Find(option) = 0 THEN NoWord ELSE option

(* Mutant: an option is no value. *)
getOpt_NoKey(option) ==
  LET k == Find(option)
  IN  IF k \in 1..Len(argv) - 1 /\ argv[k + 1][1] # "key" THEN argv[k + 1] ELSE NoWord

(* The word behind the first one that equals the key, whatever it is. *)
getOpt(option) ==
  LET k == Find(option)
  IN  IF k \in 1..Len(argv) - 1 THEN argv[k + 1] ELSE NoWord

-----------------------------------------------------------------------------
(***************************************************************************)
(* The loaders.  The library's conversions read the front of a text.       *)
(***************************************************************************)
Atoi(w) ==
  CASE w[1] = "num" -> w[2]
    [] w[1] = "dec" -> w[2] \div Unit
    [] w[1] = "quad" -> w[2][1]
    [] OTHER -> 0

Atof(w) ==
  CASE w[1] \in {"num", "hex"} -> w[2] * Unit
    [] w[1] = "dec" -> w[2]
    [] w[1] = "quad" -> w[2][1] * Unit + w[2][2]
    [] OTHER -> 0

Unsigned(v, size) == v % 2^(size * UnitBits)
Signed(v, size) == IF 2 * v < 2^(size * UnitBits) THEN v ELSE v - 2^(size * UnitBits)

Bit(v, k) == (v \div 2^k) % 2

BoolLoaded(w) == w # NoWord /\ w[1] # "false" /\ w # <<"num", 0>>

(* The numbers of an address are joined with |: those above a byte run     *)
(* into their neighbours.                                                  *)
Ipv4(q) ==
  LET Shift(k) == (4 - k) * UnitBits
      Set == {b \in 0..4 * UnitBits - 1 :
                \E k \in 1..4 : b >= Shift(k) /\ Bit(q[k], b - Shift(k)) = 1}
  IN  FoldSet(LAMBDA b, sum : sum + 2^b, 0, Set)

Quad(v) == [k \in 1..4 |-> (v \div 2^((4 - k) * UnitBits)) % 2^UnitBits]

(* What load() returns for a word: an error, or what it stores. *)
Accepts(o, w) ==
  CASE o.kind = "bool" -> TRUE
    [] o.kind = "int" -> o.size \in IntSizes
    [] o.kind = "float" -> o.size \in FloatSizes
    [] o.kind = "ipv4" -> o.size = 4 /\ w[1] = "quad"
    [] o.kind = "str" -> o.size \in StrSizes

Loaded(o, w) ==
  CASE o.kind = "bool" -> BoolLoaded(w)
    [] o.kind = "int" -> Unsigned(Atoi(w), o.size)
    [] o.kind = "float" -> Atof(w)
    [] o.kind = "ipv4" -> Ipv4(w[2])
    [] o.kind = "str" -> w

Rounded(v) == ((v + Shown \div 2) \div Shown) * Shown

(* Mutant: the numbers of 32 bits are not cast to int, those of 16 are. *)
IntText_Cast16(v, size) ==
  CASE size \in {1, 4} -> <<"num", v>>
    [] size = 2 -> <<"num", Signed(v, 1)>>
    [] size = 8 -> IF v = 0 THEN <<"num", 0>> ELSE <<"hex", v>>

(* The numbers of 32 bits are shown as int, those of 64 in hexadecimal. *)
IntText(v, size) ==
  CASE size \in {1, 2} -> <<"num", v>>
    [] size = 4 -> <<"num", Signed(v, 4)>>
    [] size = 8 -> IF v = 0 THEN <<"num", 0>> ELSE <<"hex", v>>

BoolText(v) == <<"num", IF v THEN 1 ELSE 0>>

Saved(o, v) ==
  CASE o.kind = "bool" -> BoolText(v)
    [] o.kind = "int" -> IntText(v, o.size)
    [] o.kind = "float" -> <<"dec", Rounded(v)>>
    [] o.kind = "ipv4" -> <<"quad", Quad(v)>>
    [] o.kind = "str" -> v

Saves(o) ==
  CASE o.kind = "bool" -> TRUE
    [] o.kind = "int" -> o.size \in IntSizes
    [] o.kind = "float" -> o.size \in FloatSizes
    [] o.kind = "ipv4" -> o.size = 4
    [] o.kind = "str" -> o.size \in StrSizes

-----------------------------------------------------------------------------
(***************************************************************************)
(* opt_loader.  load() and save() go through the options in the order they *)
(* were registered in; at the first that lies behind the end of the struct *)
(* they end, with the result of the option before, which is no error.      *)
(***************************************************************************)
regMetaOpt(o) ==
  /\ call = "none" /\ Len(opts) < MaxOpts
  /\ opts' = Append(opts, o)
  /\ UNCHANGED <<mem, call, argv, bufSize, i, err, lines, before>>

(* The program itself. *)
Change(addr, v) ==
  /\ call = "none"
  /\ mem' = [mem EXCEPT ![addr] = v]
  /\ UNCHANGED <<opts, call, argv, bufSize, i, err, lines, before>>

Start(what, args, size) ==
  /\ call = "none" /\ opts # <<>>
  /\ call' = what
  /\ argv' = args
  /\ bufSize' = size
  /\ i' = 1
  /\ err' = 0
  /\ lines' = <<>>
  /\ before' = mem
  /\ UNCHANGED <<opts, mem>>

InBuf(o) == o.addr + o.size <= bufSize

OptVal(o) ==
  LET w == IF o.none THEN isOptExisted(o.key) ELSE getOpt(o.key)
  IN  IF w # NoWord THEN w ELSE o.default

Running(what) == call = what /\ i \in DOMAIN opts /\ InBuf(opts[i])

LoadOpt ==
  /\ Running("load")
  /\ LET o == opts[i]
         w == OptVal(o)
     IN  \/ /\ Accepts(o, w)
            /\ mem' = [mem EXCEPT ![o.addr] = Loaded(o, w)]
            /\ i' = i + 1
            /\ UNCHANGED <<call, err>>
         \/ /\ ~Accepts(o, w)
            /\ err' = EINVAL
            /\ call' = "loaded"
            /\ UNCHANGED <<mem, i>>
  /\ UNCHANGED <<opts, argv, bufSize, lines, before>>

SaveOpt ==
  /\ Running("save")
  /\ LET o == opts[i]
     IN  \/ /\ Saves(o)
            /\ lines' = Append(lines, <<o.key, Saved(o, mem[o.addr])>>)
            /\ i' = i + 1
            /\ UNCHANGED <<call, err>>
         \/ /\ ~Saves(o)
            /\ err' = EINVAL
            /\ call' = "saved"
            /\ UNCHANGED <<lines, i>>
  /\ UNCHANGED <<opts, mem, argv, bufSize, before>>

LoopEnds ==
  /\ call \in {"load", "save"} /\ ~Running(call)
  /\ call' = IF call = "load" THEN "loaded" ELSE "saved"
  /\ UNCHANGED <<opts, mem, argv, bufSize, i, err, lines, before>>

Return ==
  /\ call \in {"loaded", "saved"}
  /\ call' = "none" /\ argv' = <<>> /\ bufSize' = 0 /\ i' = 0 /\ err' = 0
  /\ lines' = <<>> /\ before' = mem
  /\ UNCHANGED <<opts, mem>>

Blank(addr) ==
  LET o == CHOOSE d \in OptDefs : d.addr = addr
  IN  CASE o.kind = "bool" -> FALSE
        [] o.kind = "str" -> <<"str", "">>
        [] OTHER -> 0

OptInit ==
  /\ opts = <<>>
  /\ mem = [a \in {o.addr : o \in OptDefs} |-> Blank(a)]
  /\ call = "none" /\ argv = <<>> /\ bufSize = 0 /\ i = 0 /\ err = 0
  /\ lines = <<>> /\ before = mem

OptNext ==
  \/ \E o \in OptDefs : regMetaOpt(o)
  \/ \E c \in Changes : Change(c[1], c[2])
  \/ \E args \in Argvs, size \in Sizes : Start("load", args, size)
  \/ \E size \in Sizes : Start("save", <<>>, size)
  \/ LoadOpt
  \/ SaveOpt
  \/ LoopEnds
  \/ Return

OptSpec == OptInit /\ [][OptNext]_optVars

-----------------------------------------------------------------------------
(***************************************************************************)
(* Properties.                                                             *)
(***************************************************************************)
(* The options that end within the struct, in front of all others. *)
Reach == {k \in DOMAIN opts : \A j \in 1..k : opts[j].addr + opts[j].size <= bufSize}

(* The word an option gets from the command line, said without a search. *)
Meant(o) ==
  LET given == {k \in DOMAIN argv : argv[k] = o.key /\ \A j \in 1..k - 1 : argv[j] # o.key}
  IN  IF o.none THEN IF given # {} THEN o.key ELSE o.default
      ELSE IF \E k \in given : k < Len(argv)
           THEN argv[1 + CHOOSE k \in given : TRUE] ELSE o.default

(* A load() that returns has written a front part of the options, each     *)
(* from the word behind the first appearance of its key or from its        *)
(* default, the later of two options at one address last, and nothing else *)
(* of the struct; it ends early at an option outside of the struct, with   *)
(* 0, or at a word it cannot use, with an error (opt_loader.h,             *)
(* opt_loader::load and opt_parser).                                       *)
LoadsPrefix ==
  call = "loaded" =>
    LET bad == {k \in Reach : ~Accepts(opts[k], Meant(opts[k]))}
        done == {k \in Reach : \A j \in bad : k < j}
    IN  /\ \A a \in DOMAIN mem :
             LET writers == {k \in done : opts[k].addr = a}
             IN  IF writers = {} THEN mem[a] = before[a]
                 ELSE \E k \in writers :
                        /\ \A j \in writers : j <= k
                        /\ mem[a] = Loaded(opts[k], Meant(opts[k]))
        /\ (err < 0) = (bad # {})

(* A save() that returns has written a line for each of a front part of    *)
(* the options, and the loader of an option reads its value back from the  *)
(* line: a fraction as far as it is shown, a number of 64 bits only if it  *)
(* is 0 (opt_loader.h, opt_loader::save; opt_loader.cpp, the loaders).     *)
SavesBack ==
  call = "saved" =>
    /\ mem = before
    /\ (err < 0) = (\E k \in Reach : ~Saves(opts[k]))
    /\ DOMAIN lines = {k \in Reach : \A j \in 1..k : Saves(opts[j])}
    /\ \A k \in DOMAIN lines :
         LET o == opts[k]
             read == Loaded(o, lines[k][2])
         IN  /\ lines[k][1] = o.key
             /\ Accepts(o, lines[k][2])
             /\ CASE o.kind = "float" -> 2 * (read - mem[o.addr]) \in -Shown..Shown
                  [] o.kind = "int" /\ o.size = 8 -> (read = mem[o.addr]) = (mem[o.addr] = 0)
                  [] OTHER -> read = mem[o.addr]
=============================================================================
