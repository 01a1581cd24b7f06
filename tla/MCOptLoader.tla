---------------------------- MODULE MCOptLoader ----------------------------
(* Bytes of two bits; options of every kind, one of them with a size that  *)
(* its loader refuses; a key may be given as a value.                      *)
EXTENDS OptLoader

Opt(key, kind, size, addr, default) ==
  [key |-> <<"key", key>>, none |-> key = "-v", kind |-> kind, size |-> size,
   addr |-> addr, default |-> default]

AllOpts ==
  { Opt("-v", "bool", 1, 0, <<>>),
    Opt("-b", "bool", 1, 1, <<"false", "off">>),
    Opt("-t", "int", 2, 2, <<"num", 1>>),
    Opt("-a", "int", 4, 4, <<"num", -3>>),
    Opt("-l", "int", 8, 8, <<"num", 7>>),
    Opt("-x", "int", 3, 16, <<"num", 7>>),
    Opt("-f", "float", 4, 20, <<"dec", 15>>),
    Opt("-i", "ipv4", 4, 24, <<"quad", <<1, 0, 2, 3>>>>),
    Opt("-u", "str", 32, 32, <<"str", "usr">>) }

Prog == <<"str", "prog">>
Given == {<<"num", 300>>, <<"quad", <<1, 5, 0, 1>>>>, <<"false", "no">>}
Keys == {o.key : o \in AllOpts}
AllArgvs ==
  {<<Prog>>, <<Prog, <<"key", "-v">>>>, <<Prog, <<"key", "-a">>>>} \cup
  {<<Prog, k, w>> : k \in Keys, w \in Given} \cup
  {<<Prog, <<"key", "-u">>, <<"key", "-t">>, w>> : w \in Given}

AllChanges == {<<4, 200>>, <<24, 201>>, <<20, 13>>}
AllSizes == {26, 64}
=============================================================================
