-------------------------- MODULE MC_SeccryptoRepl --------------------------
(* Input lines for model checking the seccrypto client.  O(o, v) is one    *)
(* option with the value strtoul reads from its argument (1 for a name or  *)
(* a file name, 0 for an option without argument); L(c, os) is a line.    *)
EXTENDS SeccryptoRepl

O(o, v) == [o |-> o, v |-> v]
L(c, os) == [cmd |-> c, opts |-> os]

K == O("k", 0)
I == O("i", 0)
Out == O("o", 0)
Name == O("n", 1)
Cfg == O("c", 1)
File == O("f", 1)
Str == O("s", 1)
Tee == O("t", 0)

\* Lines that are not commands.
Other == {L("quit", <<>>), L("help", <<>>), L("blank", <<>>), L("bogus", <<>>)}

\* Each command with its options once in a valid form (within ten tokens),
\* every kind of key and input source, and lines each parser refuses.
MC_Commands ==
  { L("gen", <<O("a", 3), O("o", 0), Name, Cfg>>), L("gen", <<O("a", 3)>>), L("gen", <<>>),
    L("load", <<O("a", 5), O("o", 1), Name, Cfg>>), L("load", <<O("a", 0), O("o", 2), Name, Cfg>>),
    L("sign", <<O("a", 3), O("o", 1), O("i", 1), O("s", 1)>>), L("sign", <<O("a", 7), O("i", 1)>>),
    L("verify", <<O("a", 3), O("o", 1), O("i", 1), O("s", 1)>>), L("verify", <<O("x", 0)>>),
    L("wrap", <<K, File, I, Str, O("o", 1)>>), L("wrap", <<K, Tee, I, Name, Cfg>>),
    L("wrap", <<K, File>>), L("wrap", <<Str, File>>),
    L("unwrap", <<K, Name, Cfg, I, File>>), L("unwrap", <<K, Tee, I, Str, Out, Tee>>),
    L("unwrap", <<Out, Name, Cfg, K, Str, I, Str>>), L("unwrap", <<Cfg>>),
    L("macgen", <<O("a", 0), K, File, I, File>>), L("macgen", <<K, O("t", 1), I, File>>),
    L("macgen", <<K, Name, Cfg, I, File>>), L("macgen", <<O("a", 9), I, File>>) }
  \cup Other
\* One line of each command that can leave a block live at the prompt.
MC_Leaks == {L("verify", <<O("a", 3), O("o", 1), O("i", 1), O("s", 1)>>),
             L("load", <<O("a", 5), O("o", 1), Name, Cfg>>),
             L("wrap", <<K, Str, I, Str>>), L("wrap", <<K, File, K, File>>)}

\* A verify with every option, then one that gives only the algorithm.
MC_Repeat == {L("verify", <<O("a", 3), O("o", 1), O("i", 1), O("s", 1)>>),
              L("verify", <<O("a", 3)>>)}
====
