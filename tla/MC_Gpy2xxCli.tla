------------------------------ MODULE MC_Gpy2xxCli ------------------------------
(* Command lines for model checking gpy2xx_cli's dispatch.                 *)
EXTENDS Gpy2xxCli, FiniteSets

Words(names) == {names[i] : i \in 1..Len(names)}

\* argv[1] spellings: the phyId argument, in two cases, a wrong word and
\* none at all (argc 1, the empty line).
MC_Argv1 == {"phyId=0", "PHYID=5", "phy"}

\* Every name of gpy211_main, the tool commands in other cases, an unknown
\* word and a missing one, after a valid phyId; every name of
\* gpy2xx_msec_main after "msec"; and an unknown command after each argv[1].
MC_Lines ==
  {<<"phyId=0", w>> :
     w \in Words(Gpy211Names) \cup {"HELP", "random", "ResetRD", "bogus"}}
  \cup {<<"phyId=0">>}
  \cup {<<"phyId=0", "msec", w>> : w \in Words(MsecNames) \cup {"bogus"}}
  \cup {<<"phyId=0", "msec">>}
  \cup {<<a, "bogus">> : a \in MC_Argv1} \cup {<<>>}

\* Each command of ArgBranches that has usage text, with up to three of its
\* documented parameters given, each as a hex number wider than a byte, as
\* a boolean word, or as a value word its help text offers; the others
\* missing.
MC_ArgValues == {"0x12c", "TRUE"}

Values(c, q) == MC_ArgValues \cup DocumentedWords(c, q)

MC_ArgLines ==
  UNION {UNION {{<<"phyId=0", c>> \o SetToSeq({q \o "=" \o v[q] : q \in S}) :
                   v \in {v \in [S -> UNION {Values(c, q) : q \in S}] : \A q \in S : v[q] \in Values(c, q)}} :
                S \in {S \in SUBSET DOMAIN Usage[c] : Cardinality(S) <= 3}} :
         c \in DOMAIN Usage}

\* gpy2xx_init succeeding, or failing with -1.
MC_InitResults == {0, -1}

====
