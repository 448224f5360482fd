------------------------------ MODULE MC_SgamCli ------------------------------
(* Command lines for model checking sgam_cli.  Tok(o, n, u) is a getopt    *)
(* result: option o with an argument reading as number n and ending in (or *)
(* classed as) u.                                                           *)
EXTENDS SgamCli

Tok(o, n, u) == [opt |-> o, arg |-> [num |-> n, unit |-> u]]

Name      == Tok("n", 0, "meter1")
Mode      == Tok("m", 0, "trtcm_ca")
Cir2k     == Tok("c", 2, "k")
Pir1m     == Tok("p", 1, "m")
Cbs1k     == Tok("C", 1, "k")
Pbs900    == Tok("P", 900, "d")
Group1    == Tok("g", 1, "digits")
LongName  == Tok("n", 0, "long")

\* The six options addmeter requires, each with a valid argument.
MC_Valid == {Name, Mode, Cir2k, Pir1m, Cbs1k, Pbs900}

\* Six options, -p missing and -n given twice.
MC_Duplicate == {Name, Mode, Cir2k, Cbs1k, Pbs900}

\* Seven options.
MC_Seven == {Name}

\* The valid options with a CIR of exactly MAX_RATE_K Kbps (a negative
\* one wraps above every limit and is rejected the same way), an
\* out-of-range DSCP value, a help request, an option missing its
\* argument, a group number and a name longer than MAX_LABEL_LEN.
MC_Mixed == MC_Valid \cup {Tok("c", MAX_RATE_K, "k"), Tok("R", 64, "digits"), Tok("h", 0, ""),
                           Tok(":", 0, ""), Group1, LongName}

MC_AllCommands == CmdNames \cup {"unknown"}

\* Line lengths: addmeter's six required options; one more than each
\* other command needs, so a repeated or rejected option can come first.
MC_Lines == [c \in MC_AllCommands |->
               CASE c = "addmeter" -> {6} [] c = "addacct" -> {2, 3}
                 [] c \in ListCmds -> {0} [] OTHER -> {1, 2}]
MC_Six   == [c \in {"addmeter"} |-> {6}]
MC_SevenLen == [c \in {"addmeter"} |-> {7}]

=============================================================================
