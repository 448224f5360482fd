-------------------------------- MODULE SgamCli --------------------------------
(***************************************************************************)
(* One run of "sgam_cli <command> ..." (src/sgam/src/sgam_cli.c): main,    *)
(* sgam_parse_cmd_line with the command table g_sgam_cmd, the getopt loop  *)
(* of sgam_parse_cmd that fills the SGAM_MAX_CMD_OPTS-entry option array,  *)
(* the eight parse_options handlers (the add parsers with their setters,   *)
(* the show parsers, parse_del_cmd, parse_list_cmd), and the do_command    *)
(* handlers: the single ioctl of sgam_generic_do_cmd and the count-then-   *)
(* fetch pair of sgam_list_do_cmd.                                         *)
(*                                                                         *)
(* The command line is the command word and the sequence of getopt         *)
(* results; each step of the getopt loop picks the next one from Tokens.   *)
(* An option argument is a record [num, unit]: the number atol/atoi would  *)
(* read and a tag for the rest of the string (its last character, or the   *)
(* name/mode/DSCP class).                                                  *)
(***************************************************************************)
EXTENDS Integers, FiniteSets

CONSTANTS
  Commands,      \* command words av[1] can be
  Tokens,        \* getopt results a command line can produce
  ArgvLens,      \* [command -> numbers of getopt results before -1]
  CallocCanFail, \* TRUE: calloc/malloc may return NULL
  IoctlResults,  \* what the kernel module's ioctls can return
  Counts         \* entry counts SGAM_GET_COUNT_CMD can report

SGAM_MAX_CMD_OPTS == 7
MAX_RATE_M  == 10000                    \* Mbps
MAX_RATE_K  == MAX_RATE_M * 1000        \* Kbps
MAX_BURST_K == 4194303                  \* UINT_MAX / 1024
MAX_DSCP    == 64

(* enum sgam_cli_err_types *)
SGAM_CMD_OK        == 0
SGAM_CMD_HELP      == 1
SGAM_CMD_NOT_AVAIL == 3
SGAM_CMD_ERR       == 4

(* g_sgam_cmd: the command names and, from their short_opts strings, the   *)
(* option letters each one's getopt accepts ('-', ':' and 'h' aside).      *)
CmdNames == {"addacct", "showacct", "listacct", "delacct",
             "addmeter", "showmeter", "listmeter", "delmeter"}
ListCmds == {"listacct", "listmeter"}
ShowCmds == {"showacct", "showmeter"}
DelCmds  == {"delacct", "delmeter"}
OptLetters == {"n", "m", "c", "p", "C", "P", "R"}
ShortOpts(c) == CASE c = "addmeter" -> OptLetters
                  [] c = "addacct"  -> {"g", "n"}
                  [] c \in ListCmds -> {}
                  [] OTHER          -> {"n"}
AllLetters == OptLetters \cup {"g"}
DbFlag(c) == IF c \in {"listacct", "delacct"} THEN "acct" ELSE "meter"

(* The options each command's usage line requires. *)
Required(c) == CASE c = "addmeter" -> OptLetters \ {"R"}
                 [] c = "addacct"  -> {"g", "n"}
                 [] c \in ListCmds -> {}
                 [] OTHER          -> {"n"}
MeterModes == {"trtcm_ca", "trtcm_cb", "dtrtcm_ca", "dtrtcm_cb"}
NoOpt == [opt |-> "none", arg |-> [num |-> 0, unit |-> ""]]  \* a calloc'ed entry

ASSUME /\ \A t \in Tokens : t.opt \in AllLetters \cup {"h", "?", ":", "nonopt"}
       /\ Commands \subseteq CmdNames \cup {"unknown"}
       /\ ArgvLens \in [Commands -> SUBSET (0 .. SGAM_MAX_CMD_OPTS)]
       /\ CallocCanFail \in BOOLEAN
       /\ IoctlResults \subseteq Nat /\ Counts \subseteq Nat

VARIABLES
  pc,        \* "main", "getopt", "parse", "check", "cleanup", "do", "fetch", "free", "exit"
  cmd,       \* the command get_sgam_cmd found, "unknown" if none
  popts,     \* [0..SGAM_MAX_CMD_OPTS-1 -> option]: the calloc'ed option array
  nopts,     \* num_opts: entries the getopt loop has filled
  k,         \* index of the entry the parser reads next
  ret,       \* the ret of the function running
  pdata,     \* TRUE: *pdata points at the command's allocated info
  info,      \* the struct *pdata points at (all its fields in one record)
  argCount,  \* arg_count
  live,      \* allocations not yet freed: subset of {"popts", "data", "list"}
  doubleFree, \* a free of an object already freed
  oob,       \* an entry read beyond the option array
  bad,       \* an option the parser rejected
  given,     \* option letters whose setter accepted its argument
  sent,      \* the ioctl requests issued: [ioctl, info]
  acked,     \* the last ioctl issued returned 0
  exitCode   \* main's return value

vars == <<pc, cmd, popts, nopts, k, ret, pdata, info, argCount, live, doubleFree,
          oob, bad, given, sent, acked, exitCode>>

(* A calloc'ed sgam_meter_info / sgam_acct_info / sgam_del_info /          *)
(* sgam_count_info: every field zero.                                      *)
Calloced == [name |-> "", mtr_type |-> "none", cir |-> 0, pir |-> 0, cbs |-> 0,
             pbs |-> 0, remark_dscp |-> 0, sgc_grp |-> 0, db_flag |-> "none",
             count |-> 0]

Free(objs) ==
  /\ live' = live \ objs
  /\ doubleFree' = (doubleFree \/ ~(objs \subseteq live))

(***************************************************************************)
(* The option setters: each returns [ret, val], val the converted field.   *)
(***************************************************************************)
sgam_copy_label(a) ==
  IF a.unit = "long" THEN [ret |-> SGAM_CMD_ERR, val |-> ""]   \* > MAX_LABEL_LEN
                     ELSE [ret |-> SGAM_CMD_OK, val |-> a.unit]

set_meter_mode(a) ==
  IF a.unit \in MeterModes THEN [ret |-> SGAM_CMD_OK, val |-> a.unit]
                           ELSE [ret |-> SGAM_CMD_HELP, val |-> "none"]

(* An unsigned int is kept as its two's-complement representative in      *)
(* -2^31 .. 2^31-1; U32Less compares two of them as unsigned values.       *)
U32Less(a, b) == IF (a < 0) = (b < 0) THEN a < b ELSE a >= 0

(* The unsigned long long atol's result is stored in: a negative n is     *)
(* 2^64 + n, above every limit, so "tmp_rate <= 0" only excludes 0.       *)
U64Less(n, limit) == n >= 0 /\ n < limit

\* Mutant: the upper range checks written as "tmp_rate > MAX_RATE_K/M".
set_meter_cir_pir_atlimit(a) ==
  LET r == a.num IN
  CASE a.unit = "" -> [ret |-> SGAM_CMD_ERR, val |-> 0]
    [] a.unit \in {"k", "K"} /\ r # 0 /\ U64Less(r, MAX_RATE_K + 1) -> [ret |-> SGAM_CMD_OK, val |-> r * 125]
    [] a.unit \in {"m", "M"} /\ r # 0 /\ U64Less(r, MAX_RATE_M + 1) -> [ret |-> SGAM_CMD_OK, val |-> r * 125000]
    [] OTHER -> [ret |-> SGAM_CMD_ERR, val |-> 0]

(* atol into an unsigned long long; k/K is Kbps, m/M Mbps; the result in  *)
(* bytes/sec.                                                              *)
set_meter_cir_pir(a) ==
  LET r == a.num IN
  CASE a.unit = "" -> [ret |-> SGAM_CMD_ERR, val |-> 0]
    [] a.unit \in {"k", "K"} /\ r # 0 /\ U64Less(r, MAX_RATE_K) -> [ret |-> SGAM_CMD_OK, val |-> r * 125]
    [] a.unit \in {"m", "M"} /\ r # 0 /\ U64Less(r, MAX_RATE_M) -> [ret |-> SGAM_CMD_OK, val |-> r * 125000]
    [] OTHER -> [ret |-> SGAM_CMD_ERR, val |-> 0]

(* atoi into an unsigned int; a last char k/K means KB, a digit bytes.     *)
(* In KB a negative number wraps above MAX_BURST_K; in bytes only -1 wraps *)
(* to UINT_MAX, so any other negative number is taken as 2^32 + n bytes.   *)
set_meter_cbs_pbs(a) ==
  LET s   == a.num
      mul == CASE a.unit \in {"k", "K"} -> 1024 [] a.unit = "d" -> 1 [] OTHER -> -1
  IN CASE a.unit = "" \/ mul = -1 -> [ret |-> SGAM_CMD_ERR, val |-> 0]
       [] mul = 1024 /\ ~(s > 0 /\ s < MAX_BURST_K) -> [ret |-> SGAM_CMD_ERR, val |-> 0]
       [] mul = 1 /\ s \in {0, -1} -> [ret |-> SGAM_CMD_ERR, val |-> 0]
       [] OTHER -> [ret |-> SGAM_CMD_OK, val |-> s * mul]

set_dscp_remarking(a) ==
  IF a.unit = "digits" /\ a.num < MAX_DSCP THEN [ret |-> SGAM_CMD_OK, val |-> a.num]
                                           ELSE [ret |-> SGAM_CMD_ERR, val |-> 0]

(* The switch of the parsers: a letter of the command's own options goes  *)
(* to its setter (-g is atoi, which accepts anything); any other entry     *)
(* (':' for a missing argument, a word past the array) is default:.        *)
Setter(c, o) ==
  CASE o.opt \notin ShortOpts(c) -> [ret |-> SGAM_CMD_ERR, val |-> 0]
    [] o.opt = "n" -> sgam_copy_label(o.arg)
    [] o.opt = "g" -> [ret |-> SGAM_CMD_OK, val |-> o.arg.num]
    [] o.opt = "m" -> set_meter_mode(o.arg)
    [] o.opt \in {"c", "p"} -> set_meter_cir_pir(o.arg)
    [] o.opt \in {"C", "P"} -> set_meter_cbs_pbs(o.arg)
    [] o.opt = "R" -> set_dscp_remarking(o.arg)

Field(opt) ==
  CASE opt = "n" -> "name" [] opt = "m" -> "mtr_type" [] opt = "c" -> "cir"
    [] opt = "p" -> "pir" [] opt = "C" -> "cbs" [] opt = "P" -> "pbs"
    [] opt = "R" -> "remark_dscp" [] opt = "g" -> "sgc_grp"

(***************************************************************************)
(* main: no command word prints the usage and returns 0; otherwise         *)
(* sgam_parse_cmd_line allocates the option array (calloc, zeroed) and     *)
(* looks the command up with get_sgam_cmd; an unknown word is an error.    *)
(***************************************************************************)
main ==
  /\ pc = "main"
  /\ \/ /\ pc' = "exit"                                   \* argc == 1
        /\ exitCode' = 0
        /\ UNCHANGED <<cmd, live, ret>>
     \/ /\ CallocCanFail                                  \* popts == NULL
        /\ pc' = "exit"
        /\ exitCode' = SGAM_CMD_NOT_AVAIL
        /\ UNCHANGED <<cmd, live, ret>>
     \/ /\ live' = {"popts"}
        /\ \E c \in Commands :                            \* get_sgam_cmd(av[1])
             /\ cmd' = c
             /\ pc' = IF c \in CmdNames THEN "getopt" ELSE "cleanup"
             /\ ret' = IF c \in CmdNames THEN SGAM_CMD_OK ELSE SGAM_CMD_ERR
        /\ UNCHANGED exitCode
  /\ UNCHANGED <<popts, nopts, k, pdata, info, argCount, doubleFree, oob, bad, given,
                 sent, acked>>

(***************************************************************************)
(* One iteration of the getopt loop of sgam_parse_cmd: at most            *)
(* SGAM_MAX_CMD_OPTS iterations; -1 ends it, a non-option, -h and '?' end  *)
(* it with a result, anything else (':' included) is stored.  getopt_long  *)
(* returns '?' for a letter not in the command's short_opts.  On leaving   *)
(* the loop sgam_parse_cmd_line calls parse_options on OK and turns ERR    *)
(* into HELP.                                                              *)
(***************************************************************************)
Getopt(c, t) ==
  IF \/ t.opt \in AllLetters \ ShortOpts(c)
     \/ t.opt = ":" /\ ShortOpts(c) = {}
  THEN "?" ELSE t.opt

EndGetopt(r) ==
  /\ ret' = IF r = SGAM_CMD_ERR THEN SGAM_CMD_HELP ELSE r
  /\ pc' = IF r = SGAM_CMD_OK THEN "parse" ELSE "cleanup"
  /\ UNCHANGED <<popts, nopts>>

sgam_parse_cmd ==
  /\ pc = "getopt"
  /\ \/ /\ nopts = SGAM_MAX_CMD_OPTS \/ nopts \in ArgvLens[cmd]  \* loop bound, or -1
        /\ EndGetopt(SGAM_CMD_OK)
     \/ /\ nopts < SGAM_MAX_CMD_OPTS /\ \E len \in ArgvLens[cmd] : nopts < len
        /\ \E t \in Tokens :
             CASE t.opt = "nonopt"     -> EndGetopt(SGAM_CMD_ERR)
               [] t.opt = "h"          -> EndGetopt(SGAM_CMD_HELP)
               [] Getopt(cmd, t) = "?" -> EndGetopt(SGAM_CMD_ERR)
               [] OTHER -> /\ popts' = [popts EXCEPT ![nopts] = t]
                           /\ nopts' = nopts + 1
                           /\ UNCHANGED <<pc, ret>>
  /\ UNCHANGED <<cmd, k, pdata, info, argCount, live, doubleFree, oob, bad, given,
                 sent, acked, exitCode>>

(***************************************************************************)
(* Every parse_options handler first callocs its info into *pdata.         *)
(* parse_list_cmd then only sets the database flag and returns OK without  *)
(* looking at the options; the other parsers walk the option array.        *)
(***************************************************************************)
AllocInfo ==
  /\ pc = "parse" /\ ~pdata
  /\ \/ /\ CallocCanFail
        /\ ret' = SGAM_CMD_ERR
        /\ pc' = "cleanup"
        /\ UNCHANGED <<live, pdata, info>>
     \/ /\ pdata' = TRUE
        /\ live' = live \cup {"data"}
        /\ IF cmd \in ListCmds
             THEN /\ info' = [info EXCEPT !.db_flag = DbFlag(cmd)]
                  /\ pc' = "cleanup"
             ELSE UNCHANGED <<pc, info>>
        /\ UNCHANGED ret
  /\ UNCHANGED <<cmd, popts, nopts, k, argCount, doubleFree, oob, bad, given, sent,
                 acked, exitCode>>

(* The entry at index i: reading past the array is undefined; the word    *)
(* there is the terminator or some other value, which the switch sends to  *)
(* default.  A word further on is taken as the terminator.                 *)
Entry(i) == CASE i < SGAM_MAX_CMD_OPTS  -> {popts[i]}
              [] i = SGAM_MAX_CMD_OPTS  -> {NoOpt, [NoOpt EXCEPT !.opt = "?"]}
              [] OTHER                  -> {NoOpt}

(* One iteration of while (popts->opt): the setter's result goes to ret    *)
(* and arg_count counts the command's own letters.  With stop, a rejected  *)
(* option returns at once (the add parsers, parse_del_cmd); without it the *)
(* loop goes on with the next entry (the show parsers).                    *)
ParseStep(stop) ==
  /\ pc = "parse" /\ pdata
  /\ oob' = (oob \/ k >= SGAM_MAX_CMD_OPTS)
  /\ \E o \in Entry(k) :
       IF o.opt = "none"
         THEN /\ pc' = "check"
              /\ UNCHANGED <<k, ret, info, argCount, bad, given>>
         ELSE LET s == Setter(cmd, o) IN
              /\ ret' = s.ret
              /\ argCount' = IF o.opt \in ShortOpts(cmd) THEN argCount + 1 ELSE argCount
              /\ IF s.ret = SGAM_CMD_OK
                   THEN /\ info' = [info EXCEPT ![Field(o.opt)] = s.val]
                        /\ given' = given \cup {o.opt}
                        /\ k' = k + 1
                        /\ UNCHANGED <<pc, bad>>
                   ELSE /\ bad' = TRUE
                        /\ UNCHANGED <<info, given>>
                        /\ IF stop THEN pc' = "cleanup" /\ UNCHANGED k
                                   ELSE k' = k + 1 /\ UNCHANGED pc
  /\ UNCHANGED <<cmd, popts, nopts, pdata, live, doubleFree, sent, acked, exitCode>>

\* Mutant: every parser goes on after a rejected option, as the show
\* parsers do; a later option overwrites ret.
ParseOption_noreturn == ParseStep(FALSE)

ParseOption == ParseStep(cmd \notin ShowCmds)

(* After the loop.  addmeter: fewer than 6 options is HELP; exactly 6      *)
(* leaves the DSCP remark unset; more compares PIR/PBS with CIR/CBS.       *)
(* addacct needs 2 options, the show and del parsers 1 (-n), else HELP;    *)
(* parse_del_cmd's callers then set the database flag on OK.               *)
MinArgs(c) == CASE c = "addmeter" -> 6 [] c = "addacct" -> 2 [] OTHER -> 1

CheckMeter ==
  CASE argCount < 6 -> ret' = SGAM_CMD_HELP /\ UNCHANGED info
    [] argCount = 6 -> info' = [info EXCEPT !.remark_dscp = MAX_DSCP] /\ UNCHANGED ret
    [] OTHER -> /\ ret' = IF info.pir < info.cir \/ U32Less(info.pbs, info.cbs)
                            THEN SGAM_CMD_ERR ELSE ret
                /\ UNCHANGED info

CheckCmd ==
  /\ pc = "check"
  /\ IF cmd = "addmeter" THEN CheckMeter
     ELSE /\ ret' = IF argCount < MinArgs(cmd) THEN SGAM_CMD_HELP ELSE ret
          /\ info' = IF cmd \in DelCmds /\ ret' = SGAM_CMD_OK
                       THEN [info EXCEPT !.db_flag = DbFlag(cmd)] ELSE info
  /\ pc' = "cleanup"
  /\ UNCHANGED <<cmd, popts, nopts, k, pdata, argCount, live, doubleFree, oob, bad,
                 given, sent, acked, exitCode>>

(***************************************************************************)
(* The tail of sgam_parse_cmd_line: free the option array; on an error     *)
(* free *data and set it to NULL.  main then runs the command on OK.       *)
(***************************************************************************)
\* Mutant: *data is freed on error but not set to NULL.
ParseCmdLineEnd_keepptr ==
  /\ pc = "cleanup"
  /\ LET dropData == ret # SGAM_CMD_OK /\ pdata IN
     /\ Free(IF dropData THEN {"popts", "data"} ELSE {"popts"})
     /\ UNCHANGED pdata
  /\ pc' = IF ret = SGAM_CMD_OK THEN "do" ELSE "free"
  /\ UNCHANGED <<cmd, popts, nopts, k, ret, info, argCount, oob, bad, given, sent,
                 acked, exitCode>>

ParseCmdLineEnd ==
  /\ pc = "cleanup"
  /\ LET dropData == ret # SGAM_CMD_OK /\ pdata IN
     /\ Free(IF dropData THEN {"popts", "data"} ELSE {"popts"})
     /\ pdata' = (pdata /\ ~dropData)
  /\ pc' = IF ret = SGAM_CMD_OK THEN "do" ELSE "free"
  /\ UNCHANGED <<cmd, popts, nopts, k, ret, info, argCount, oob, bad, given, sent,
                 acked, exitCode>>

(***************************************************************************)
(* sgam_do_ioctl_cmd(req): open the device (SGAM_CMD_ERR if that fails),   *)
(* else issue the ioctl and return its result, errno on failure.  NoDev    *)
(* stands for the failed open.                                             *)
(***************************************************************************)
NoDev == -1
Outcomes == {NoDev} \cup IoctlResults

sgam_do_ioctl_cmd(req, r) ==
  /\ sent' = IF r = NoDev THEN sent ELSE sent \cup {[ioctl |-> req, info |-> info]}
  /\ acked' = (r = SGAM_CMD_OK)

IoctlRet(r) == IF r = NoDev THEN SGAM_CMD_ERR ELSE r

(* sgam_generic_do_cmd: the command's own ioctl; its result is main's.     *)
sgam_generic_do_cmd ==
  /\ pc = "do" /\ cmd \notin ListCmds
  /\ \E r \in Outcomes : sgam_do_ioctl_cmd(cmd, r) /\ ret' = IoctlRet(r)
  /\ pc' = "free"
  /\ UNCHANGED <<cmd, popts, nopts, k, pdata, info, argCount, live, doubleFree, oob,
                 bad, given, exitCode>>

(* sgam_list_do_cmd, first half: SGAM_GET_COUNT_CMD; an error is           *)
(* SGAM_CMD_ERR, a count of 0 is OK at once; otherwise malloc a list of    *)
(* count + 1 names.                                                        *)
sgam_list_do_cmd ==
  /\ pc = "do" /\ cmd \in ListCmds
  /\ \E r \in Outcomes :
       /\ sgam_do_ioctl_cmd("count", r)
       /\ IF r # SGAM_CMD_OK
            THEN /\ ret' = SGAM_CMD_ERR /\ pc' = "free"
                 /\ UNCHANGED <<info, live>>
            ELSE \E n \in Counts :
                   /\ info' = [info EXCEPT !.count = n]
                   /\ \/ /\ n = 0 /\ pc' = "free"
                         /\ UNCHANGED <<ret, live>>
                      \/ /\ n > 0 /\ CallocCanFail       \* list_info == NULL
                         /\ ret' = SGAM_CMD_ERR /\ pc' = "free"
                         /\ UNCHANGED live
                      \/ /\ n > 0
                         /\ live' = live \cup {"list"} /\ pc' = "fetch"
                         /\ UNCHANGED ret
  /\ UNCHANGED <<cmd, popts, nopts, k, pdata, argCount, doubleFree, oob, bad, given,
                 exitCode>>

\* Mutant: a failed SGAM_LIST_CMD leaves ret as the count ioctl set it.
sgam_list_fetch_keepret ==
  /\ pc = "fetch"
  /\ \E r \in Outcomes : sgam_do_ioctl_cmd("list", r)
  /\ Free({"list"})
  /\ pc' = "free"
  /\ UNCHANGED <<cmd, popts, nopts, k, ret, pdata, info, argCount, oob, bad, given,
                 exitCode>>

(* sgam_list_do_cmd, second half: SGAM_LIST_CMD into the list buffer, any  *)
(* error is SGAM_CMD_ERR; the buffer is freed either way.                  *)
sgam_list_fetch ==
  /\ pc = "fetch"
  /\ \E r \in Outcomes :
       /\ sgam_do_ioctl_cmd("list", r)
       /\ ret' = IF r = SGAM_CMD_OK THEN SGAM_CMD_OK ELSE SGAM_CMD_ERR
  /\ Free({"list"})
  /\ pc' = "free"
  /\ UNCHANGED <<cmd, popts, nopts, k, pdata, info, argCount, oob, bad, given,
                 exitCode>>

(* The end of main: free pdata if it is not NULL and return ret.          *)
MainEnd ==
  /\ pc = "free"
  /\ IF pdata THEN Free({"data"}) ELSE UNCHANGED <<live, doubleFree>>
  /\ pdata' = FALSE
  /\ exitCode' = ret
  /\ pc' = "exit"
  /\ UNCHANGED <<cmd, popts, nopts, k, ret, info, argCount, oob, bad, given, sent,
                 acked>>

Init ==
  /\ pc = "main" /\ cmd = "none"
  /\ popts = [i \in 0 .. SGAM_MAX_CMD_OPTS - 1 |-> NoOpt]
  /\ nopts = 0 /\ k = 0 /\ ret = SGAM_CMD_OK /\ pdata = FALSE
  /\ info = Calloced /\ argCount = 0
  /\ live = {} /\ doubleFree = FALSE /\ oob = FALSE /\ bad = FALSE
  /\ given = {} /\ sent = {} /\ acked = FALSE /\ exitCode = 0

(* The process ends at "exit": no step is enabled there.                  *)
Next ==
  \/ main \/ sgam_parse_cmd \/ AllocInfo \/ ParseOption \/ CheckCmd
  \/ ParseCmdLineEnd \/ sgam_generic_do_cmd \/ sgam_list_do_cmd \/ sgam_list_fetch
  \/ MainEnd

Spec == Init /\ [][Next]_vars

(***************************************************************************)
(* Properties.                                                             *)
(***************************************************************************)
Option == [opt : AllLetters \cup {":", "none"}, arg : [num : Int, unit : STRING]]
(* The largest rate in bytes/sec a setter accepts: "0 < rate < MAX_RATE_K  *)
(* Kbps" (or MAX_RATE_M Mbps, which is less) times 125.                   *)
MaxRateBytes == (MAX_RATE_K - 1) * 125
Info   == [name : STRING, mtr_type : STRING, cir : 0 .. MaxRateBytes, pir : 0 .. MaxRateBytes, cbs : Int,
           pbs : Int, remark_dscp : 0 .. MAX_DSCP, sgc_grp : Int,
           db_flag : {"none", "acct", "meter"}, count : Nat]

(* Type invariant.  Beyond the shapes: every rate an info struct holds, and *)
(* every rate sent to the kernel module, is inside the range the setter's  *)
(* own message documents ("0 < rate < MAX_RATE_K Kbps").                   *)
TypeOK ==
  /\ pc \in {"main", "getopt", "parse", "check", "cleanup", "do", "fetch", "free", "exit"}
  /\ cmd \in Commands \cup {"none"}
  /\ popts \in [0 .. SGAM_MAX_CMD_OPTS - 1 -> Option]
  /\ nopts \in 0 .. SGAM_MAX_CMD_OPTS /\ k \in 0 .. SGAM_MAX_CMD_OPTS + 1
  /\ ret \in Nat /\ exitCode \in Nat /\ argCount \in Nat
  /\ pdata \in BOOLEAN /\ info \in Info
  /\ sent \subseteq [ioctl : CmdNames \cup {"count", "list"}, info : Info]
  /\ live \subseteq {"popts", "data", "list"}
  /\ {doubleFree, oob, bad, acked} \subseteq BOOLEAN /\ given \subseteq AllLetters

(* Memory: when main returns, the option array, the command's info and the *)
(* list buffer have each been freed exactly once, on every path: the error *)
(* path frees *data in sgam_parse_cmd_line and main frees it again only if *)
(* it is not NULL; sgam_list_do_cmd frees its buffer on every outcome.     *)
MemorySafe == pc = "exit" => live = {} /\ ~doubleFree

(* The kernel is asked to add, delete or list something only for a        *)
(* command line all of whose options the parser accepted: an invalid       *)
(* argument anywhere, before or after valid ones, keeps the ioctl from     *)
(* being issued.  (The show parsers, which only read, carry on after an    *)
(* error and are not held to this.)                                        *)
SentOnlyIfAllAccepted ==
  \A r \in sent : r.ioctl \notin ShowCmds => ~bad /\ k = nopts

(* Exit status 0 means the work was done: either no command was given, or  *)
(* the last ioctl of the command succeeded and, for a list command that    *)
(* found entries, the list itself was fetched.                             *)
ZeroExitOnlyIfDone ==
  pc = "exit" /\ exitCode = SGAM_CMD_OK =>
    \/ cmd = "none"
    \/ /\ acked
       /\ cmd \in ListCmds /\ info.count > 0 => \E r \in sent : r.ioctl = "list"

(* The parsers never read an entry beyond the SGAM_MAX_CMD_OPTS-entry      *)
(* option array sgam_parse_cmd_line allocated.                             *)
OptionsInBounds == ~oob

(* The usage lines: a request reaches the kernel only with every option    *)
(* its command's usage line requires ("Missing opt/arg!!" otherwise).      *)
SentRequestComplete == sent # {} => Required(cmd) \subseteq given

====
