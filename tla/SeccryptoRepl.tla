---------------------------- MODULE SeccryptoRepl ----------------------------
(***************************************************************************)
(* The interactive client of the secure crypto service                     *)
(* (src/seccrypto_service_app/src/seccrypto_client.c).                     *)
(*                                                                         *)
(* main opens a TEE session and loops: it reads a line, splits it into     *)
(* subcmd[], memsets the command's parameter struct, runs the command's    *)
(* getopt parser (one step per option), invokes the trusted application,   *)
(* and frees the buffers the parser allocated.  The structs, the two file  *)
(* name buffers input_fname/output_fname and the heap live across          *)
(* commands, which is what the properties are about.                       *)
(*                                                                         *)
(* Data is abstracted: an option's value is the integer the code compares  *)
(* (algorithm, hash, flag and key-type numbers as listed by print_help),   *)
(* a file or object name is just "given", and a heap block is a number.    *)
(* The environment (files, secure storage, the TEE) answers each call with *)
(* success or failure.                                                     *)
(***************************************************************************)
EXTENDS Integers, Sequences, FiniteSets, Functions

CONSTANTS
  Lines,        \* the input lines a user may type
  MaxLines,     \* lines read before standard input may only reach EOF
  EnvCanFail,   \* TRUE: file reads, secure-storage calls and checked allocations may fail
  TeeCanFail,   \* TRUE: TEEC_InvokeCommand may fail
  InitCanFail,  \* TRUE: TEEC_InitializeContext / TEEC_OpenSession may fail
  ReadFaults    \* how read_file may fail: "none" (no block), "leak" (fread fails, buf kept)

MAX_COMMAND_COUNT == 10

Commands == {"gen", "load", "sign", "verify", "wrap", "unwrap", "macgen"}

(* The letters each parser's getopt string accepts, and those of them that *)
(* take an argument (KEYGEN_CONFIG ... MACGEN_CONFIG).                     *)
ArgLetters == [gen |-> {"a", "o", "n", "c"}, load |-> {"a", "h", "o", "t", "n", "c"},
               sign |-> {"a", "h", "o", "i", "s"}, verify |-> {"a", "h", "o", "i", "s"},
               wrap |-> {"o", "n", "c", "f", "s"}, unwrap |-> {"n", "c", "f", "s"},
               macgen |-> {"a", "n", "c", "f", "t"}]
OptLetters == [ArgLetters EXCEPT !.wrap = @ \cup {"k", "i", "t"},
                                 !.unwrap = @ \cup {"k", "i", "o", "t"},
                                 !.macgen = @ \cup {"k", "i"}]

(* Tokens strtok finds on a line: the command, each option, each argument. *)
NTok(l) == 1 + Len(l.opts)
             + Cardinality({i \in DOMAIN l.opts : l.opts[i].o \in ArgLetters[l.cmd]})

ASSUME /\ \A l \in Lines : l.cmd \in Commands \cup {"quit", "help", "blank", "bogus"}
       /\ MaxLines \in Nat
       /\ {EnvCanFail, TeeCanFail, InitCanFail} \subseteq BOOLEAN
       /\ ReadFaults \subseteq {"none", "leak"}

(* A parameter struct: its heap pointers (0 is NULL), its flag bits, and   *)
(* the numeric fields the parsers check.  One shape serves every command:  *)
(* key = genkey.key_ptr / wrap.key / macgen.mac_key, input = sign.data /   *)
(* verify.data / wrap.input, sig = sign.signature / verify.signature.      *)
Zero == [key |-> 0, input |-> 0, output |-> 0, sig |-> 0, flags |-> {},
         a |-> 0, o |-> 0, h |-> 0, t |-> 0]

(* Locals of a parser: prev, main_opt, object_name given, sst_config.      *)
LocInit == [prev |-> "0", main |-> "0", named |-> FALSE, config |-> 0]

Env == IF EnvCanFail THEN BOOLEAN ELSE {TRUE}
ReadResults == {"ok"} \cup ReadFaults

VARIABLES
  pc,        \* "init", "prompt", "opts", "exec", "exit", "done"
  line,      \* the line being executed
  n,         \* lines read so far; the current line's number
  j,         \* index of the option getopt returns next
  eof,       \* standard input has reached EOF
  st,        \* [Commands -> struct]: sign, verify, genkey, ... in main's frame
  loc,       \* the running parser's locals
  names,     \* input_fname/output_fname: the line that last wrote each (0: empty)
  mem,       \* the heap: [live: blocks allocated and not freed, next: next block]
  outcome,   \* how the last command ended
  session,   \* the TEE context/session
  dfree,     \* a block was freed that is not live, or twice in a row of frees
  uaf,       \* the TEE was handed a struct pointing to a block not live
  stale      \* a command opened a file whose name an earlier line gave

vars == <<pc, line, n, j, eof, st, loc, names, mem, outcome, session,
          dfree, uaf, stale>>

(***************************************************************************)
(* The heap.                                                               *)
(***************************************************************************)
(* The non-NULL pointers of a sequence of free() calls.                    *)
NonNull(ps) == RestrictValues(ps, LAMBDA p : p # 0)

(* free() of each pointer in turn is defined: every one is live and none   *)
(* is freed twice.                                                         *)
FreesOk(m, ps) == Range(NonNull(ps)) \subseteq m.live /\ IsInjective(NonNull(ps))

(* free() of each of ps in turn, on heap m.                                 *)
Free(m, ps) ==
  /\ mem' = [m EXCEPT !.live = @ \ Range(ps)]
  /\ dfree' = (dfree \/ ~FreesOk(m, ps))

(* k fresh blocks, numbered from mem.next.                                 *)
AllocN(k) == [live |-> mem.live \cup {mem.next + i : i \in 0 .. k - 1},
              next |-> mem.next + k]

(* Files the command opens by the names in input_fname/output_fname: one   *)
(* is stale when an earlier line wrote its name.                           *)
Opens(who) == stale' = (stale \/ \E w \in who : w \notin {0, n})

(* Mutant: the wrap branch loses its memset too.                           *)
MemsetTarget_keepwrap(c) == IF c \in {"verify", "wrap"} THEN "sign" ELSE c

(* memset() at the head of each command's branch.  The verify branch       *)
(* clears the sign struct, not the verify one.                             *)
MemsetTarget(c) == IF c = "verify" THEN "sign" ELSE c

(***************************************************************************)
(* Session set-up, the prompt, and exit.                                   *)
(***************************************************************************)
Init ==
  /\ pc = "init"
  /\ line = [cmd |-> "blank", opts |-> <<>>]
  /\ n = 0 /\ j = 1 /\ eof = FALSE
  /\ st = [c \in Commands |-> Zero]
  /\ loc = LocInit
  /\ names = [in |-> 0, out |-> 0]
  /\ mem = [live |-> {}, next |-> 1]
  /\ outcome = "none" /\ session = "none"
  /\ dfree = FALSE /\ uaf = FALSE /\ stale = FALSE

(* init_scsa_session and main's test of its result: a failed OpenSession   *)
(* returns without TEEC_FinalizeContext.                                   *)
init_scsa_session ==
  /\ pc = "init"
  /\ \/ pc' = "prompt" /\ session' = "open"
     \/ InitCanFail /\ pc' = "done" /\ session' \in {"none", "context"}
  /\ UNCHANGED <<line, n, j, eof, st, loc, names, mem, outcome,
                 dfree, uaf, stale>>

(* fgets() returns NULL at EOF and the loop continues; every later fgets   *)
(* returns NULL again.                                                     *)
ReadEof ==
  /\ pc = "prompt"
  /\ eof' = TRUE
  /\ UNCHANGED <<pc, line, n, j, st, loc, names, mem, outcome, session,
                 dfree, uaf, stale>>

(* Mutant: main does not reset optind before the next line.               *)
ReadLine_nooptreset ==
  /\ pc = "prompt" /\ ~eof /\ n < MaxLines
  /\ \E l \in Lines :
       /\ line' = l /\ n' = n + 1 /\ outcome' = "none"
       /\ IF l.cmd \in Commands
            THEN /\ st' = [st EXCEPT ![MemsetTarget(l.cmd)] = Zero]
                 /\ pc' = IF NTok(l) < 2 THEN "prompt" ELSE "opts"
                 /\ loc' = LocInit
            ELSE /\ pc' = IF l.cmd = "quit" THEN "exit" ELSE "prompt"
                 /\ UNCHANGED <<st, loc>>
  /\ UNCHANGED <<j, eof, names, mem, session, dfree, uaf, stale>>

(* One pass of the while (dont_exit) loop up to the parser call: quit,     *)
(* help, an empty line, an unknown command, or a command, whose tokens go  *)
(* into subcmd[] and whose struct is cleared; with fewer than two tokens   *)
(* the command is refused.                                                 *)
ReadLine ==
  /\ pc = "prompt" /\ ~eof /\ n < MaxLines
  /\ \E l \in Lines :
       /\ line' = l /\ n' = n + 1 /\ outcome' = "none"
       /\ IF l.cmd \in Commands
            THEN /\ st' = [st EXCEPT ![MemsetTarget(l.cmd)] = Zero]
                 /\ pc' = IF NTok(l) < 2 THEN "prompt" ELSE "opts"
                 /\ j' = 1 /\ loc' = LocInit
            ELSE /\ pc' = IF l.cmd = "quit" THEN "exit" ELSE "prompt"
                 /\ UNCHANGED <<st, j, loc>>
  /\ UNCHANGED <<eof, names, mem, session, dfree, uaf, stale>>

exit_scsa_session ==
  /\ pc = "exit"
  /\ pc' = "done" /\ session' = "closed"
  /\ UNCHANGED <<line, n, j, eof, st, loc, names, mem, outcome,
                 dfree, uaf, stale>>

(***************************************************************************)
(* One iteration of a parser's getopt loop, computed as an effect: go on   *)
(* with struct r and locals l (perhaps having allocated one block), or     *)
(* leave the loop for the failure path.                                    *)
(***************************************************************************)
Tok == line.opts[j]

Cont(r, l) == [fail |-> FALSE, r |-> r, l |-> l, alloc |-> FALSE, nm |-> names]
Fail(r) == [Cont(r, loc) EXCEPT !.fail = TRUE]
Got(r, l) == [Cont(r, l) EXCEPT !.alloc = TRUE]

(* The struct field a key (-k), input (-i) or output (-o) source fills,    *)
(* and the prefix of its flag bits.                                        *)
Slot(x)   == CASE x = "k" -> "key"  [] x = "i" -> "input"  [] x = "o" -> "output"
Prefix(x) == CASE x = "k" -> "KEY_" [] x = "i" -> "INPUT_" [] x = "o" -> "OUTPUT_"

(* -f (read_file) or -s (malloc(strlen) and data[data_len] = '\0') after   *)
(* -k or -i: the block becomes the key or the input.                       *)
Buffer(r, sel, p) == [r EXCEPT ![Slot(sel)] = p, !.flags = @ \cup {Prefix(sel) \o "BUFFER"}]

(* The loops of parse_keygen/keyload/signing/verify_options: each option   *)
(* stores a field, the object name, sst_config or a file name; a letter    *)
(* outside the getopt string returns -1.                                   *)
StoreOption(t, r, l) ==
  CASE t.o \notin OptLetters[line.cmd] -> Fail(r)
    [] t.o = "n" -> Cont(r, [l EXCEPT !.named = TRUE])
    [] t.o = "c" -> Cont(r, [l EXCEPT !.config = t.v])
    [] t.o = "i" -> [Cont(r, l) EXCEPT !.nm = [names EXCEPT !.in = n]]
    [] t.o = "s" -> [Cont(r, l) EXCEPT !.nm = [names EXCEPT !.out = n]]
    [] OTHER -> Cont([r EXCEPT ![t.o] = t.v], l)

(* A -f source: read_file succeeded (the block is the source), failed     *)
(* before calloc, or failed in fread and returned 0 without freeing buf.   *)
FromFile(r, r2, l, rf) ==
  CASE rf = "ok"   -> Got(r2, l)
    [] rf = "none" -> Fail(r)
    [] rf = "leak" -> [Fail(r) EXCEPT !.alloc = TRUE]

(* The loop of parse_wrap_options.  ok: the secure-storage calls of -c     *)
(* (calloc, fill_secure_storage_details, securestore_retrieve; a failing   *)
(* one frees its own sst_params) or the malloc of -s succeed; rf: what     *)
(* read_file does for -f.                                                  *)
WrapOption(t, w, l, ok, rf) ==
  LET p == mem.next
      src == l.prev \in {"k", "i"}
  IN CASE t.o \in {"k", "i"} -> Cont(w, [l EXCEPT !.main = t.o])
       [] t.o = "o" -> [Cont(w, l) EXCEPT !.nm = [names EXCEPT !.out = n]]
       [] t.o = "n" /\ src ->
            Cont([w EXCEPT !.flags = @ \cup {Prefix(l.prev) \o "SS"}], [l EXCEPT !.named = TRUE])
       [] t.o = "c" /\ l.prev = "n" /\ t.v # 0 /\ ok -> Got([w EXCEPT ![Slot(l.main)] = p], l)
       [] t.o = "f" /\ src -> FromFile(w, Buffer(w, l.prev, p), l, rf)
       [] t.o = "s" /\ src /\ ok -> Got(Buffer(w, l.prev, p), l)
       [] t.o = "s" /\ ~src -> Cont(w, l)      \* only a message: the loop goes on
       [] t.o = "t" /\ l.prev = "k" -> Cont([w EXCEPT !.key = 0, !.flags = @ \cup {"KEY_TEE"}], l)
       [] OTHER -> Fail(w)

(* The loop of parse_unwrap_options: -o is a third source, of the output,  *)
(* and -t after -k or -o names an OTP/TEE asset instead of a buffer.       *)
UnwrapOption(t, u, l, ok, rf) ==
  LET p == mem.next
      src == l.prev \in {"k", "i"}
  IN CASE t.o \in {"k", "i", "o"} -> Cont(u, [l EXCEPT !.main = t.o])
       [] t.o = "n" /\ l.prev \in {"k", "i", "o"} ->
            Cont([u EXCEPT !.flags = @ \cup {Prefix(l.prev) \o "SS"}], [l EXCEPT !.named = TRUE])
       [] t.o = "c" /\ l.prev = "n" /\ t.v # 0 /\ ok -> Got([u EXCEPT ![Slot(l.main)] = p], l)
       [] t.o = "f" /\ src -> FromFile(u, Buffer(u, l.prev, p), l, rf)
       [] t.o = "s" /\ src /\ ok -> Got(Buffer(u, l.prev, p), l)
       [] t.o = "s" /\ ~src -> Cont(u, l)
       [] t.o = "t" /\ l.prev = "k" -> Cont([u EXCEPT !.key = 0, !.flags = @ \cup {"KEY_OTP"}], l)
       [] t.o = "t" /\ l.prev = "o" -> Cont([u EXCEPT !.output = 0, !.flags = @ \cup {"OUTPUT_TEE"}], l)
       [] OTHER -> Fail(u)

(* The loop of parse_macgen_options: the key comes from secure storage     *)
(* (-k -n -c), a file (-k -f) or an OTP asset number (-k -t, calloc'ed);   *)
(* the input only from a file (-i -f).                                     *)
MacgenOption(t, m, l, ok, rf) ==
  LET p == mem.next IN
  CASE t.o \in {"k", "i"} -> Cont(m, [l EXCEPT !.main = t.o])
    [] t.o = "a" -> Cont([m EXCEPT !.a = t.v], l)
    [] t.o = "n" /\ l.prev = "k" -> Cont(m, [l EXCEPT !.named = TRUE])
    [] t.o = "c" /\ l.prev = "n" /\ l.main = "k" /\ t.v # 0 /\ ok ->
         Got([m EXCEPT !.key = p, !.flags = @ \cup {"KEY_SS"}], l)
    [] t.o = "f" /\ l.prev = "k" ->
         FromFile(m, [m EXCEPT !.key = p, !.flags = @ \cup {"KEY_BUFFER"}], l, rf)
    [] t.o = "f" /\ l.prev = "i" -> FromFile(m, [m EXCEPT !.input = p], l, rf)
    [] t.o = "t" /\ l.prev = "k" /\ ok -> Got([m EXCEPT !.key = p, !.flags = @ \cup {"KEY_OTP"}], l)
    [] OTHER -> Fail(m)

(* The free: label of the wrap, unwrap and macgen parsers; the other       *)
(* parsers return -1 directly.                                             *)
FreeLabel(c, r) ==
  CASE c = "wrap"   -> <<r.output, r.input, r.key>>
    [] c = "unwrap" -> <<r.output, r.key, r.input>>
    [] c = "macgen" -> <<r.input, r.output, r.key>>
    [] OTHER        -> <<>>

(* The parser returns -1 after freeing frees; main prints and continues.   *)
ParseFails(m, frees, r) ==
  /\ Free(m, frees)
  /\ st' = [st EXCEPT ![line.cmd] = r]
  /\ pc' = "prompt" /\ outcome' = "parse_failed"

Step(e) ==
  LET m == IF e.alloc THEN AllocN(1) ELSE mem IN
  /\ IF e.fail
       THEN /\ ParseFails(m, FreeLabel(line.cmd, e.r), e.r)
            /\ UNCHANGED <<j, loc, names>>
       ELSE /\ st' = [st EXCEPT ![line.cmd] = e.r]
            /\ loc' = [e.l EXCEPT !.prev = Tok.o]
            /\ j' = j + 1
            /\ mem' = m
            /\ names' = e.nm
            /\ UNCHANGED <<pc, outcome, dfree>>
  /\ UNCHANGED <<line, n, eof, session, uaf, stale>>

InLoop(c) == pc = "opts" /\ line.cmd = c /\ j <= Len(line.opts)

keygen_option  == InLoop("gen")    /\ Step(StoreOption(Tok, st.gen, loc))
keyload_option == InLoop("load")   /\ Step(StoreOption(Tok, st.load, loc))
signing_option == InLoop("sign")   /\ Step(StoreOption(Tok, st.sign, loc))
verify_option  == InLoop("verify") /\ Step(StoreOption(Tok, st.verify, loc))
wrap_option    == InLoop("wrap")   /\ \E ok \in Env, rf \in ReadResults :
                                        Step(WrapOption(Tok, st.wrap, loc, ok, rf))
unwrap_option  == InLoop("unwrap") /\ \E ok \in Env, rf \in ReadResults :
                                        Step(UnwrapOption(Tok, st.unwrap, loc, ok, rf))
macgen_option  == InLoop("macgen") /\ \E ok \in Env, rf \in ReadResults :
                                        Step(MacgenOption(Tok, st.macgen, loc, ok, rf))

(***************************************************************************)
(* The checks after each getopt loop, up to the parser's return 0.         *)
(***************************************************************************)
AtEnd(c) == pc = "opts" /\ line.cmd = c /\ j > Len(line.opts)

(* The parser returns 0 with struct r and heap m; main invokes the TA.     *)
Parsed(r, m) ==
  /\ st' = [st EXCEPT ![line.cmd] = r] /\ mem' = m
  /\ pc' = "exec"
  /\ UNCHANGED <<outcome, dfree>>

(* The process dies of a NULL dereference inside the command; main's loop *)
(* and the session end with it.                                            *)
Crashes(r) ==
  /\ st' = [st EXCEPT ![line.cmd] = r] /\ mem' = mem
  /\ pc' = "done" /\ outcome' = "crashed"
  /\ UNCHANGED dfree

(* What read_file(input_fname) can do: fopen("") fails when no line gave   *)
(* the name (the strlen(...) < 0 checks never fire).                       *)
ReadOf(who) == IF who = 0 THEN {"none"} ELSE ReadResults

(* aes_key_generate_and_store: calloc fails; the key exists and the user   *)
(* answers n (key_meta freed); securestore_save fails (freed); or the key  *)
(* is saved and key_meta is never freed.                                   *)
AesResults == IF EnvCanFail THEN {"nomem", "kept", "savefail", "stored"} ELSE {"kept", "stored"}

(* read_file2sign(output_fname, &verify->signature): the first int of the   *)
(* file selects an RSA (1) or ECDSA (0) signature.  fopen, the fread of    *)
(* the kind or of the struct, malloc or realloc fail with nothing          *)
(* allocated ("none"); a short fread of the numbers after the realloc      *)
(* frees the block *buffer already points to ("dangling").                 *)
Read2SignResults(who) ==
  LET failed == [ret |-> -1, buf |-> "none"]
      whole  == {[ret |-> 1, buf |-> "block"], [ret |-> 0, buf |-> "block"]}
  IN IF who = 0 THEN {failed}
     ELSE IF EnvCanFail THEN whole \cup {failed, [ret |-> -1, buf |-> "dangling"]}
     ELSE whole

(* What generate_rsa_key_pair returns: -1 when RSA_generate_key_ex fails,  *)
(* with the key's pointers left NULL; otherwise its three numbers are      *)
(* malloc'ed (unchecked) and 0 is returned.                                *)
generate_rsa_key_pair == IF EnvCanFail THEN {0, -1} ELSE {0}

(* rsa_key_generate_and_store: the key exists and the user answers n       *)
(* ("kept"), or a key pair is generated, its result ignored, and the       *)
(* public exponent copied from rsa_key.pub_exp.num_ptr: NULL when the      *)
(* generation failed ("crash").  Else the numbers and key_meta are freed   *)
(* at free: whether the save succeeds ("stored") or not ("savefail"); a    *)
(* failed malloc of key_meta still calls securestore_save(handle, NULL,    *)
(* buf_len), whose answer decides the result ("nomem_saved",               *)
(* "nomem_failed").                                                        *)
RsaResults ==
  LET saves == IF EnvCanFail THEN {"stored", "savefail", "nomem_saved", "nomem_failed"}
               ELSE {"stored"}
  IN {"kept"} \cup {IF g = -1 THEN "crash" ELSE r : g \in generate_rsa_key_pair, r \in saves}

keygen_end ==
  LET g == st.gen
      ptr == g.o # 3      \* flag != SEC_CRYPTO_RETURN_KEY_NONE: key_ptr = calloc
  IN /\ AtEnd("gen")
     /\ \E ok \in Env, al \in Env :    \* fill_secure_storage_details, calloc (unchecked)
          IF loc.named /\ loc.config # 0 /\ ok /\ g.a \in {3, 4} /\ g.o \in 0 .. 3
            THEN Parsed(IF ptr /\ al THEN [g EXCEPT !.key = mem.next] ELSE g,
                        IF ptr /\ al THEN AllocN(1) ELSE mem)
            ELSE ParseFails(mem, <<>>, g)
     /\ UNCHANGED <<line, n, j, eof, loc, names, session, uaf, stale>>

keyload_end ==
  LET k == st.load
      refused(ok) == \/ loc.config = 0 \/ ~loc.named \/ k.o \notin 1 .. 2
                     \/ k.t \notin 0 .. 2 \/ k.h \notin 0 .. 9 \/ ~ok
  IN /\ AtEnd("load")
     /\ \E ok \in Env, rsa \in RsaResults, aes \in AesResults :
          IF refused(ok) THEN ParseFails(mem, <<>>, k)
          ELSE CASE k.a \in 0 .. 2 /\ rsa = "crash" -> Crashes(k)
                 [] k.a \in 0 .. 2 ->
                      IF rsa \in {"savefail", "nomem_failed"} THEN ParseFails(mem, <<>>, k)
                      ELSE Parsed(k, mem)
                 [] k.a = 5 ->
                      IF aes \in {"nomem", "savefail"} THEN ParseFails(mem, <<>>, k)
                      ELSE Parsed(k, IF aes = "stored" THEN AllocN(1) ELSE mem)
                 [] OTHER -> Parsed(k, mem)
     /\ UNCHANGED <<line, n, j, eof, loc, names, session, uaf, stale>>

(* parse_signing_options after its loop: the flag and hash checks, then    *)
(* read_file(input_fname) and the signature buffer, or free(sign->data)    *)
(* for an unsupported algorithm.                                           *)
signing_end ==
  LET s == st.sign IN
  /\ AtEnd("sign")
  /\ \E rf \in ReadOf(names.in), al \in Env :   \* al: the calloc of the signature (unchecked)
       LET d == [s EXCEPT !.input = IF rf = "ok" THEN mem.next ELSE 0]
       IN IF s.o \notin 0 .. 1 \/ s.h \notin 0 .. 9
            THEN ParseFails(mem, <<>>, s) /\ UNCHANGED stale
            ELSE /\ Opens({names.in})
                 /\ CASE rf = "none" -> ParseFails(mem, <<>>, d)
                      [] rf = "leak" -> ParseFails(AllocN(1), <<>>, d)
                      [] s.a \in 0 .. 4 /\ al -> Parsed([d EXCEPT !.sig = mem.next + 1], AllocN(2))
                      [] s.a \in 0 .. 4 -> Parsed(d, AllocN(1))
                      [] OTHER -> ParseFails(AllocN(1), <<d.input>>, d)
  /\ UNCHANGED <<line, n, j, eof, loc, names, session, uaf>>

(* parse_verify_options after its loop: as signing, but the signature is   *)
(* read back from output_fname by read_file2sign; only a negative result   *)
(* fails, and then free(verify->data) follows, while verify->signature may *)
(* still point to the block read_file2sign freed.                          *)
verify_end ==
  LET v == st.verify IN
  /\ AtEnd("verify")
  /\ \E rf \in ReadOf(names.in), rs \in Read2SignResults(names.out) :
       LET d == [v EXCEPT !.input = IF rf = "ok" THEN mem.next ELSE 0]
           supported == v.a \in 0 .. 4
       IN IF v.o \notin 0 .. 1 \/ v.h \notin 0 .. 9
            THEN ParseFails(mem, <<>>, v) /\ UNCHANGED stale
            ELSE /\ Opens(IF rf = "ok" /\ supported THEN {names.in, names.out} ELSE {names.in})
                 /\ CASE rf = "none" -> ParseFails(mem, <<>>, d)
                      [] rf = "leak" -> ParseFails(AllocN(1), <<>>, d)
                      [] ~supported \/ rs.buf = "none" -> ParseFails(AllocN(1), <<d.input>>, d)
                      [] rs.buf = "dangling" ->
                           ParseFails(AllocN(2), <<mem.next + 1, d.input>>,
                                      [d EXCEPT !.sig = mem.next + 1])
                      [] OTHER -> Parsed([d EXCEPT !.sig = mem.next + 1], AllocN(2))
  /\ UNCHANGED <<line, n, j, eof, loc, names, session, uaf>>

(* parse_wrap_options after its loop: input and key (or a TEE key asset)   *)
(* are required; the output buffer is malloc'ed, unchecked.                *)
wrap_end ==
  LET w == st.wrap IN
  /\ AtEnd("wrap")
  /\ \E ok \in Env :
       IF w.input = 0 \/ (w.key = 0 /\ "KEY_TEE" \notin w.flags)
         THEN ParseFails(mem, FreeLabel("wrap", w), w)
         ELSE Parsed([w EXCEPT !.output = IF ok THEN mem.next ELSE 0],
                     IF ok THEN AllocN(1) ELSE mem)
  /\ UNCHANGED <<line, n, j, eof, loc, names, session, uaf, stale>>

(* parse_unwrap_options after its loop: an output in secure storage or a   *)
(* TEE asset is kept, else an output buffer is calloc'ed, unchecked.       *)
unwrap_end ==
  LET u == st.unwrap IN
  /\ AtEnd("unwrap")
  /\ \E ok \in Env :
       CASE u.input = 0 \/ (u.key = 0 /\ "KEY_OTP" \notin u.flags) ->
              ParseFails(mem, FreeLabel("unwrap", u), u)
         [] {"OUTPUT_SS", "OUTPUT_TEE"} \cap u.flags # {} -> Parsed(u, mem)
         [] OTHER -> Parsed([u EXCEPT !.output = IF ok THEN mem.next ELSE 0,
                                      !.flags = @ \cup {"OUTPUT_BUFFER"}],
                            IF ok THEN AllocN(1) ELSE mem)
  /\ UNCHANGED <<line, n, j, eof, loc, names, session, uaf, stale>>

(* macgen->flags as a number, with the bits MAC_KEY_SECURE_STORE,          *)
(* MAC_KEY_BUFFER, MAC_KEY_OTP at positions 0, 1, 2 (the enum is in a      *)
(* header outside this repository); the code accepts 1 << 0 .. 1 << 2.     *)
KeyFlagsOk(f) ==
  LET v == (IF "KEY_SS" \in f THEN 1 ELSE 0) + (IF "KEY_BUFFER" \in f THEN 2 ELSE 0)
             + (IF "KEY_OTP" \in f THEN 4 ELSE 0)
  IN v \in 1 .. 4

(* parse_macgen_options after its loop: algorithm, key, input, then the    *)
(* output calloc; every failure goes to free:.                             *)
macgen_end ==
  LET g == st.macgen IN
  /\ AtEnd("macgen")
  /\ \E ok \in Env :
       IF g.a \notin 0 .. 7 \/ g.key = 0 \/ ~KeyFlagsOk(g.flags) \/ g.input = 0 \/ ~ok
         THEN ParseFails(mem, FreeLabel("macgen", g), g)
         ELSE Parsed([g EXCEPT !.output = mem.next], AllocN(1))
  /\ UNCHANGED <<line, n, j, eof, loc, names, session, uaf, stale>>

(***************************************************************************)
(* The TA call and main's frees after it.                                  *)
(***************************************************************************)
(* The heap pointers of a struct handed to TEEC_InvokeCommand.             *)
Pointers(r) == Range(NonNull(<<r.key, r.input, r.output, r.sig>>))

(* The buffers the branch's printer reads after a successful call:         *)
(* print_key_buffer the key pair unless the flag is                        *)
(* SEC_CRYPTO_RETURN_KEY_NONE, print_signature the signature,              *)
(* print_wrap_data and print_unwrap_data the output (output_size bytes;    *)
(* print_unwrap_data reads it also when the output went to secure storage *)
(* or a TEE asset and no buffer was allocated),                           *)
(* print_macgen_output the output, which macgen_end checked.               *)
PrintReads(c, r) ==
  CASE c = "gen"    -> IF r.o # 3 THEN {r.key} ELSE {}
    [] c = "sign"   -> {r.sig}
    [] c = "wrap"   -> {r.output}
    [] c = "unwrap" -> {r.output}
    [] OTHER        -> {}

(* Whether the printer dereferences NULL: a NULL buffer the printer reads  *)
(* kills the process, except that an unwrap input of exactly 8 bytes      *)
(* makes output_size 0 and the loop reads nothing.                         *)
PrintCrashes(c, r) ==
  IF 0 \notin PrintReads(c, r) THEN {FALSE}
  ELSE IF c = "unwrap" THEN {TRUE, FALSE} ELSE {TRUE}

(* print_signature (through write_sign2file) and print_wrap_data (through  *)
(* write_file) write the result to the file output_fname names.            *)
ResultFile(c) == IF c \in {"sign", "wrap"} THEN {names.out} ELSE {}

(* The frees after a successful command (gen ... macgen branches).         *)
PostFrees(c, r) ==
  CASE c = "gen"    -> <<r.key>>
    [] c = "load"   -> <<>>
    [] c = "sign"   -> <<r.input, r.sig>>
    [] c = "verify" -> <<r.input>>
    [] c \in {"wrap", "unwrap"} -> <<r.key, r.input, r.output>>
    [] c = "macgen" -> <<r.input, r.output, r.key>>

(* execute_scsa_command and the rest of the branch: on failure `continue`  *)
(* skips the frees; on success print_signature / print_wrap_data write the *)
(* result to output_fname, and the buffers are freed.                      *)
execute_scsa_command ==
  LET r == st[line.cmd] IN
  /\ pc = "exec"
  /\ uaf' = (uaf \/ ~(Pointers(r) \subseteq mem.live))
  /\ \/ /\ TeeCanFail
        /\ pc' = "prompt" /\ outcome' = "exec_failed"
        /\ UNCHANGED <<mem, dfree, stale>>
     \/ /\ TRUE \in PrintCrashes(line.cmd, r)
        /\ pc' = "done" /\ outcome' = "print_crashed"
        /\ UNCHANGED <<mem, dfree, stale>>
     \/ /\ FALSE \in PrintCrashes(line.cmd, r)
        /\ pc' = "prompt" /\ outcome' = "ok"
        /\ Free(mem, PostFrees(line.cmd, r))
        /\ Opens(ResultFile(line.cmd))
  /\ UNCHANGED <<line, n, j, eof, st, loc, names, session>>

Next ==
  \/ init_scsa_session \/ ReadEof \/ ReadLine \/ exit_scsa_session
  \/ keygen_option \/ keyload_option \/ signing_option \/ verify_option
  \/ wrap_option \/ unwrap_option \/ macgen_option
  \/ keygen_end \/ keyload_end \/ signing_end \/ verify_end
  \/ wrap_end \/ unwrap_end \/ macgen_end
  \/ execute_scsa_command

Spec == Init /\ [][Next]_vars

(***************************************************************************)
(* Properties.                                                             *)
(***************************************************************************)
Struct == [key : Nat, input : Nat, output : Nat, sig : Nat, flags : SUBSET STRING,
           a : Int, o : Int, h : Int, t : Int]

(* Every variable has its type, and every pointer a struct holds is NULL   *)
(* or a block the heap handed out.                                         *)
TypeOK ==
  /\ pc \in {"init", "prompt", "opts", "exec", "exit", "done"}
  /\ n \in 0 .. MaxLines /\ j \in Nat /\ (pc = "opts" => j <= Len(line.opts) + 1)
  /\ st \in [Commands -> Struct]
  /\ \A c \in Commands : Pointers(st[c]) \subseteq 1 .. mem.next - 1
  /\ mem.live \subseteq 1 .. mem.next - 1
  /\ names \in [in : 0 .. MaxLines, out : 0 .. MaxLines]
  /\ outcome \in {"none", "parse_failed", "exec_failed", "ok", "crashed", "print_crashed"}
  /\ session \in {"none", "context", "open", "closed"}
  /\ {dfree, uaf, stale, eof} \subseteq BOOLEAN

(* No free() in a parser's free: label or in main's branches frees a block *)
(* that is not live, and the TA is never handed a freed buffer: the        *)
(* memset of each struct at the head of its branch clears the pointers the *)
(* previous command of that kind freed.                                    *)
HeapSafe == ~dfree /\ ~uaf

(* Back at the prompt, nothing allocated for a command is still live.      *)
NoLeakAtPrompt == pc = "prompt" => mem.live = {}

(* A command runs on its own line only: the files it opens are named on   *)
(* that line, and the TA sees in each numeric field of the struct the      *)
(* value the line gave for that option, or 0 when it gave none.  Both are  *)
(* main's state carried from line to line: input_fname/output_fname, and   *)
(* the structs, which the memset at the head of each branch must clear.    *)
FieldLetters(c) ==
  IF c \in {"gen", "load", "sign", "verify"} THEN ArgLetters[c] \ {"n", "c", "i", "s"}
  ELSE IF c = "macgen" THEN {"a"} ELSE {}
LineValue(l, f) ==
  LET at == {i \in DOMAIN l.opts : l.opts[i].o = f}
  IN IF at = {} THEN 0 ELSE l.opts[CHOOSE i \in at : \A k \in at : k <= i].v
CommandUsesOwnLine ==
  /\ ~stale
  /\ pc = "exec" => \A f \in FieldLetters(line.cmd) : st[line.cmd][f] = LineValue(line, f)

(* A command the TA carried out is printed from buffers its parser set up: *)
(* the client never dies in the printer main calls after a successful     *)
(* execute_scsa_command (print_key_buffer, print_signature,               *)
(* print_wrap_data, print_unwrap_data, print_macgen_output).              *)
PrinterReadsOwnBuffers == outcome # "print_crashed"
====
