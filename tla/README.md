# TLA+ models of the MaxLinear/Intel user-space utilities

This directory holds TLA+ specifications of the parts of `src/` that have
state, concurrency or a non-trivial control flow. It also holds the TLC
configurations that check them. Every definition is translated from the C
source. `PROJECT.json` maps each definition to the lines it models, and lists
the runs, the mutants that show each property can fail, the findings, and the
hazards of the code.

## The system

| Part | Source | What it does |
|---|---|---|
| MDIO shim | `gphy_fw_update/src/utility/fmx_auto/gpy2xx_mdio.c` | `gpy211_mdio_read/_write` turn a 32-bit register id into ioctls on `/dev/switch_api/0`. First comes a clause query (`MAC_CLI_GET_MDIO_CL` through `GSW_XGMAC_CFG`). Then comes either one native Clause-45 transfer, one Clause-22 transfer, or a four-transfer emulation of an MMD access through MMDCTRL/MMDDATA (registers 13/14). |
| gpy2xx CLI | `.../fmx_auto/gpy2xx_cli.c` | `init` installs the shim as `phy.mdiobus_read/write` with `phy.lock = NULL`. `cmdProcessor` picks the command by case-insensitive prefix comparisons (`xstrncasecmp`) of argv[2], or of argv[3] after `msec`, and calls the `gpy2xx_*` library. There are also pure helpers (time formatting, hex parsing). |
| sgam_cli | `sgam/src/sgam_cli.c` | Front end of the SGAM kernel module. `main` allocates a 7-entry option array, and `sgam_parse_cmd` fills it from `getopt_long`. The command's parser validates every option into its calloc'ed struct. One ioctl sends it, or two for the list commands (count, then fetch). `sgam_parse_cmd_line`/`main` free the allocations. |
| seccrypto client | `seccrypto_service_app/src/seccrypto_client.c` | An interactive loop over one TEE session. It reads a line, splits it into `subcmd[10]`, clears the command's parameter struct, and runs the command's getopt parser. The parser allocates key, input and output buffers from files, strings, secure storage or OTP assets. The loop then invokes the trusted application and frees the buffers. |
| addver, genSBCR(_openssl) | `mkimgvendor`, `imgassembler` | Straight-line file tools. |
| EIP-160 register header | `gphy_fw_update/src/src/inc/registers/...` | Register offset and field macros. |

The parts interact only through the kernel. The CLI and the shim share one
process per invocation. Several invocations share the switch driver and the
PHY, and nothing in user space serialises them.

## Modules

### `MdioShim` (with `MC_MdioShim`)

**State.**
- `mode` is the driver's bus clause.
- `hw` holds the PHY cells the calls can reach: Clause-22 registers, MMD registers, the MMDCTRL latch and one MMD address latch per device.
- `pc`, `call` and `ret` hold each caller's position in its call, its arguments and its result.
- `owner` is the serialisation the spec requires of callers (section 5).
- There are also counters of calls, transport faults and re-initialisations.

**Actions.** There is one action per ioctl the code issues, in the code's order:
- `gpy211_mdio_read`/`_write` start a call with an id from `CallerIds`: Clause-45 ids always, plain ids only on a Clause-22 bus. On a Clause-45 bus the ioctl the shim sends for a plain id (device 0, the id as register) is the same whichever helper sends it, and what the driver does with it is outside the repository, so the model does not judge it.
- `ClauseQuery` is the query. It may fail only when `QueryCanFail`. Its result goes through the `u8` conversion of line 176, as the code does.
- `Dispatch` is the branch at 179-191.
- `c45mdio`, `c22mdio` and `c22extnd` are the transfers. Each may fail; the emulation's early returns at 109-122 are modelled.
- `Return` ends a call.
- `Reinit` flips the driver's clause. It happens between calls, which is all the spec (section 3) allows.

`DevId`/`RegNum` are the code's shifts and masks (with the Bitwise module),
tabulated once in `Codec`. `Reach` is what a Clause-22 frame to register 13/14
does on the PHY. That is the only spec-modelled behaviour: the PHY is not in
this repository.

### `MdioRegisterFile`

This is the abstract promise of spec 3/4.4/7. Callers `Begin`, and a call is
then served atomically on the register its id names (`Serve`) or fails with no
effect (`Fail`), then `Return`s. `MdioShim` maps its state onto it:
- `regs` is `hw` on the data cells;
- a call is busy from its start until its last transfer;
- `req` is the call with `Target(regnum)`.

The run `mdio_serial` checks `Abs!SafetySpec` as the property `ImplementsRegisterFile`.

### `SgamCli` (with `MC_SgamCli`)

This module covers one `sgam_cli <command> ...` invocation from `main` to
`exit`. It covers all eight commands of `g_sgam_cmd`.

**State.**
- `cmd` is the command `get_sgam_cmd` found.
- `popts` is the option array, and `nopts` is how many entries getopt stored.
- `k` is the parser's index.
- `info` is the command's calloc'ed struct, with the fields of all four struct kinds in one record. `pdata` says whether `*pdata` holds it.
- `ret` is the status.

**Ghost state.**
- `live` is the set of allocations not yet freed: the array, the info, and the list buffer. `doubleFree` records a second free.
- `oob` records a read past the array.
- `bad` records a rejected option, and `given` the options a parser accepted.
- `sent` holds the ioctl requests.
- `acked` says whether the last ioctl returned 0.

**Actions.**
- `main` covers the `argc` test, the calloc of the array, and the command lookup.
- `sgam_parse_cmd` is one getopt result. A letter outside the command's `short_opts` is `?`. `EndGetopt` is the loop's end and the `ERR -> HELP` mapping.
- `AllocInfo` is the parser's calloc. For `listacct`/`listmeter` it is all of `parse_list_cmd`.
- `ParseOption` is one loop iteration, with the setter for its letter (`Setter`):
  - `sgam_copy_label`, `set_meter_mode`, `set_meter_cir_pir`, `set_meter_cbs_pbs` and `set_dscp_remarking` are operators translated from their functions;
  - `-g` is a plain `atoi`;
  - the `k`/`m`/`d` units and the `atoi`-into-unsigned wrap are kept.
- The add parsers and `parse_del_cmd` return on a rejected option. The show parsers record it in `ret` and carry on.
- `CheckCmd` is the `arg_count` test of each parser: 744-756 for addmeter, 2 options for addacct, 1 for the others. For del it also sets the database flag.
- `ParseCmdLineEnd` covers the frees at 1085-1089.
- `sgam_generic_do_cmd` is the single ioctl, and `sgam_list_do_cmd`/`sgam_list_fetch` are the count and list ioctls of `sgam_list_do_cmd`. Opening the device may fail, and an ioctl may return errno.
- `MainEnd` is main's free and exit.

The help and `print_data` functions only print, so they are left out.
Option tokens are records `[opt, arg |-> [num, unit]]` drawn from a small set
per run. Names and modes are tokens "ok"/"long" and mode names. The strings
themselves are not modelled.

### `Gpy2xxCli` (with `MC_Gpy2xxCli`)

This module covers one invocation `gpy2xx_cli phyId=<n> <command> ...`, as four actions:
- `main` checks argv[1] with `xstrncasecmp(argv[1], "phyId", 5)`, and otherwise exits.
- `init` opens the switch device (which may fail). It then overwrites `ret` with `gpy2xx_init`'s result, drawn from `InitResults`, and a negative result skips the command.
- `cmdProcessor` records the branch `Dispatch` selects in `ran`. For a branch of `ArgBranches` it also records in `args` the value each argument of the library call has.
- `end` closes the descriptor.

The dispatch is modelled in full:
- `xstrncasecmp` and `t_olower` work character by character on TLA+ strings.
- `Gpy211Names` (144 names) and `MsecNames` (89) are the two if/else-if chains in source order. `FeatureOf`/`MsecFeatureOf` give the `#if` build switch each name sits under, and the constant `Features` says which switches are on.
- `FirstPrefix` is the shape both chains share: the first compiled-in name that is a prefix of the word its entry compares, else "Command Not Supported". `Gpy211Argv` says which argv word each entry compares. It is argv[2] everywhere except `gpy2xx_cdiag_stop`, which compares argv[0] (the constant `Program`).

The parameter layer is modelled byte by byte:
- `findArgParam` finds the first `name=value` item.
- `scanValue` covers the boolean words and base-0 `strtoull`.
- `scanParamArg` stores the value at the width its size argument selects (`StoreBytes`, including the `size <= 4` switch) and in the build's byte order. The `build` variable draws the byte order from `Endians` and `sizeof(long)` from `LongSizes`.

48 branches are translated as data (`Branch`):
- the locals each branch declares, zeroed or left as stack garbage (`Garbage`);
- its scans and struct-field copies, in source order, and `ScanOr`, a scan whose zero result makes the branch store a default (the SGMII and ADS branches);
- `Get`, for a library read of the current configuration. Where `GetCanFail` is set, the read may fail, and the branch then returns before its call. Fields it fills hold `DeviceByte`.

The 48 branches are:
- 14 register branches;
- 5 PTP branches;
- 16 GPIO, LED, interrupt and mode branches;
- 13 PHY branches (`PhyBranches`): ABIST start, PPS control, SyncE, ADS, ULP, SGMII auto-negotiation and op mode, MACsec enable, GMAC PM/PDI, and the GMAC-Full and GMAC-Lite PM and LPI configuration.

`RunBranch` folds those steps. `Usage` lists the parameters the help text documents for each command, with the call argument each one describes. `HelpMeaning` and `DocumentedWords` give the value words the help offers besides numbers: `dis/en` for the MACsec, PM and LPI flags, `DUPLEX_FULL/DUPLEX_HALF` for SGMII duplex. The other branches are calls of the `gpy2xx` library on fields whose widths are in its headers, outside this repository, so the model records only which branch ran. Struct fields are given 2 bytes, and each is scanned with its own `sizeof`. A property compares values at the field's own width, so the width chosen does not change what is checked.

### `SeccryptoRepl` (with `MC_SeccryptoRepl`)

This module covers one run of the client, from `init_scsa_session` to `exit_scsa_session`.

**State.**
- `pc` is the loop's position: session set-up, the prompt, inside a parser's getopt loop, the TA call, or exit.
- `line` is the line being run, and `j` is getopt's index into it.
- `st` holds the seven parameter structs of `main`'s frame. Each struct has its heap pointers, its flag bits and the numeric option fields.
- `loc` holds the parser's locals `prev`, `main_opt`, the object name and `sst_config`.
- `names` records which line last wrote `input_fname` and `output_fname`.
- `mem` is the heap: the live blocks and the next block number.

**Ghost state.**
- `dfree` records a free of a block that is not live.
- `uaf` records a struct handed to the TA while pointing to a freed block.
- `stale` records a file opened by a name that an earlier line gave.

**Actions.**
- `init_scsa_session` and `exit_scsa_session`.
- `ReadEof` is `fgets` returning NULL.
- `ReadLine` covers quit, help, an empty line, an unknown command, or a command. For a command it does the tokenising, the `memset` and the `argcount < 2` test.
- One action per parser takes one getopt result: `keygen_option` … `macgen_option`. The option's effect is an operator translated from the `switch`. For example, `WrapOption` allocates on `-c`, `-f` and `-s`, and fails to the `free:` label on a misplaced option.
- One action per parser covers the checks after its loop: `keygen_end` … `macgen_end`.
- `execute_scsa_command` covers the TA call and the frees of the branch. On failure, `continue` skips them.

**The environment.** Files, secure storage and the TA are outside the repository. Each call's result is a nondeterministic choice, enabled by the constants `EnvCanFail`, `TeeCanFail` and `InitCanFail`.
- `read_file` may succeed, fail before allocating, or, when `ReadFaults` allows it, fail in `fread` after allocating.
- `rsa_key_generate_and_store` frees everything it allocates on its normal paths. It ignores a failed `generate_rsa_key_pair` and then dereferences the NULL key, which the model records as the outcome `crashed` (`Crashes`).
- `read_file2sign` may realloc the signature block and then fail in `fread`. In that case it frees the block, while `verify->signature` still points to it (`Read2SignResults`).
- The `calloc`s of keygen and sign are not checked. A failed one leaves a NULL pointer in the struct.
- The printers after a successful TA call dereference the output or key pointer. When that pointer is NULL, the run ends as `print_crashed` (`PrintCrashes`). `print_unwrap_data` reads the output whatever the output option was.
- `aes_key_generate_and_store` may keep an existing key, fail, or store the key and keep `key_meta` allocated.

**Abstractions.** An option's value is the number `strtoul` yields, and a name is just "given". Block sizes are not kept.

## Runs

### Pass runs

| Run | Bounds | Checks |
|---|---|---|
| `mdio_serial` | 2 callers × 2 calls, MMD 1, offsets/data {0,1}, plain id 0 on a Clause-22 bus, 1 transport fault, 1 re-init between calls, either initial clause | `TypeOK`, `CallTouchesOnlyTarget`, `ImplementsRegisterFile` |
| `sgam_lines` | every command word (and an unknown one). Lines are 6 getopt results for addmeter, 2-3 for addacct, 1-2 for show/del and none for list. Tokens are the six valid addmeter options, a group, a CIR at `MAX_RATE_K`, a bad DSCP, an over-long name, `-h` and a missing argument (a negative CIR wraps in the `unsigned long long` and is rejected like one at the limit). calloc/malloc, open and the ioctls may fail, and GET_COUNT reports 0 or 2 | `TypeOK`, `MemorySafe`, `SentOnlyIfAllAccepted`, `ZeroExitOnlyIfDone` |
| `seccrypto_heap` | 2 lines from 25 command forms (every source kind of wrap/unwrap/macgen, failing forms of each parser, quit/help/blank/unknown); every environment, TA and session failure except a leaking `read_file` | `TypeOK`, `HeapSafe` |

What the properties say:
- `CallTouchesOnlyTarget`: while a call runs, no data cell other than its target changes, and a finished write leaves its data in its target.
- `ImplementsRegisterFile`: the shim implements the atomic register file. A read returns the target's contents, and a failed call changes nothing, even after an aborted emulation left the latches modified.
- `MemorySafe`: at exit every allocation (array, info, list buffer) was freed exactly once.
- `SentOnlyIfAllAccepted`: an add, del or list request is sent only if every option parsed was accepted. The show parsers carry on after an error by design, and are not held to this.
- `ZeroExitOnlyIfDone`: exit status 0 means the last ioctl succeeded, and for a list with entries the fetch was made.
- `TypeOK` of `SgamCli`: besides the shapes, every CIR/PIR in the info struct and in a sent request is below the limit `set_meter_cir_pir` prints (`0 < rate < MAX_RATE_K` Kbps). Its mutant writes the upper check as `tmp_rate > MAX_RATE_K`.
- `HeapSafe`: no `free()` in a `free:` label or in `main` frees a block that is not live, and the TA is never handed a freed buffer. This holds only because each branch's `memset` clears the pointers the previous command of that kind freed but did not reset.

### Violation runs

Each of these runs checks one property of the spec or of the code's own checks.
TLC finds it violated, and each one is a finding in `PROJECT.json`.

| Run | What it shows |
|---|---|
| `mdio_query_failure` | A failed clause query becomes `u8` 255 and is treated as Clause-22. The emulation then writes MMD 0 on a Clause-45 bus. |
| `mdio_unserialized` | Two unserialised callers, which is what two `gpy2xx_cli` processes are, corrupt each other's emulated MMD access. |
| `sgam_seven_opts` | `OptionsInBounds`: seven options leave the array without a terminator, and the parser reads entry 7. |
| `sgam_duplicate_opts` | `SentRequestComplete`: a repeated option counts towards the six required ones, so a meter without `-p` is sent. addacct counts the same way (`-n` twice, no `-g`). |
| `seccrypto_leaks` | `NoLeakAtPrompt`: a wrap whose `read_file` fails in `fread` is back at the prompt with the buffer allocated. The same lines also leak through three other paths. A successful verify never frees its signature, an AES key load keeps `key_meta`, and a failed TA call skips the frees. |
| `cli_dispatch` | `NamedCommandRuns`: `gpy2xx_cli phyId=0 gpy2xx_usxgmii_vr_reset_sts` runs the VR reset branch. The status query can never run, because the reset's name is a prefix of it and comes first in the chain. `gpy2xx_cdiag_stop` never runs either, because its entry compares argv[0] and the line ends in "Command Not Supported". |
| `cli_args` | `ArgsFromLine`: the library gets what the line says. Several cases break it: a PTP flag missing from the line takes the previous flag's value from the shared `data` local; an 8-byte local is stored through the one-byte path; an uninitialised register or enum local is passed when its parameter is missing; `gpy2xx_gpio_output` never scans the documented `gpioflags`; `gpy2xx_extin_clr` scans `stdIstat` where the help says `std_istat`; the `dis/en` words the help gives for the MACsec, GMAC PM and LPI flags are rejected by `scanValue`, so `dropCrc=en` leaves the flag at 0 or the PHY's value; and `duplex=DUPLEX_HALF` in `gpy2xx_sgmii_config_aneg` is rejected and replaced by the branch's default, full duplex. |
| `seccrypto_own_line` | `CommandUsesOwnLine`: a `verify -a 3` after a full verify runs with the earlier line's `-o`, because the branch clears `sign` instead of `verify`. It also opens the files the earlier line named, because the `strlen(...) < 0` checks can never fire. |
| `seccrypto_print` | `PrinterReadsOwnBuffers`: with no allocation, file or TA failure, `unwrap -k -t -i -s <data> -o -t` succeeds in the TA and then dies in `print_unwrap_data`. The parser sets the output to NULL for a TEE-asset output (1311-1312) but leaves `output_size` at `input_size - 8`, and main prints the output without checking (1851, 523-524). No other command form crashes its printer under these bounds. |

### Why the bounds are enough

MDIO:
- Two callers with two calls each is the least that lets one caller's emulated sequence interleave with another call after a completed one.
- MMD 1 beside the Clause-22 registers and MMD 0 (reached by the faulty paths), and two offsets, are enough to tell "right register" from "wrong register".
- Plain ids are passed only on a Clause-22 bus: on a Clause-45 bus the shim's ioctl for a plain id is the same from either helper.
- One fault and one re-init reach every early return and both clauses.

sgam:
- Six getopt results is the number of options addmeter needs without `-R`.
- Seven results is the array's size.
- `sgam_lines` mixes one rejection of each kind into lines of the valid options: a setter, the label length, the DSCP check, a help request, a missing argument, and a letter of another command. A rejection can come before or after valid options.
- Each other command gets one option more than it needs, so a repeated or rejected option can come first.
- A count of 2 takes the list path through malloc and the second ioctl.

gpy2xx_cli:
- `cli_dispatch` gives every name of both chains exactly, the four tool commands in other letter cases, an unknown word and a missing argv[2] or argv[3].
- All build switches are on. The one shadowing pair is not under a switch, so no build removes it.
- argv[1] takes both spellings of phyId, a wrong word and none.
- `cli_args` gives every command of `Usage` every combination of up to three of its documented parameters, each missing, `0x12c` (wider than a byte), `TRUE`, or one of the value words the help gives for it. Three lets a missing parameter sit between given ones and mixes numbers with words, and the bound keeps the 10-parameter LPI commands within the run's time. It uses both byte orders, both sizes of `long`, stack garbage 0 and 0xFF, and a library read that succeeds (with 7 in every byte) or fails. These values tell apart a zero, garbage, a truncated store, the PHY's value and the line's value.

seccrypto:
- Two lines is the least for the properties about state carried across lines: a struct's stale pointers, stale file names, stale fields.
- The 25 command forms give every option of every parser once, in its valid place and in a misplaced one. They also give each source of a key, input and output (file, string, secure storage, TEE/OTP asset).
- The forms stay within ten tokens, so `subcmd[]` is not overflowed.

The mutants in `PROJECT.json` show each property is violated by a plausible
slip in the code under the same bounds.

### Fairness

No fairness is assumed in the component specifications, and no liveness property is checked of the code:
- The shim's calls block in ioctls whose return the code cannot force.
- sgam is a single run-to-exit thread.
- The seccrypto loop is one thread. Every step between two reads of a line is a finite computation, so "a started line finishes" holds by the shape of the loop and says nothing. Its one real liveness question, whether it exits, is answered by reading the code: on EOF it spins (see below).

All runs have `CHECK_DEADLOCK FALSE` because the systems really stop. Callers
exit after `MaxCalls`, sgam reaches `exit`, and the seccrypto client returns
after `quit` or a failed session set-up, and a gpy2xx_cli invocation ends after one command.

## Not modelled yet, and the plan

- **gpy2xx_cli.** `Gpy2xxCli` models main, init, the dispatch, the parameter layer and 48 branch bodies. Not modelled:
  - The remaining branches' bodies: `scanMAC_Arg`, `scanKey_Arg` and `str_to_hex` (MAC and key parsing for the PTP, WoL and MACsec commands), and branches whose struct layouts are only in the library headers.
  - `gpy2xx_setup_forced` and `gpy2xx_config_aneg` write the global `phy` struct's link fields, which the library reads; `gpy2xx_scan_advert` and the `msec_*` branches parse MAC addresses and keys with `scanMAC_Arg`/`scanKey_Arg`.
  - `gpy2xx_gmacl_pm_cfg`'s help lists `pcStrip` and `crcStrip`, but no field of its struct takes them; `Usage` leaves them out.
  - `init`'s lost open failure (7399-7404) is in the model. Whether `gpy2xx_init` then fails on the bad descriptor is decided by the library, so no property states it.
  - `print_sys_time` (2160-2300) and `dayofweek` only format a PTP timestamp for printing. The month arithmetic (`day / 30` at 2191, plus leap days counted every fourth year) is wrong for 180 of the 21,900 days of 1970-2029. For example, 1 March 1970 prints as 29 February. A calendar unit test shows this, and no state depends on it.
  - The `gpy2xx_*` library behind the commands is not in this repository.
- **MDIO shim.** A driver re-initialisation between a call's clause query and its transfers would send them in the wrong clause (`gpy2xx_mdio.c:179`). The spec allows the clause to change only between calls, so `Reinit` does too.
- **seccrypto client.** These defects are in the code, but no run is spent on them. Each is visible from one input, or depends on sizes the model does not keep:
  - `subcmd[argcount++]` (1742) has no bound. The documented full `load` line has 13 tokens.
  - `read_file` (112) and every `-s` option write the terminator one byte past the block.
  - On EOF the loop spins forever (1725-1727).
  - `unwrap` computes `input_size - 8` in `uint32_t` (1334).
  - `rsa_key_generate_and_store` ignores a failed key generation (363). The model reaches the resulting NULL dereference as the outcome `crashed`, but no passing property forbids it, because it is visible from one failure.
  - `read_file2sign` returns 1 for RSA and 0 for ECDSA, and `parse_verify_options` ignores which it was (929).
  - The public exponent is copied reversed from a 3-byte `BN_bn2bin` result into a 4-byte buffer, which leaves a byte uninitialised (385).
  - The y/n `scanf` of the key stores eats the start of the next line (448).
- **sgam_cli.** Every command is modelled. Not checked:
  - With exactly six options (no `-R`) `sgam_parse_add_meter_cmd` skips the PIR ≥ CIR check (747). It is one guard on one command line.
  - What the kernel module writes into a list buffer sized for an older count. The kernel module is not in this repository.
- **Never modelled.**
  - addver and the genSBCR tools are straight-line file I/O and OpenSSL calls.
  - The register header is data.
