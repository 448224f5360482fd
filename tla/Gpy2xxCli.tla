------------------------------ MODULE Gpy2xxCli ------------------------------
(***************************************************************************)
(* One invocation of the GPY2xx command-line tool                          *)
(* (src/gphy_fw_update/src/utility/fmx_auto/gpy2xx_cli.c):                *)
(*   gpy2xx_cli phyId=<n> <command> [parameters]                           *)
(* main checks argv[1], init opens the switch device and initialises the   *)
(* PHY, and cmdProcessor picks the command by a chain of case-insensitive  *)
(* prefix comparisons of argv[2]: four tool commands, then the 144 names   *)
(* of gpy211_main in source order; "msec" goes on to the 89 names of       *)
(* gpy2xx_msec_main, compared with argv[3].  Every comparison is           *)
(* xstrncasecmp(argv[k], name, strlen(name)), so the word selects the      *)
(* first name in the chain that is a prefix of it.                         *)
(*                                                                         *)
(* What each command does is a call of the gpy2xx library, which is not    *)
(* in this repository: the model records which branch ran.  Words are     *)
(* TLA+ strings; a position past the end of a string reads as the C        *)
(* terminator, written "".                                                 *)
(***************************************************************************)
EXTENDS Integers, Sequences, SequencesExt

CONSTANTS
  Lines,        \* command lines: the sequence argv[1], ..., argv[argc-1]
  Features,     \* the EN_* / P31G_* build switches set to 1
  InitResults,  \* what gpy2xx_init (library) may return
  OpenCanFail,  \* TRUE: open("/dev/switch_api/0") may fail
  Null,         \* model value: argv[i] past argc
  Endians,      \* byte orders of the build: subset of {"little", "big"}
  LongSizes,    \* sizeof(long) of the build: subset of {4, 8}
  Garbage,      \* byte values an uninitialised local may hold
  Program,      \* argv[0]: the path the tool is started by
  DeviceByte,   \* the byte every field a library get fills holds
  GetCanFail    \* TRUE: a library get before the scans may fail

ASSUME /\ Features \subseteq {"SMDIO", "IND", "LEDTOP", "TOPINT", "GMAC", "MSECDBG"}
       /\ InitResults \subseteq Int /\ OpenCanFail \in BOOLEAN
       /\ Endians \subseteq {"little", "big"} /\ LongSizes \subseteq {4, 8}
       /\ Garbage \subseteq 0..255 /\ Program \in STRING
       /\ DeviceByte \in 0..255 /\ GetCanFail \in BOOLEAN

(***************************************************************************)
(* xstrncasecmp and t_olower.  The C function returns c1 - c2 at the       *)
(* first difference; every caller only compares the result with 0, so it   *)
(* is 0 or 1 here.  The loop stops at n characters or at a terminator      *)
(* both strings share, i.e. it compares positions 1..min(n, Len(s1)+1).    *)
(***************************************************************************)
UpperAZ == "ABCDEFGHIJKLMNOPQRSTUVWXYZ"
LowerAZ == "abcdefghijklmnopqrstuvwxyz"

(* The letter map, a constant TLC computes once.                           *)
LowerOf == [c \in {SubSeq(UpperAZ, i, i) : i \in 1..26} |->
              LET i == CHOOSE i \in 1..26 : SubSeq(UpperAZ, i, i) = c IN SubSeq(LowerAZ, i, i)]

t_olower(ch) == IF ch \in DOMAIN LowerOf THEN LowerOf[ch] ELSE ch

CharAt(s, i) == IF i <= Len(s) THEN SubSeq(s, i, i) ELSE ""

xstrncasecmp(s1, s2, n) ==
  IF s1 = Null \/ s2 = Null THEN 1
  ELSE IF \A i \in 1..Min({n, Len(s1) + 1}) :
            t_olower(CharAt(s1, i)) = t_olower(CharAt(s2, i))
       THEN 0 ELSE 1

(***************************************************************************)
(* The if / else-if chain of gpy211_main, in source order, and the build   *)
(* switch each #if block puts a name under.  Every entry compares argv[2]  *)
(* but gpy2xx_cdiag_stop, which compares argv[0].  (The comparison for     *)
(* gpy2xx_usxgmii_reach_get passes strlen("gpy2xx_usxgmii_getch_get"),     *)
(* which has the same length.)                                             *)
(***************************************************************************)
Gpy211Names == <<
    "gpy2xx_uninit", "gpy2xx_get_phy_id", "gpy2xx_read_fw_info", "gpy2xx_soft_reset",
    "gpy2xx_poll_reset", "gpy2xx_smdio_read", "gpy2xx_smdio_write", "gpy2xx_read_mmd",
    "gpy2xx_write_mmd", "gpy2xx_read_status", "gpy2xx_read", "gpy2xx_write", "pm_ind_read",
    "pm_ind_write", "gpy2xx_mbox_read16", "gpy2xx_mbox_write16", "gpy2xx_mbox_read32",
    "gpy2xx_mbox_write32", "gpy2xx_xpcs_read16", "gpy2xx_xpcs_write16", "gpy2xx_config_advert",
    "gpy2xx_setup_forced", "gpy2xx_restart_aneg", "gpy2xx_config_aneg", "gpy2xx_aneg_done",
    "gpy2xx_update_link", "gpy2xx_gpio_cfg", "gpy2xx_gpio_get", "gpy2xx_gpio_output",
    "gpy2xx_gpio_input", "gpy2xx_led_br_cfg", "gpy2xx_led_br_get", "gpy2xx_led_top_cfg",
    "gpy2xx_led_top_get", "gpy2xx_led_if_cfg", "gpy2xx_led_if_get", "gpy2xx_topin_cfg",
    "gpy2xx_topin_get", "gpy2xx_topin_clr", "gpy2xx_extin_mask", "gpy2xx_extin_get", "gpy2xx_extin_clr",
    "gpy2xx_test_mode_cfg", "gpy2xx_cdiag_start", "gpy2xx_cdiag_stop", "gpy2xx_cdiag_read",
    "gpy2xx_abist_start",
    "gpy2xx_abist_read", "gpy2xx_loopback_cfg", "gpy2xx_errcnt_cfg", "gpy2xx_errcnt_read",
    "gpy2xx_pcs_status_read", "gpy2xx_ptp_adjfreq", "gpy2xx_ptp_adjtime", "gpy2xx_ptp_gettime",
    "gpy2xx_ptp_settime", "gpy2xx_ptp_enable", "gpy2xx_ptp_disable", "gpy2xx_ptp_getcfg",
    "gpy2xx_ptp_set_tsctrl", "gpy2xx_ptp_set_ppsctrl", "test_gpy2xx_ptp_set_ppsctrl",
    "gpy2xx_ptp_set_ptoctrl", "gpy2xx_ptp_fifostat", "gpy2xx_ptp_resetfifo", "gpy2xx_ptp_txtsstat",
    "gpy2xx_ptp_getrxts", "gpy2xx_ptp_gettxts", "gpy2xx_synce_cfg", "gpy2xx_synce_get", "gpy2xx_wol_cfg",
    "gpy2xx_wol_get", "gpy2xx_ads_cfg", "gpy2xx_ads_get", "gpy2xx_ulp_cfg", "gpy2xx_ulp_get",
    "gpy2xx_ads_detected", "gpy2xx_sgmii_restart_aneg", "gpy2xx_sgmii_aneg_done",
    "gpy2xx_sgmii_config_aneg", "gpy2xx_sgmii_read_status", "gpy2xx_sgmii_opmode", "gpy2xx_pvt_get",
    "gpy2xx_gmacx_pm_hw_reset", "gpy2xx_macsec_enable", "gpy2xx_macsec_disable",
    "gpy2xx_gmacx_pm_pdi_cfg", "gpy2xx_gmacx_pm_pdi_get", "gpy2xx_gmacf_pm_cfg", "gpy2xx_gmacf_pm_get",
    "gpy2xx_gmacl_pm_cfg", "gpy2xx_gmacl_pm_get", "gpy2xx_gmacf_lpi_cfg", "gpy2xx_gmacf_lpi_get",
    "gpy2xx_gmacl_lpi_cfg", "gpy2xx_gmacl_lpi_get", "gpy2xx_gmacf_lpi_stat_get",
    "gpy2xx_gmacl_lpi_stat_get", "gpy2xx_gmacf_lpi_imask_cfg", "gpy2xx_gmacf_lpi_imask_get",
    "gpy2xx_gmacf_lpi_istat_get", "gpy2xx_gmacf_lpi_count_get", "gpy2xx_gmacf_cfg", "gpy2xx_gmacf_get",
    "gpy2xx_gmacl_cfg", "gpy2xx_gmacl_get", "gpy2xx_gmacl_pkt_cfg", "gpy2xx_gmacl_pkt_get",
    "gpy2xx_gmacf_pkt_filter_cfg", "gpy2xx_gmacf_pkt_filter_get", "gpy2xx_gmacl_pkt_filter_cfg",
    "gpy2xx_gmacl_pkt_filter_get", "gpy2xx_gmacf_debug_info_get", "gpy2xx_gmacf_pkt_cfg",
    "gpy2xx_gmacf_pkt_get", "gpy2xx_gmacf_count_ctrl_cfg", "gpy2xx_gmacf_count_ctrl_get",
    "gpy2xx_gmacf_count_get", "gpy2xx_gmacf_count_imask_cfg", "gpy2xx_gmacf_count_imask_get",
    "gpy2xx_gmacf_count_istat_get", "gpy2xx_gmacx_bm_cfg", "gpy2xx_gmacx_bm_get",
    "gpy2xx_gmacx_bm_status_get", "gpy2xx_gmacl_pause_cfg", "gpy2xx_gmacl_pause_get",
    "gpy2xx_pm_freq_tune", "gpy2xx_usxgmii_reach_cfg", "gpy2xx_usxgmii_reach_get",
    "gpy2xx_usxgmii_aneg_sts", "gpy2xx_usxgmii_aneg_rst", "gpy2xx_usxgmii_pcs_pma_linksts",
    "gpy2xx_usxgmii_mii_linksts", "gpy2xx_usxgmii_alignmentmarker_set",
    "gpy2xx_usxgmii_alignmentmarker_get", "gpy2xx_usxgmii_vr_reset", "gpy2xx_usxgmii_vr_reset_sts",
    "gpy2xx_usxgmii_tx_bert_cfg", "gpy2xx_usxgmii_tx_bert_get", "gpy2xx_usxgmii_rx_bert_cfg",
    "gpy2xx_usxgmii_rx_bert_get", "gpy2xx_usxgmii_rx_bert_stat", "gpy2xx_usxgmii_loopback_cfg",
    "gpy2xx_usxgmii_loopback_get"
  >>

FeatureOf(i) ==
  CASE i \in 6..7                             -> "SMDIO"
    [] i \in 13..14                           -> "IND"
    [] i \in 33..34                           -> "LEDTOP"
    [] i \in 37..39                           -> "TOPINT"
    [] i \in {42, 66, 84} \cup 93..113 \cup 119..121 -> "GMAC"
    [] OTHER                                  -> "always"

(* The if / else-if chain of gpy2xx_msec_main on argv[3], in source order; *)
(* entries 44 and 45 are under EN_MSEC_DEBUG_ACCESS.                        *)
MsecNames == <<
    "gpy2xx_msec_init_ing_dev", "gpy2xx_msec_init_egr_dev", "gpy2xx_msec_config_ing_tr",
    "gpy2xx_msec_config_egr_tr", "gpy2xx_msec_update_egr_sa_cw", "gpy2xx_msec_get_ing_tr",
    "gpy2xx_msec_get_egr_tr", "gpy2xx_msec_get_ing_pn", "gpy2xx_msec_get_egr_pn",
    "gpy2xx_msec_clear_ing_tr", "gpy2xx_msec_clear_egr_tr", "gpy2xx_msec_config_ing_sam_eex",
    "gpy2xx_msec_config_egr_sam_eex", "gpy2xx_msec_get_ing_sam_eef", "gpy2xx_msec_get_egr_sam_eef",
    "gpy2xx_msec_config_ing_sam_eec", "gpy2xx_msec_config_egr_sam_eec", "gpy2xx_msec_config_ing_sam_fca",
    "gpy2xx_msec_config_egr_sam_fca", "gpy2xx_msec_get_ing_sam_fca", "gpy2xx_msec_get_egr_sam_fca",
    "gpy2xx_msec_clear_ing_sam_fca", "gpy2xx_msec_clear_egr_sam_fca", "gpy2xx_msec_config_ing_sam_rule",
    "gpy2xx_msec_config_egr_sam_rule", "gpy2xx_msec_clear_ing_sam_rule",
    "gpy2xx_msec_clear_egr_sam_rule", "gpy2xx_msec_config_ing_vlan_parse",
    "gpy2xx_msec_config_egr_vlan_parse", "gpy2xx_msec_get_ing_sam_rule", "gpy2xx_msec_get_egr_sam_rule",
    "gpy2xx_msec_config_ing_cc_rule", "gpy2xx_msec_get_ing_cc_rule", "gpy2xx_msec_config_ing_cc_eef",
    "gpy2xx_msec_get_ing_cc_eef", "gpy2xx_msec_config_ing_cc_eec", "gpy2xx_msec_config_ing_cc_ctrl",
    "gpy2xx_msec_get_ing_stats_summ", "gpy2xx_msec_get_egr_stats_summ", "gpy2xx_msec_get_ing_sa_stats",
    "gpy2xx_msec_get_egr_sa_stats", "gpy2xx_msec_get_ing_global_stats",
    "gpy2xx_msec_get_egr_global_stats", "gpy2xx_msec_get_ing_debug_stats",
    "gpy2xx_msec_get_egr_debug_stats", "gpy2xx_msec_config_ing_count_ctrl",
    "gpy2xx_msec_config_egr_count_ctrl", "gpy2xx_msec_config_ing_count_incen",
    "gpy2xx_msec_config_egr_count_incen", "gpy2xx_msec_config_ing_count_secfail",
    "gpy2xx_msec_config_egr_count_secfail", "gpy2xx_msec_config_ing_count_thresh",
    "gpy2xx_msec_config_egr_count_thresh", "gpy2xx_msec_get_ing_count_thresh",
    "gpy2xx_msec_get_egr_count_thresh", "gpy2xx_msec_config_ing_misc_ctrl",
    "gpy2xx_msec_config_egr_misc_ctrl", "gpy2xx_msec_config_ing_sa_nm_ctrl",
    "gpy2xx_msec_config_egr_sa_nm_ctrl", "gpy2xx_msec_config_ing_sa_nm_ncp",
    "gpy2xx_msec_config_egr_sa_nm_ncp", "gpy2xx_msec_config_ing_sa_nm_cp",
    "gpy2xx_msec_config_egr_sa_nm_cp", "gpy2xx_msec_clear_ing_stats_summ",
    "gpy2xx_msec_clear_egr_stats_summ", "gpy2xx_msec_clear_ing_psa_stats_summ",
    "gpy2xx_msec_get_ing_psa_stats_summ", "gpy2xx_msec_clear_egr_psa_stats_summ",
    "gpy2xx_msec_get_egr_psa_stats_summ", "gpy2xx_msec_config_ing_cp_rule",
    "gpy2xx_msec_config_egr_cp_rule", "gpy2xx_msec_clear_sa_pn_thr_summ",
    "gpy2xx_msec_get_sa_pn_thr_summ", "gpy2xx_msec_clear_egr_sa_exp_summ",
    "gpy2xx_msec_get_egr_sa_exp_summ", "gpy2xx_msec_clear_ing_cc_int_stat",
    "gpy2xx_msec_get_ing_cc_int_stat", "gpy2xx_msec_clear_egr_cc_int_stat",
    "gpy2xx_msec_get_egr_cc_int_stat", "gpy2xx_msec_config_ing_sn_thresh",
    "gpy2xx_msec_get_ing_sn_thresh", "gpy2xx_msec_config_egr_sn_thresh", "gpy2xx_msec_get_egr_sn_thresh",
    "gpy2xx_msec_config_ing_aic_csr", "gpy2xx_msec_get_ing_aic_csr", "gpy2xx_msec_config_egr_aic_csr",
    "gpy2xx_msec_get_egr_aic_csr", "gpy2xx_msec_get_ing_cap", "gpy2xx_msec_get_egr_cap"
  >>

MsecFeatureOf(i) == IF i \in 44..45 THEN "MSECDBG" ELSE "always"

(* The indices of a chain that the preprocessor keeps.                     *)
Compiled(names, feature) ==
  SelectSeq([i \in 1..Len(names) |-> i],
            LAMBDA i : feature[i] \in Features \cup {"always"})

(* The branch a chain takes: the first compiled-in name that prefixes the  *)
(* word its entry compares (w[k] for argv[k], k = at[i]), else the chain's *)
(* final "Command Not Supported".                                           *)
FirstPrefix(names, feature, at, w) ==
  LET idx == Compiled(names, feature)
      j   == SelectInSeq(idx,
               LAMBDA i : xstrncasecmp(w[at[i]], names[i], Len(names[i])) = 0)
  IN  IF j = 0 THEN "unsupported" ELSE names[idx[j]]

Gpy211Features == [i \in 1..Len(Gpy211Names) |-> FeatureOf(i)]
MsecFeatures   == [i \in 1..Len(MsecNames) |-> MsecFeatureOf(i)]

Gpy211Argv == [i \in 1..Len(Gpy211Names) |->
                 IF Gpy211Names[i] = "gpy2xx_cdiag_stop" THEN 0 ELSE 2]

(* w0 is argv[0], the program path; w is argv[2].                           *)
gpy211_main(w0, w) == FirstPrefix(Gpy211Names, Gpy211Features, Gpy211Argv, (0 :> w0) @@ (2 :> w))

gpy2xx_msec_main(w) ==
  FirstPrefix(MsecNames, MsecFeatures, [i \in 1..Len(MsecNames) |-> 3], 3 :> w)

(* cmdProcessor: help (4 characters), msec, random (6), resetrd (7),       *)
(* otherwise gpy211_main.                                                   *)
Dispatch(w0, w, w3) ==
  CASE xstrncasecmp(w, "help", 4) = 0    -> "help"
    [] xstrncasecmp(w, "msec", 4) = 0    -> gpy2xx_msec_main(w3)
    [] xstrncasecmp(w, "random", 6) = 0  -> "random"
    [] xstrncasecmp(w, "resetrd", 7) = 0 -> "resetrd"
    [] OTHER                             -> gpy211_main(w0, w)

(***************************************************************************)
(* The parameter layer: findArgParam and scanParamArg.  A command's        *)
(* parameters are argv items "name=value"; argv[0] (the program path)      *)
(* never carries one and is left out.  Memory is modelled byte by byte:   *)
(* a variable is the sequence of its bytes by address, and a value the    *)
(* sequence of its bytes by significance (least significant first).        *)
(***************************************************************************)

(* findArgParam: the text after "name=" of the first item that starts with *)
(* name (any case), has '=' right after it and a non-empty value; else     *)
(* NULL.                                                                   *)
findArgParam(line, name) ==
  LET len  == Len(name)
      hits == {i \in 1..Len(line) :
                 /\ xstrncasecmp(name, line[i], len) = 0
                 /\ Len(line[i]) > len + 1
                 /\ CharAt(line[i], len + 1) = "="}
  IN  IF hits = {} THEN Null
      ELSE SubSeq(line[Min(hits)], len + 2, Len(line[Min(hits)]))

(* strtoull(ptr, &endptr, 0) on a value without leading blanks or sign:   *)
(* "0x"/"0X" followed by a hex digit selects base 16, another leading "0"  *)
(* base 8, anything else base 10; the longest run of digits of the base is *)
(* converted and end is the index of the first character after it (1 when *)
(* nothing was converted, as endptr = ptr).                                *)
HexDigits == "0123456789abcdef"

DigitOf == [c \in {SubSeq(HexDigits, d, d) : d \in 1..16} |->
              (CHOOSE d \in 1..16 : SubSeq(HexDigits, d, d) = c) - 1]

DigitValue(ch) == IF t_olower(ch) \in DOMAIN DigitOf THEN DigitOf[t_olower(ch)] ELSE 16

RECURSIVE DigitRunEnd(_, _, _)
DigitRunEnd(s, i, base) ==
  IF i <= Len(s) /\ DigitValue(CharAt(s, i)) < base
    THEN DigitRunEnd(s, i + 1, base) ELSE i

RECURSIVE DigitsValue(_, _, _, _)
DigitsValue(s, from, to, base) ==
  IF to = from THEN 0
  ELSE DigitsValue(s, from, to - 1, base) * base + DigitValue(CharAt(s, to - 1))

strtoull(s) ==
  LET hex  == /\ CharAt(s, 1) = "0" /\ t_olower(CharAt(s, 2)) = "x"
              /\ DigitValue(CharAt(s, 3)) < 16
      base == IF hex THEN 16 ELSE IF CharAt(s, 1) = "0" THEN 8 ELSE 10
      from == IF hex THEN 3 ELSE 1
      to   == DigitRunEnd(s, from, base)
      conv == to > from
  IN  [val |-> IF conv THEN DigitsValue(s, from, to, base) ELSE 0,
       end |-> IF conv THEN to ELSE 1]

(* The value scanParamArg takes from ptr: 1 for a prefix of LTQ_TRUE,     *)
(* TRUE or FULL, 0 for a prefix of LTQ_FALSE, FALSE or HALF (any case),    *)
(* else the number, or Null when characters follow it ("return 0").        *)
IsWordPrefix(ptr, w) == xstrncasecmp(ptr, w, Len(ptr)) = 0

scanValue(ptr) ==
  CASE \E w \in {"LTQ_TRUE", "TRUE", "FULL"} : IsWordPrefix(ptr, w)   -> 1
    [] \E w \in {"LTQ_FALSE", "FALSE", "HALF"} : IsWordPrefix(ptr, w) -> 0
    [] strtoull(ptr).end > Len(ptr)                                 -> strtoull(ptr).val
    [] OTHER                                                        -> Null

(* The k low bytes of v, least significant first: the C cast to a k-byte  *)
(* integer.                                                                 *)
RECURSIVE Bytes(_, _)
Bytes(v, k) == IF k = 0 THEN <<>> ELSE <<v % 256>> \o Bytes(v \div 256, k - 1)

(* A value's bytes in address order and back (the same reordering).       *)
InMemory(sig, endian) == IF endian = "little" THEN sig ELSE Reverse(sig)

(* "if (size <= 4) size *= 8;" then the store by bit width: the number of *)
(* bytes written at the start of param (0: no store).                      *)
StoreBytes(size) ==
  LET bits == IF size <= 4 THEN size * 8 ELSE size
  IN  CASE bits = 8 -> 1 [] bits = 16 -> 2 [] bits = 32 -> 4 [] bits = 64 -> 8
        [] OTHER -> 0

(* scanParamArg(argc, argv, name, size, param) on the bytes m of *param:  *)
(* the bytes after the call.  The 0/1 result is only ever added to an      *)
(* unused counter, so it is not kept.                                      *)
scanParamArg(line, name, size, m, endian) ==
  LET ptr == findArgParam(line, name)
      v   == IF ptr = Null THEN Null ELSE scanValue(ptr)
      k   == StoreBytes(size)
      img == InMemory(Bytes(v, k), endian)
  IN  IF v = Null THEN m
      ELSE [a \in 1..Len(m) |-> IF a <= k THEN img[a] ELSE m[a]]

(* scanParamArg's return value: 1 when the line gives a value it reads.   *)
scanParamArgResult(line, name) ==
  IF findArgParam(line, name) # Null /\ scanValue(findArgParam(line, name)) # Null
    THEN 1 ELSE 0

(***************************************************************************)
(* Command branches that hand scanned parameters to the library.  A       *)
(* branch declares its locals (bytes, and whether an initialiser or memset *)
(* zeroes them), runs its scanParamArg calls and struct-field copies in    *)
(* source order, and passes its call arguments.  Field types are in the    *)
(* gpy2xx library headers, outside this repository: a field receives the   *)
(* value of the local copied into it.  The help-text names each branch     *)
(* documents for its arguments are in RegisterUsage and PtpUsage.          *)
(***************************************************************************)
Decl(bytes, init) == [bytes |-> bytes, init |-> init]
Scan(name, size, var) == [op |-> "scan", name |-> name, size |-> size, var |-> var]
Copy(field, var) == [op |-> "copy", name |-> field, size |-> 0, var |-> var]
Branch(decl, body, call) == [decl |-> decl, body |-> body, call |-> call]

(* u32 reg_off; scanned as regaddr and passed.                             *)
RegReadBranch ==
  Branch("reg_off" :> Decl(4, "undef"),
         <<Scan("regaddr", 4, "reg_off")>>, <<"reg_off">>)

(* u32 reg_off plus a data_val of w bytes, scanned as regaddr and data.    *)
RegWriteBranch(w) ==
  Branch(("reg_off" :> Decl(4, "undef")) @@ ("data_val" :> Decl(w, "undef")),
         <<Scan("regaddr", 4, "reg_off"), Scan("data", w, "data_val")>>,
         <<"reg_off", "data_val">>)

(* int dev_id; u32 reg_off; [u16 data_val;] for the MMD commands.         *)
MmdBranch(write) ==
  Branch(("dev_id" :> Decl(4, "undef")) @@ ("reg_off" :> Decl(4, "undef"))
           @@ (IF write THEN "data_val" :> Decl(2, "undef") ELSE << >>),
         <<Scan("devtype", 4, "dev_id"), Scan("regaddr", 4, "reg_off")>>
           \o (IF write THEN <<Scan("data", 2, "data_val")>> ELSE << >>),
         <<"dev_id", "reg_off">> \o (IF write THEN <<"data_val">> ELSE << >>))

gpy2xx_smdio_read_branch   == RegReadBranch
gpy2xx_smdio_write_branch  == RegWriteBranch(2)
gpy2xx_read_mmd_branch     == MmdBranch(FALSE)
gpy2xx_write_mmd_branch    == MmdBranch(TRUE)
gpy2xx_read_branch         == RegReadBranch
gpy2xx_write_branch        == RegWriteBranch(2)
pm_ind_read_branch         == RegReadBranch
pm_ind_write_branch        == RegWriteBranch(4)
gpy2xx_mbox_read16_branch  == RegReadBranch
gpy2xx_mbox_write16_branch == RegWriteBranch(4)
gpy2xx_mbox_read32_branch  == RegReadBranch
gpy2xx_mbox_write32_branch == RegWriteBranch(4)
gpy2xx_xpcs_read16_branch  == RegReadBranch
gpy2xx_xpcs_write16_branch == RegWriteBranch(4)

(* s32 pbb = 0; scanned with sizeof(int).                                  *)
gpy2xx_ptp_adjfreq_branch ==
  Branch("pbb" :> Decl(4, "zero"), <<Scan("pbbTime", 4, "pbb")>>, <<"pbb">>)

(* s64 delta; scanned with sizeof(delta), which is 8.                      *)
gpy2xx_ptp_adjtime_branch ==
  Branch("delta" :> Decl(8, "undef"), <<Scan("deltaTime", 8, "delta")>>, <<"delta">>)

(* struct timespec64 ts, memset to 0: tv_sec (time64_t) scanned with 64,  *)
(* tv_nsec (long, longBytes wide) with sizeof(ts.tv_nsec).                 *)
gpy2xx_ptp_settime_branch(longBytes) ==
  Branch(("tv_sec" :> Decl(8, "zero")) @@ ("tv_nsec" :> Decl(longBytes, "zero")),
         <<Scan("initSec", 64, "tv_sec"), Scan("initNsec", longBytes, "tv_nsec")>>,
         <<"tv_sec", "tv_nsec">>)

(* u16 data; time64_t corr_time; ptpCfg memset to 0; data is scanned and  *)
(* copied into one field after another.                                    *)
gpy2xx_ptp_enable_branch ==
  Branch(("data" :> Decl(2, "undef")) @@ ("corr_time" :> Decl(8, "undef")),
         <<Scan("enPhyTxTs", 2, "data"), Copy("tx_ts_phy", "data"),
           Scan("enPhyRxTs", 2, "data"), Copy("rx_ts_phy", "data"),
           Scan("txPtpOffset", 2, "data"), Copy("tx_ptp_off", "data"),
           Scan("txPtpProto", 2, "data"), Copy("tx_ptp_tpt", "data"),
           Scan("enTxOstcEn", 2, "data"), Copy("ts_ostc_en", "data"),
           Scan("txOstCorTime", 8, "corr_time"), Copy("tx_ost_corr", "corr_time")>>,
         <<"tx_ts_phy", "rx_ts_phy", "tx_ptp_off", "tx_ptp_tpt", "ts_ostc_en",
           "tx_ost_corr">>)

(* u16 data; tsCfg memset to 0; the same reuse of data.                    *)
gpy2xx_ptp_set_tsctrl_branch ==
  Branch("data" :> Decl(2, "undef"),
         <<Scan("enEvntMsg", 2, "data"), Copy("ts_evtmsg_en", "data"),
           Scan("enMstrMsg", 2, "data"), Copy("ts_master_en", "data"),
           Scan("snapType", 2, "data"), Copy("snap_type", "data")>>,
         <<"ts_evtmsg_en", "ts_master_en", "snap_type">>)

(***************************************************************************)
(* Struct branches of the GPIO, LED and interrupt commands.  Each struct   *)
(* is memset to 0; the widths of its fields are in the library headers,    *)
(* and each is scanned with its own sizeof, so every field is given the    *)
(* same 2 bytes here.  The library call receives the struct: the call      *)
(* arguments are its fields.  Get(f) is a library get into the struct      *)
(* that fills fields f and makes the branch return when it fails.          *)
(***************************************************************************)
Get(fields) == [op |-> "get", name |-> "", size |-> 0, var |-> fields]

Struct(fields) == [f \in fields |-> Decl(2, "zero")]

(* struct gpy211_gpio gpioCfg: pin and flags.                              *)
gpy2xx_gpio_cfg_branch ==
  Branch(Struct({"pin", "flags"}),
         <<Scan("pinId", 2, "pin"), Scan("gpioFlags", 2, "flags")>>, <<"pin", "flags">>)

(* gpio_get, gpio_output and gpio_input scan pinId only.                   *)
GpioPinBranch ==
  Branch(Struct({"pin", "flags"}), <<Scan("pinId", 2, "pin")>>, <<"pin", "flags">>)

gpy2xx_gpio_get_branch    == GpioPinBranch
gpy2xx_gpio_output_branch == GpioPinBranch
gpy2xx_gpio_input_branch  == GpioPinBranch

(* The brightness configuration is read from the PHY first.                *)
gpy2xx_led_br_cfg_branch ==
  LET f == <<"mode", "lvl_min", "lvl_max", "sw_edge">>
  IN  Branch(Struct(ToSet(f)),
             <<Get(ToSet(f)), Scan("brightMode", 2, "mode"), Scan("brightLvlMin", 2, "lvl_min"),
               Scan("brightLvlMax", 2, "lvl_max"), Scan("swEdgeDetect", 2, "sw_edge")>>, f)

(* EN_LED_TOP_CFG: the general LED configuration, also read first.         *)
gpy2xx_led_top_cfg_branch ==
  LET f == <<"complex_scan", "complex_blink", "inverse_scan", "fast_blink_freq",
             "slow_blink_freq">>
  IN  Branch(Struct(ToSet(f)),
             <<Get(ToSet(f)), Scan("complexScan", 2, "complex_scan"),
               Scan("complexBlink", 2, "complex_blink"), Scan("inverseScan", 2, "inverse_scan"),
               Scan("fastBlinkFreq", 2, "fast_blink_freq"),
               Scan("slowBlinkFreq", 2, "slow_blink_freq")>>, f)

(* ledId selects the LED whose configuration is read before the rest is    *)
(* scanned; gpy2xx_led_if_get stops after the read.                        *)
LedIfFields == <<"id", "color_mode", "slow_blink_src", "fast_blink_src", "const_on", "pulse">>

gpy2xx_led_if_cfg_branch ==
  Branch(Struct(ToSet(LedIfFields)),
         <<Scan("ledId", 2, "id"), Get(ToSet(Tail(LedIfFields))),
           Scan("colorMode", 2, "color_mode"), Scan("slowBlinkSrc", 2, "slow_blink_src"),
           Scan("fastBlinkSrc", 2, "fast_blink_src"), Scan("constantlyOn", 2, "const_on"),
           Scan("pulseFlags", 2, "pulse")>>, LedIfFields)

gpy2xx_led_if_get_branch ==
  Branch(Struct(ToSet(LedIfFields)), <<Scan("ledId", 2, "id")>>, LedIfFields)

(* EN_SUPPORT_TOP_INT: struct gpy211_extin, selected by intId.             *)
TopinFields == <<"id", "gpio_flags", "ip_char", "im0", "im1", "im2">>

gpy2xx_topin_cfg_branch ==
  Branch(Struct(ToSet(TopinFields)),
         <<Scan("intId", 2, "id"), Get(ToSet(Tail(TopinFields))),
           Scan("gpioFlags", 2, "gpio_flags"), Scan("ipChar", 2, "ip_char"),
           Scan("intMod0", 2, "im0"), Scan("intMod1", 2, "im1"), Scan("intMod2", 2, "im2")>>,
         TopinFields)

gpy2xx_topin_get_branch ==
  Branch(Struct(ToSet(TopinFields)), <<Scan("intId", 2, "id")>>, TopinFields)

gpy2xx_topin_clr_branch ==
  Branch(Struct(ToSet(TopinFields)),
         <<Scan("intId", 2, "id"), Scan("intMod0", 2, "im0"), Scan("intMod1", 2, "im1"),
           Scan("intMod2", 2, "im2")>>, TopinFields)

(* struct gpy211_phy_extin: std_imask, std_istat, ext_imask, ext_istat.    *)
ExtinFields == <<"std_imask", "std_istat", "ext_imask", "ext_istat">>

gpy2xx_extin_mask_branch ==
  Branch(Struct(ToSet(ExtinFields)),
         <<Scan("stdImask", 2, "std_imask"), Scan("extImask", 2, "ext_imask")>>, ExtinFields)

(* EN_GMAC_DEBUG_ACCESS.                                                   *)
gpy2xx_extin_clr_branch ==
  Branch(Struct(ToSet(ExtinFields)), <<Scan("stdIstat", 2, "std_istat")>>, ExtinFields)

(* An enum local, not initialised, scanned with sizeof (4) and passed by   *)
(* value.                                                                   *)
EnumBranch(param, var) == Branch(var :> Decl(4, "undef"), <<Scan(param, 4, var)>>, <<var>>)

gpy2xx_test_mode_cfg_branch == EnumBranch("testTxMode", "testMode")
gpy2xx_loopback_cfg_branch  == EnumBranch("loopbackMode", "loopMode")
gpy2xx_errcnt_cfg_branch    == EnumBranch("errCountMode", "cntMode")

DeviceBranches ==
  ("gpy2xx_gpio_cfg" :> gpy2xx_gpio_cfg_branch)
  @@ ("gpy2xx_gpio_get" :> gpy2xx_gpio_get_branch)
  @@ ("gpy2xx_gpio_output" :> gpy2xx_gpio_output_branch)
  @@ ("gpy2xx_gpio_input" :> gpy2xx_gpio_input_branch)
  @@ ("gpy2xx_led_br_cfg" :> gpy2xx_led_br_cfg_branch)
  @@ ("gpy2xx_led_top_cfg" :> gpy2xx_led_top_cfg_branch)
  @@ ("gpy2xx_led_if_cfg" :> gpy2xx_led_if_cfg_branch)
  @@ ("gpy2xx_led_if_get" :> gpy2xx_led_if_get_branch)
  @@ ("gpy2xx_topin_cfg" :> gpy2xx_topin_cfg_branch)
  @@ ("gpy2xx_topin_get" :> gpy2xx_topin_get_branch)
  @@ ("gpy2xx_topin_clr" :> gpy2xx_topin_clr_branch)
  @@ ("gpy2xx_extin_mask" :> gpy2xx_extin_mask_branch)
  @@ ("gpy2xx_extin_clr" :> gpy2xx_extin_clr_branch)
  @@ ("gpy2xx_test_mode_cfg" :> gpy2xx_test_mode_cfg_branch)
  @@ ("gpy2xx_loopback_cfg" :> gpy2xx_loopback_cfg_branch)
  @@ ("gpy2xx_errcnt_cfg" :> gpy2xx_errcnt_cfg_branch)

(***************************************************************************)
(* PHY, PTP and packet-manager configuration branches.  ScanOr is the      *)
(* "if (scanParamArg(...) == 0) field = dflt;" form: the field takes dflt  *)
(* when the line does not give a number for it.  SPEED_2500 and            *)
(* DUPLEX_FULL come from the library headers; their ethtool values are     *)
(* used.                                                                    *)
(***************************************************************************)
ScanOr(name, size, var, dflt) ==
  [op |-> "scanor", name |-> name, size |-> size, var |-> var, dflt |-> dflt]

SPEED_2500 == 2500
DUPLEX_FULL == 1

(* struct gpy211_abist_param, memset to 0.                                 *)
gpy2xx_abist_start_branch ==
  LET f == <<"restart", "uart_report", "test">>
  IN  Branch(Struct(ToSet(f)), <<Scan("enRestart", 2, "restart"),
             Scan("enUartReport", 2, "uart_report"), Scan("txTestMode", 2, "test")>>, f)

(* struct gpy2xx_pps_ctrl: read first, then six scans (gpcSel included).    *)
gpy2xx_ptp_set_ppsctrl_branch ==
  LET f == <<"raw_pps_ctrl_low", "sec_tgttime", "nsec_tgttime", "pps0_interal",
             "pps0_width", "gpc_sel">>
  IN  Branch(Struct(ToSet(f)),
             <<Get(ToSet(f)), Scan("ppsCtrlLow", 2, "raw_pps_ctrl_low"),
               Scan("targetSec", 2, "sec_tgttime"), Scan("targetNsc", 2, "nsec_tgttime"),
               Scan("ppsInterval", 2, "pps0_interal"), Scan("ppsWidth", 2, "pps0_width"),
               Scan("gpcSel", 2, "gpc_sel")>>, f)

gpy2xx_synce_cfg_branch ==
  LET f == <<"synce_enable", "synce_refclk", "master_sel", "data_rate", "gpc_sel">>
  IN  Branch(Struct(ToSet(f)),
             <<Scan("enSyncE", 2, "synce_enable"), Scan("synceRefClk", 2, "synce_refclk"),
               Scan("masterSlave", 2, "master_sel"), Scan("dataRate", 2, "data_rate"),
               Scan("gpcSel", 2, "gpc_sel")>>, f)

gpy2xx_ads_cfg_branch ==
  LET f == <<"no_nrg_rst", "downshift_en", "downshift_thr", "force_rst", "nrg_rst_cnt">>
  IN  Branch(Struct(ToSet(f)),
             <<ScanOr("advertise_enable", 2, "no_nrg_rst", 0),
               ScanOr("NBaseT_ds_enable", 2, "downshift_en", 0),
               ScanOr("downshift_cnt_thr", 2, "downshift_thr", 0),
               ScanOr("force_reset", 2, "force_rst", 0),
               ScanOr("rst_cntdown_timer", 2, "nrg_rst_cnt", 0)>>, f)

gpy2xx_ulp_cfg_branch ==
  LET f == <<"ulp_en", "ulp_sta_block", "ulp_exit", "master_slice">>
  IN  Branch(Struct(ToSet(f)),
             <<Scan("ulp_enable", 2, "ulp_en"), Scan("ulp_sta_block", 2, "ulp_sta_block"),
               Scan("ulp_exit", 2, "ulp_exit"), Scan("master_slice", 2, "master_slice")>>, f)

gpy2xx_sgmii_config_aneg_branch ==
  LET f == <<"linkcfg_dir", "aneg_mode", "eee_enable", "autoneg", "speed", "fixed2g5", "duplex">>
  IN  Branch(Struct(ToSet(f)),
             <<ScanOr("linkcfg_dir", 2, "linkcfg_dir", 1), ScanOr("aneg_mode", 2, "aneg_mode", 1),
               ScanOr("eee_enable", 2, "eee_enable", 1), ScanOr("autoneg", 2, "autoneg", 1),
               ScanOr("speed", 2, "speed", SPEED_2500), ScanOr("fixed2G5", 2, "fixed2g5", 0),
               ScanOr("duplex", 2, "duplex", DUPLEX_FULL)>>, f)

(* enum gpy211_sgmii_operation opMode = 0.                                 *)
gpy2xx_sgmii_opmode_branch ==
  Branch("opMode" :> Decl(4, "zero"), <<Scan("opMode", 4, "opMode")>>, <<"opMode">>)

gpy2xx_macsec_enable_branch ==
  LET f == <<"drop_on_crc_err", "drop_on_pkt_err", "drop_on_sec_fail", "class_drop">>
  IN  Branch(Struct(ToSet(f)),
             <<Scan("dropCrc", 2, "drop_on_crc_err"), Scan("dropPerr", 2, "drop_on_pkt_err"),
               Scan("dropSfail", 2, "drop_on_sec_fail"), Scan("dropClass", 2, "class_drop")>>, f)

(* struct pm_config: read with gpy2xx_gmacx_pm_pdi_get, then eight scans.   *)
gpy2xx_gmacx_pm_pdi_cfg_branch ==
  LET f == <<"bypass_gmac", "bypass_macsec", "drop_on_crc_err", "drop_on_pkt_err",
             "drop_on_sec_fail", "class_drop", "cust_3g_en", "sgmii_lb_en">>
  IN  Branch(Struct(ToSet(f)),
             <<Get(ToSet(f)), Scan("bpMac", 2, "bypass_gmac"), Scan("bpMsec", 2, "bypass_macsec"),
               Scan("dropCrc", 2, "drop_on_crc_err"), Scan("dropPerr", 2, "drop_on_pkt_err"),
               Scan("dropSfail", 2, "drop_on_sec_fail"), Scan("dropClass", 2, "class_drop"),
               Scan("cust3gEn", 2, "cust_3g_en"), Scan("sgmiiLb", 2, "sgmii_lb_en")>>, f)

(* struct pm_gmac_cfg, read with the GMAC-Full or GMAC-Lite get.           *)
PmGmacBranch ==
  LET f == <<"crc_pad_ctrl", "tx_err_input", "big_endian">>
  IN  Branch(Struct(ToSet(f)),
             <<Get(ToSet(f)), Scan("crcPad", 2, "crc_pad_ctrl"), Scan("txErr", 2, "tx_err_input"),
               Scan("bigEndian", 2, "big_endian")>>, f)

gpy2xx_gmacf_pm_cfg_branch == PmGmacBranch
gpy2xx_gmacl_pm_cfg_branch == PmGmacBranch

(* struct lpi_cfg: read with gpy2xx_gmacf/gmacl_lpi_get, then ten scans.   *)
LpiFields ==
  <<"lpi_int_en", "lpi_en", "phy_link_status", "lpi_tx_auto", "lpi_timer_en",
    "lpi_tx_clk_stop_en", "ous_tic_time", "lpi_tw_time", "lpi_ls_time", "lpi_entry_time">>
LpiNames ==
  <<"lpintEn", "lpiEn", "linkUp", "txautoEn", "timerEn", "clkStop", "ticTime", "twTime",
    "lsTime", "entryTime">>
LpiBranch ==
  Branch(Struct(ToSet(LpiFields)),
         <<Get(ToSet(LpiFields))>> \o [i \in 1 .. 10 |-> Scan(LpiNames[i], 2, LpiFields[i])],
         LpiFields)

gpy2xx_gmacf_lpi_cfg_branch == LpiBranch
gpy2xx_gmacl_lpi_cfg_branch == LpiBranch

PhyBranches ==
  ("gpy2xx_abist_start" :> gpy2xx_abist_start_branch)
  @@ ("gpy2xx_ptp_set_ppsctrl" :> gpy2xx_ptp_set_ppsctrl_branch)
  @@ ("gpy2xx_synce_cfg" :> gpy2xx_synce_cfg_branch)
  @@ ("gpy2xx_ads_cfg" :> gpy2xx_ads_cfg_branch)
  @@ ("gpy2xx_ulp_cfg" :> gpy2xx_ulp_cfg_branch)
  @@ ("gpy2xx_sgmii_config_aneg" :> gpy2xx_sgmii_config_aneg_branch)
  @@ ("gpy2xx_sgmii_opmode" :> gpy2xx_sgmii_opmode_branch)
  @@ ("gpy2xx_macsec_enable" :> gpy2xx_macsec_enable_branch)
  @@ ("gpy2xx_gmacx_pm_pdi_cfg" :> gpy2xx_gmacx_pm_pdi_cfg_branch)
  @@ ("gpy2xx_gmacf_pm_cfg" :> gpy2xx_gmacf_pm_cfg_branch)
  @@ ("gpy2xx_gmacl_pm_cfg" :> gpy2xx_gmacl_pm_cfg_branch)
  @@ ("gpy2xx_gmacf_lpi_cfg" :> gpy2xx_gmacf_lpi_cfg_branch)
  @@ ("gpy2xx_gmacl_lpi_cfg" :> gpy2xx_gmacl_lpi_cfg_branch)

ArgBranches(longBytes) ==
  PhyBranches @@ DeviceBranches @@
  ("gpy2xx_smdio_read" :> gpy2xx_smdio_read_branch)
  @@ ("gpy2xx_smdio_write" :> gpy2xx_smdio_write_branch)
  @@ ("gpy2xx_read_mmd" :> gpy2xx_read_mmd_branch)
  @@ ("gpy2xx_write_mmd" :> gpy2xx_write_mmd_branch)
  @@ ("gpy2xx_read" :> gpy2xx_read_branch)
  @@ ("gpy2xx_write" :> gpy2xx_write_branch)
  @@ ("pm_ind_read" :> pm_ind_read_branch)
  @@ ("pm_ind_write" :> pm_ind_write_branch)
  @@ ("gpy2xx_mbox_read16" :> gpy2xx_mbox_read16_branch)
  @@ ("gpy2xx_mbox_write16" :> gpy2xx_mbox_write16_branch)
  @@ ("gpy2xx_mbox_read32" :> gpy2xx_mbox_read32_branch)
  @@ ("gpy2xx_mbox_write32" :> gpy2xx_mbox_write32_branch)
  @@ ("gpy2xx_xpcs_read16" :> gpy2xx_xpcs_read16_branch)
  @@ ("gpy2xx_xpcs_write16" :> gpy2xx_xpcs_write16_branch)
  @@ ("gpy2xx_ptp_adjfreq" :> gpy2xx_ptp_adjfreq_branch)
  @@ ("gpy2xx_ptp_adjtime" :> gpy2xx_ptp_adjtime_branch)
  @@ ("gpy2xx_ptp_settime" :> gpy2xx_ptp_settime_branch(longBytes))
  @@ ("gpy2xx_ptp_enable" :> gpy2xx_ptp_enable_branch)
  @@ ("gpy2xx_ptp_set_tsctrl" :> gpy2xx_ptp_set_tsctrl_branch)

(* A branch run on a line: the locals start as zeros or as the stack's     *)
(* garbage byte; the result is the value of each call argument (least      *)
(* significant byte first), or << >> when a get failed and the branch      *)
(* returned before the call.                                               *)
RunBranch(line, br, endian, garbage, getOk) ==
  LET mem0 == [v \in DOMAIN br.decl |->
                 [a \in 1..br.decl[v].bytes |->
                    IF br.decl[v].init = "zero" THEN 0 ELSE garbage]]
      Fill(m, fs) == [v \in DOMAIN m |->
                       IF v \in fs THEN [a \in DOMAIN m[v] |-> DeviceByte] ELSE m[v]]
      Step(st, s) ==
        CASE ~st.ok         -> st
          [] s.op = "scan"  -> [st EXCEPT !.mem[s.var] = scanParamArg(line, s.name, s.size, @, endian)]
          [] s.op = "scanor" ->
               [st EXCEPT !.mem[s.var] =
                  IF scanParamArgResult(line, s.name) = 1
                    THEN scanParamArg(line, s.name, s.size, @, endian)
                    ELSE InMemory(Bytes(s.dflt, Len(@)), endian)]
          [] s.op = "get"   -> IF getOk THEN [st EXCEPT !.mem = Fill(@, s.var)]
                               ELSE [st EXCEPT !.ok = FALSE]
          [] OTHER          -> [st EXCEPT !.val = (s.name :> InMemory(st.mem[s.var], endian)) @@ @]
      fin == FoldLeft(Step, [mem |-> mem0, val |-> << >>, ok |-> TRUE], br.body)
  IN  IF ~fin.ok THEN << >>
      ELSE [a \in ToSet(br.call) |->
              IF a \in DOMAIN fin.mem THEN InMemory(fin.mem[a], endian) ELSE fin.val[a]]

(* The parameters the help text documents for a command, each with the   *)
(* call argument it describes (help_text[] entries; gpy2xx_smdio_read/     *)
(* _write have none).                                                       *)
RegisterUsage ==
  LET rd == "regaddr" :> "reg_off"
      wr == rd @@ ("data" :> "data_val")
      mmd == "devtype" :> "dev_id"
  IN  ("gpy2xx_read" :> rd) @@ ("gpy2xx_write" :> wr)
      @@ ("gpy2xx_read_mmd" :> (mmd @@ rd)) @@ ("gpy2xx_write_mmd" :> (mmd @@ wr))
      @@ ("pm_ind_read" :> rd) @@ ("pm_ind_write" :> wr)
      @@ ("gpy2xx_mbox_read16" :> rd) @@ ("gpy2xx_mbox_write16" :> wr)
      @@ ("gpy2xx_mbox_read32" :> rd) @@ ("gpy2xx_mbox_write32" :> wr)
      @@ ("gpy2xx_xpcs_read16" :> rd) @@ ("gpy2xx_xpcs_write16" :> wr)

(* gpy2xx_ptp_set_tsctrl also lists gpcSel, which no field of tsCfg takes. *)
PtpUsage ==
  ("gpy2xx_ptp_adjfreq" :> ("pbbTime" :> "pbb"))
  @@ ("gpy2xx_ptp_adjtime" :> ("deltaTime" :> "delta"))
  @@ ("gpy2xx_ptp_settime" :> (("initSec" :> "tv_sec") @@ ("initNsec" :> "tv_nsec")))
  @@ ("gpy2xx_ptp_set_tsctrl" :> (("enEvntMsg" :> "ts_evtmsg_en")
        @@ ("enMstrMsg" :> "ts_master_en") @@ ("snapType" :> "snap_type")))
  @@ ("gpy2xx_ptp_enable" :> (("enPhyTxTs" :> "tx_ts_phy") @@ ("enPhyRxTs" :> "rx_ts_phy")
        @@ ("enTxOstCor" :> "ts_ostc_en") @@ ("txPtpOffset" :> "tx_ptp_off")
        @@ ("txPtpProto" :> "tx_ptp_tpt") @@ ("txOstCorTime" :> "tx_ost_corr")))

(* gpy2xx_gpio_output documents gpioflags (0 low, 2 high) and            *)
(* gpy2xx_extin_clr std_istat; the LED names are spelled as in the help.   *)
DeviceUsage ==
  LET pin == "pinid" :> "pin"
  IN  ("gpy2xx_gpio_cfg" :> (pin @@ ("gpioflags" :> "flags")))
      @@ ("gpy2xx_gpio_get" :> pin) @@ ("gpy2xx_gpio_input" :> pin)
      @@ ("gpy2xx_gpio_output" :> (pin @@ ("gpioflags" :> "flags")))
      @@ ("gpy2xx_led_br_cfg" :> (("brightMode" :> "mode") @@ ("brightlvlMin" :> "lvl_min")
            @@ ("brightlvlMax" :> "lvl_max") @@ ("swEdgeDetect" :> "sw_edge")))
      @@ ("gpy2xx_led_top_cfg" :> (("complexscan" :> "complex_scan")
            @@ ("complexblink" :> "complex_blink") @@ ("inversescan" :> "inverse_scan")
            @@ ("fastblinkfreq" :> "fast_blink_freq") @@ ("slowblinkfreq" :> "slow_blink_freq")))
      @@ ("gpy2xx_led_if_cfg" :> (("ledid" :> "id") @@ ("colormode" :> "color_mode")
            @@ ("slowblinksrc" :> "slow_blink_src") @@ ("fastblinksrc" :> "fast_blink_src")
            @@ ("constantlyon" :> "const_on") @@ ("pulseflags" :> "pulse")))
      @@ ("gpy2xx_led_if_get" :> ("ledid" :> "id"))
      @@ ("gpy2xx_extin_mask" :> (("stdImask" :> "std_imask") @@ ("extImask" :> "ext_imask")))
      @@ ("gpy2xx_extin_clr" :> ("std_istat" :> "std_istat"))
      @@ ("gpy2xx_test_mode_cfg" :> ("testtxmode" :> "testMode"))
      @@ ("gpy2xx_loopback_cfg" :> ("loopbackmode" :> "loopMode"))
      @@ ("gpy2xx_errcnt_cfg" :> ("errcountmode" :> "cntMode"))

(* gpy2xx_gmacl_pm_cfg also lists pcStrip and crcStrip, which no field of *)
(* its struct takes.                                                        *)
PhyUsage ==
  LET drops == ("dropCrc" :> "drop_on_crc_err") @@ ("dropPerr" :> "drop_on_pkt_err")
                 @@ ("dropSfail" :> "drop_on_sec_fail") @@ ("dropClass" :> "class_drop")
      pm    == ("crcPad" :> "crc_pad_ctrl") @@ ("txErr" :> "tx_err_input")
                 @@ ("bigEndian" :> "big_endian")
      lpi   == [i \in ToSet(LpiNames) |-> LpiFields[CHOOSE k \in 1 .. 10 : LpiNames[k] = i]]
  IN  ("gpy2xx_ptp_set_ppsctrl" :> (("ppsCtrlLow" :> "raw_pps_ctrl_low")
            @@ ("targetSec" :> "sec_tgttime") @@ ("targetNsc" :> "nsec_tgttime")
            @@ ("ppsInterval" :> "pps0_interal") @@ ("ppsWidth" :> "pps0_width")))
      @@ ("gpy2xx_synce_cfg" :> (("enSyncE" :> "synce_enable") @@ ("synceRefClk" :> "synce_refclk")
            @@ ("masterSlave" :> "master_sel") @@ ("dataRate" :> "data_rate")
            @@ ("gpcSel" :> "gpc_sel")))
      @@ ("gpy2xx_ads_cfg" :> (("advertise_enable" :> "no_nrg_rst")
            @@ ("NBaseT_ds_enable" :> "downshift_en") @@ ("downshift_cnt_thr" :> "downshift_thr")
            @@ ("force_reset" :> "force_rst") @@ ("rst_cntdown_timer" :> "nrg_rst_cnt")))
      @@ ("gpy2xx_ulp_cfg" :> (("ulp_enable" :> "ulp_en") @@ ("ulp_sta_block" :> "ulp_sta_block")
            @@ ("ulp_exit" :> "ulp_exit") @@ ("master_slice" :> "master_slice")))
      @@ ("gpy2xx_sgmii_config_aneg" :> (("linkcfg_dir" :> "linkcfg_dir")
            @@ ("aneg_mode" :> "aneg_mode") @@ ("eee_enable" :> "eee_enable")
            @@ ("autoneg" :> "autoneg") @@ ("speed" :> "speed") @@ ("fixed2G5" :> "fixed2g5")
            @@ ("duplex" :> "duplex")))
      @@ ("gpy2xx_sgmii_opmode" :> ("opMode" :> "opMode"))
      @@ ("gpy2xx_macsec_enable" :> drops)
      @@ ("gpy2xx_gmacx_pm_pdi_cfg" :> (("bpMac" :> "bypass_gmac") @@ ("bpMsec" :> "bypass_macsec")
            @@ drops @@ ("cust3gEn" :> "cust_3g_en") @@ ("sgmiiLb" :> "sgmii_lb_en")))
      @@ ("gpy2xx_gmacf_pm_cfg" :> pm) @@ ("gpy2xx_gmacl_pm_cfg" :> pm)
      @@ ("gpy2xx_gmacf_lpi_cfg" :> lpi) @@ ("gpy2xx_gmacl_lpi_cfg" :> lpi)

Usage == RegisterUsage @@ PtpUsage @@ DeviceUsage @@ PhyUsage

(* The value words the help text gives for a parameter besides numbers    *)
(* and true/false: "dis/en" and DUPLEX_FULL/DUPLEX_HALF, and what each     *)
(* means (DUPLEX_HALF is 0 in ethtool).                                    *)
HelpMeaning == ("dis" :> 0) @@ ("en" :> 1) @@ ("DUPLEX_FULL" :> DUPLEX_FULL) @@ ("DUPLEX_HALF" :> 0)

DocumentedWords(c, q) ==
  CASE c \in {"gpy2xx_macsec_enable", "gpy2xx_gmacx_pm_pdi_cfg"} -> {"dis", "en"}
    [] c \in {"gpy2xx_gmacf_pm_cfg", "gpy2xx_gmacl_pm_cfg"} /\ q # "crcPad" -> {"dis", "en"}
    [] c \in {"gpy2xx_gmacf_lpi_cfg", "gpy2xx_gmacl_lpi_cfg"} /\ q \in ToSet(SubSeq(LpiNames, 1, 6)) -> {"dis", "en"}
    [] c = "gpy2xx_sgmii_config_aneg" /\ q = "duplex" -> {"DUPLEX_FULL", "DUPLEX_HALF"}
    [] OTHER -> {}

(***************************************************************************)
(* The process.  pc is where main is; fd is mdio.fd; ret is main's ret;    *)
(* ran is the branch cmdProcessor took ("none" before it runs); args the  *)
(* values of the library call's arguments when the branch is one of        *)
(* ArgBranches; build the byte order and sizeof(long) of the binary.       *)
(***************************************************************************)
VARIABLES pc, argv, fd, ret, ran, args, build

vars == <<pc, argv, fd, ret, ran, args, build>>

(* argv[i]; argv[argc] is NULL.                                            *)
Arg(i) == IF i <= Len(argv) THEN argv[i] ELSE Null

Init ==
  /\ pc = "main"
  /\ argv \in Lines
  /\ fd = "unopened"
  /\ ret = 0
  /\ ran = "none"
  /\ args = << >>
  /\ build \in [endian : Endians, long : LongSizes]

(* main: without a phyId argument it prints an error and calls exit(0).    *)
(* scanParamArg's phy address is not tracked: no branch here depends on it.*)
main ==
  /\ pc = "main"
  /\ IF xstrncasecmp(Arg(1), "phyId", 5) # 0
       THEN pc' = "exit"
       ELSE pc' = "init"
  /\ UNCHANGED <<argv, fd, ret, ran, args, build>>

(* init: a failed open sets ret to -1, and ret is then overwritten by      *)
(* gpy2xx_init's result; main goes to end on a negative result.            *)
init ==
  /\ pc = "init"
  /\ \E opened \in (IF OpenCanFail THEN BOOLEAN ELSE {TRUE}), r \in InitResults :
       /\ fd' = IF opened THEN "open" ELSE "failed"
       /\ ret' = r
       /\ pc' = IF r < 0 THEN "end" ELSE "cmd"
  /\ UNCHANGED <<argv, ran, args, build>>

(* cmdProcessor runs one branch and returns 0, which main ignores.  The     *)
(* uninitialised locals of a branch hold whatever the stack held.           *)
cmdProcessor ==
  /\ pc = "cmd"
  /\ LET r == Dispatch(Program, Arg(2), Arg(3))
         branches == ArgBranches(build.long)
     IN  /\ ran' = r
         /\ \E g \in Garbage, getOk \in (IF GetCanFail THEN BOOLEAN ELSE {TRUE}) :
              args' = IF r \in DOMAIN branches
                        THEN RunBranch(argv, branches[r], build.endian, g, getOk)
                        ELSE << >>
  /\ pc' = "end"
  /\ UNCHANGED <<argv, fd, ret, build>>

(* end: close(mdio.fd), also when the open failed; main returns ret.       *)
end ==
  /\ pc = "end"
  /\ fd' = "closed"
  /\ pc' = "exit"
  /\ UNCHANGED <<argv, ret, ran, args, build>>

Next == main \/ init \/ cmdProcessor \/ end

Spec == Init /\ [][Next]_vars

(***************************************************************************)
(* Properties.                                                             *)
(***************************************************************************)

Names(names, feature) ==
  LET idx == Compiled(names, feature) IN {names[idx[j]] : j \in 1..Len(idx)}

(* The command word selects its command: when argv[2] is exactly the name  *)
(* of a command gpy211_main has compiled in, or argv[2] is "msec" and      *)
(* argv[3] exactly the name of a compiled-in gpy2xx_msec_main command,     *)
(* cmdProcessor runs that command's branch and no other.  The prefix       *)
(* comparisons of the chains break this when an earlier name of a chain    *)
(* is a prefix of a later one.                                              *)
NamedCommandRuns ==
  ran # "none" =>
    /\ Arg(2) \in Names(Gpy211Names, Gpy211Features) => ran = Arg(2)
    /\ Arg(2) = "msec" /\ Arg(3) \in Names(MsecNames, MsecFeatures)
         => ran = Arg(3)

(* The value a documented parameter has on the line (what scanParamArg    *)
(* would read for it), or Null when it is missing or not a number.         *)
Given(q) ==
  LET p == findArgParam(argv, q)
  IN  CASE p = Null                -> Null
        [] p \in DOMAIN HelpMeaning -> HelpMeaning[p]
        [] OTHER                   -> scanValue(p)

(* The value command c's own default gives field a (0 without one).        *)
Default(c, a) ==
  LET ors == SelectSeq(ArgBranches(build.long)[c].body, LAMBDA s : s.op = "scanor" /\ s.var = a)
  IN  IF ors = << >> THEN 0 ELSE ors[1].dflt

(* The fields of command c that a library get fills before the scans.     *)
Fetched(c) ==
  LET gets == SelectSeq(ArgBranches(build.long)[c].body, LAMBDA s : s.op = "get")
  IN  UNION {gets[i].var : i \in 1..Len(gets)}

(* The library gets what the line says.  When cmdProcessor has run a       *)
(* branch that scans parameters and it reached its library call, every     *)
(* call argument the help text documents holds the value of its parameter  *)
(* on the line (a value word of the help text meaning what the help says), *)
(* at the width of the local it travels in; when the line does not give    *)
(* it, the value the PHY reported for it where the branch reads the        *)
(* configuration first, the branch's own default where it has one, and 0   *)
(* (the memset/initialiser) otherwise.  Stale reuse of one local for       *)
(* several fields, uninitialised locals, a store narrower than the local,  *)
(* a scan before the read that the read overwrites, a name the code        *)
(* spells differently or never scans, and a help value word scanParamArg   *)
(* cannot read all break it.                                               *)
ArgsFromLine ==
  ran \in DOMAIN Usage /\ args # << >> =>
    \A q \in DOMAIN Usage[ran] :
      LET a   == Usage[ran][q]
          got == args[a]
      IN  got = IF Given(q) # Null THEN Bytes(Given(q), Len(got))
                ELSE IF a \in Fetched(ran) THEN [k \in 1..Len(got) |-> DeviceByte]
                ELSE Bytes(Default(ran, a), Len(got))

====
