------------------------------ MODULE Settings -------------------------------
(* The settings a run has: fmtkit.toml as it is found, read and refused, the  *)
(* flags and variables on top of it (crates/config/src/lib.rs, prepare of     *)
(* crates/cli/src/main.rs), and the linter that is built from them            *)
(* (Linter::new of crates/lint/src/lib.rs, build of oxc_bridge.rs).           *)
(*                                                                            *)
(* A TOML text is the settings it gives.  A rule's name is its prefix ("" for *)
(* none) and its rule.  A rule's setting is the list of its values; a single  *)
(* value is read as a list of it alone.  A value has a kind and a word.       *)
EXTENDS Integers, Sequences

LOCAL INSTANCE SequencesExt
LOCAL INSTANCE TLC

CONSTANTS
    Names,          \* the names of rules, in the order of their bytes
    Natives,        \* the names of the native rules (rules::registry)
    Canonical,      \* the plugin a prefix stands for (normalize_plugin_name)
    Plugins,        \* the plugins oxc_linter has (LintPlugins)
    Shipped,        \* the rules oxc_linter has, as <<plugin, rule>> (RULES)
    Rejected,       \* the option values no rule takes
    Cpus            \* available_parallelism, or 1

None == <<>>

--------------------------------------------------------------------------------
(* fmtkit.toml.                                                               *)

Defaults ==
    [jobs |-> 0, exclude |-> <<"node_modules/", "vendor/">>, resolve_imports |-> FALSE, gofmt |-> TRUE, tab_width |-> 4,
     print_width |-> 200, bundled |-> TRUE, rules |-> <<>>, ignore |-> <<>>, cyclomatic |-> 15, cognitive |-> 20, allow |-> <<>>]

severity_of(setting) ==
    IF setting.items # <<>> /\ Head(setting.items).kind = "string" /\ Head(setting.items).word \in {"off", "allow", "warn", "error", "deny"}
    THEN Head(setting.items).word ELSE "malformed"

\* An entry of complexity.allow is a key, with its '#' or without.
Faulty(config, check) ==
    CASE check = "tab_width" -> config.tab_width = 0
      [] check = "print_width" -> config.print_width = 0
      [] check = "allow" -> (\E k \in DOMAIN config.allow : ~config.allow[k].hash) \/ ~IsInjective(config.allow)
      [] check = "rules" -> \E name \in DOMAIN config.rules : severity_of(config.rules[name]) = "malformed"

\* The first of the checks that fails, "ok" when none does.
validate(config) == Head(SelectSeq(<<"tab_width", "print_width", "allow", "rules">>, LAMBDA check : Faulty(config, check)) \o <<"ok">>)

parse(text) ==
    IF DOMAIN text \subseteq DOMAIN Defaults THEN [error |-> validate(text @@ Defaults), config |-> text @@ Defaults]
    ELSE [error |-> "parse", config |-> Defaults]

\* The file that is read; explicit is what FMTKIT_CONFIG names, if anything,
\* with a relative path found under the root.
Path(explicit) == IF explicit = None THEN <<"root", "fmtkit.toml">> ELSE IF explicit[1].absolute THEN <<"", explicit[1].name>> ELSE <<"root", explicit[1].name>>

load_from_Lenient(disk, explicit) ==
    LET file == disk[Path(explicit)]
    IN  IF file.is = "text" THEN parse(file.text) ELSE [error |-> "ok", config |-> Defaults]

\* disk: what is at a path, "text" or a file that cannot be read, or no file
\* at all.
load_from(disk, explicit) ==
    LET file == disk[Path(explicit)]
    IN  CASE file.is = "text" -> parse(file.text)
          [] file.is # "text" /\ (explicit # None \/ file.is = "unreadable") -> [error |-> "read", config |-> Defaults]
          [] OTHER -> [error |-> "ok", config |-> Defaults]

\* What is no number is refused even when the flag is given.
Junk == -1
resolve_jobs(config, flag, variable) ==
    LET given == Head(flag \o variable \o <<config.jobs>>)
    IN  IF variable = <<Junk>> THEN Junk ELSE IF given = 0 THEN Cpus ELSE given

\* Every setting that can change what becomes of a file, and no other.
hash(config) == [key \in DOMAIN config \ {"jobs", "exclude", "allow"} |-> config[key]]

prepare(call, disk) ==
    LET loaded == load_from(disk, call.explicit)
        config == [loaded.config EXCEPT !.resolve_imports = @ \/ call.resolve_imports]
        jobs == resolve_jobs(config, call.jobs, call.variable)
    IN  [error |-> IF loaded.error = "ok" /\ jobs = Junk THEN "jobs" ELSE loaded.error,
         config |-> config, jobs |-> jobs, lanes |-> IF call.go THEN {"go"} ELSE IF call.ts THEN {"ts"} ELSE {}]

--------------------------------------------------------------------------------
(* The linter.  The policy has rules, plugins and overrides; only its rules   *)
(* can be set anew.                                                           *)

normalize_rule_name(name) == <<Canonical[name[1]], name[2]>>
rule_key(name) == IF name \in Natives THEN name ELSE normalize_rule_name(name)

\* "malformed", or how much a setting makes of what its rule finds.
Level(value) ==
    CASE <<value.kind, value.word>> \in {"string"} \X {"off", "allow"} \cup {<<"number", "0">>} -> "off"
      [] <<value.kind, value.word>> \in {<<"string", "warn">>, <<"number", "1">>} -> "warning"
      [] <<value.kind, value.word>> \in {"string"} \X {"error", "deny"} \cup {<<"number", "2">>} -> "error"
      [] OTHER -> "malformed"

split_setting(setting) ==
    IF setting.items = <<>> THEN [level |-> "malformed", options |-> <<>>]
    ELSE [level |-> Level(Head(setting.items)), options |-> Tail(setting.items)]

owner(key) ==
    CASE Canonical[key[1]] = "" -> "eslint"
      [] Canonical[key[1]] \in Plugins -> Canonical[key[1]]
      [] OTHER -> "unknown"

known_oxc_rule(key) ==
    \/ <<IF key[1] = "" THEN "eslint" ELSE key[1], key[2]>> \in Shipped
    \/ key[1] = "typescript" /\ <<"eslint", key[2]>> \in Shipped

\* Entries in the order they are written in, and later ones in the place of
\* earlier ones that mean the same rule.
Entries(rules) ==
    LET names == SelectSeq(Names, LAMBDA name : name \in DOMAIN rules)
    IN  [k \in DOMAIN names |-> [name |-> names[k], setting |-> rules[names[k]]]]

Base(policy, config) ==
    IF config.bundled THEN policy ELSE [rules |-> <<>>, plugins |-> {}, overrides |-> TRUE]

merged_ByName(policy, config) ==
    FoldLeft(LAMBDA all, entry : (entry.name :> entry) @@ all, <<>>, Entries(Base(policy, config).rules) \o Entries(config.rules))

merged(policy, config) ==
    FoldLeft(LAMBDA all, entry : (rule_key(entry.name) :> entry) @@ all, <<>>, Entries(Base(policy, config).rules) \o Entries(config.rules))

Refuses(options) == \E k \in DOMAIN options : options[k] \in Rejected

\* One rule on its way to the native rules or to oxc_linter.
RouteRule(built, key, entry, split) ==
    IF \/ built.error # None
       \/ key \in Natives /\ split.level = "off"
    THEN built
    ELSE IF \/ split.level = "malformed"
            \/ key \in Natives /\ Refuses(split.options)
            \/ key \notin Natives /\ (owner(key) = "unknown" \/ ~known_oxc_rule(key))
    THEN [built EXCEPT !.error = <<entry.name>>]
    ELSE IF key \in Natives THEN [built EXCEPT !.natives = (key :> split.level) @@ @]
    ELSE [built EXCEPT !.plugins = @ \cup ({owner(key)} \ {"eslint"}), !.oxc = (key :> entry.setting) @@ @]

\* oxc_linter takes a configuration whose overrides it knows, and the options
\* of whose rules.
build_store(overrides, rules) ==
    /\ overrides
    /\ \A key \in DOMAIN rules : split_setting(rules[key]).level # "off" => ~Refuses(split_setting(rules[key]).options)

\* The first rule that is refused alone.
attribute_error(oxc) ==
    Head(SelectSeq(Names, LAMBDA key : key \in DOMAIN oxc /\ ~build_store(TRUE, key :> oxc[key])) \o <<<<"", "overrides">>>>)

build(policy, config) ==
    LET rules == merged(policy, config)
        base == Base(policy, config)
        built == FoldLeft(LAMBDA so_far, key : RouteRule(so_far, key, rules[key], split_setting(rules[key].setting)),
                          [error |-> None, natives |-> <<>>, oxc |-> <<>>, plugins |-> base.plugins],
                          SelectSeq(Names, LAMBDA key : key \in DOMAIN rules))
    IN  IF built.error = None /\ ~build_store(base.overrides, built.oxc)
        THEN [built EXCEPT !.error = <<attribute_error(built.oxc)>>]
        ELSE built

\* The linter of a configuration: that of its rules, unless a pattern of its
\* ignore list is not one.
Linter(policy, config) ==
    LET built == build(policy, config)
    IN  IF built.error = None /\ ~(\A k \in DOMAIN config.ignore : config.ignore[k]) THEN [built EXCEPT !.error = <<<<"", "ignore">>>>] ELSE built
==============================================================================
