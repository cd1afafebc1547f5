---------------------------- MODULE Configuration ----------------------------
(***************************************************************************)
(* The configuration of a process: what import Pyro4 makes of the          *)
(* environment (Pyro4._configLogging, Configuration.reset), and a daemon   *)
(* that is made from it.  reset sets one item after the other: a daemon    *)
(* may be made in between, or after a reset that was broken off.           *)
(***************************************************************************)
EXTENDS Values, Naturals, Sequences

CONSTANTS
    ItemOrder,      \* the items, in the order of __slots__
    Boolean, Number, Optional,  \* items by their default's type: bool, int or float, None;
                                \* SERIALIZERS_ACCEPTED is the one of the rest
    EnvText,        \* of each item, the texts that its environment variable may have
    MaxResets       \* bound: resets

ConfigItem == {ItemOrder[i] : i \in 1..Len(ItemOrder)}
Accepted == "SERIALIZERS_ACCEPTED"
Off == {"0", "off", "no", "false", "OFF"}
On == {"1", "yes", "on", "true"}
Numeral == {"0", "1", "7"}
Serializers == {"serpent,marshal,json", "json"}     \* texts that name available serializers

ASSUME ConfigAssumption ==
    /\ ItemOrder \in Seq(STRING)
    /\ Accepted \in ConfigItem \ (Boolean \cup Number \cup Optional)
    /\ None \notin {"disabled", "kept", "console", "file"}

VARIABLES
    env,        \* PYRO_ variables: a text of each item, or None
    log,        \* "disabled", "kept", "console" or "file"; None before import
    config,     \* of each item its value: <<its type, what it says>>
    resetting,  \* [next: index of an item, 0 before SERIALIZERS_ACCEPTED has its default,
                \*  useenv], or None
    lastReset,  \* history: of the last reset [how: "begun", "done" or "error", useenv]
    daemonsMade,    \* history: daemons' configurations, and lastReset when they were made
    resets      \* resets so far

configVars == <<env, log, config, resetting, lastReset, daemonsMade, resets>>

(* Mutant: SERIALIZERS_ACCEPTED has its final form from the beginning. *)
DefaultSet(i) ==
    CASE i \in Boolean -> <<"bool", FALSE>>
      [] i \in Number -> <<"number", "0">>
      [] i \in Optional -> <<"None", None>>
      [] i = Accepted -> <<"set", "serpent,marshal,json">>

(* The defaults. *)
Default(i) ==
    CASE i \in Boolean -> <<"bool", FALSE>>
      [] i \in Number -> <<"number", "0">>
      [] i \in Optional -> <<"None", None>>
      [] i = Accepted -> <<"str", "serpent,marshal,json">>

ConfigInit ==
    /\ env = None /\ log = None /\ resetting = None /\ lastReset = None /\ daemonsMade = {}
    /\ resets = 0
    /\ config = [i \in ConfigItem |-> Default(i)]

(* _configLogging, when Pyro4 is imported.  With a level: the program's    *)
(* own handlers are kept; otherwise to a file, if it can be written, or    *)
(* to the console.  An unknown level makes the import fail.                *)
LogTarget(level, handlers, file, writable) ==
    IF ~level THEN "disabled" ELSE IF handlers THEN "kept"
    ELSE IF file /\ writable THEN "file" ELSE "console"

Resets(useenv) ==
    /\ resetting' = [next |-> 0, useenv |-> useenv] /\ resets' = resets + 1
    /\ lastReset' = [how |-> "begun", useenv |-> useenv]

Import ==
    /\ log = None /\ env' \in [ConfigItem -> UNION {EnvText[i] : i \in ConfigItem} \cup {None}]
    /\ \A i \in ConfigItem : env'[i] \in EnvText[i] \cup {None}
    /\ \E level, handlers, file, writable \in BOOLEAN :
        log' = LogTarget(level, handlers, file, writable)
    /\ Resets(TRUE) /\ UNCHANGED <<config, daemonsMade>>

(* reset begins with the defaults; until SERIALIZERS_ACCEPTED gets its own *)
(* the old set is still there.                                             *)
BeginReset(useenv) ==
    /\ log # None /\ resetting = None /\ resets < MaxResets
    /\ config' = [i \in ConfigItem |-> IF i = Accepted THEN config[i] ELSE Default(i)]
    /\ Resets(useenv)
    /\ UNCHANGED <<env, log, daemonsMade>>

DefaultAccepted ==
    /\ resetting # None /\ resetting.next = 0 /\ resetting' = [resetting EXCEPT !.next = 1]
    /\ config' = [config EXCEPT ![Accepted] = Default(Accepted)]
    /\ UNCHANGED <<env, log, lastReset, daemonsMade, resets>>

(* The value that a text gives an item; None stands for a ValueError.  An  *)
(* item whose default is None keeps the text.                              *)
Cast(i, text) ==
    IF i \in Optional \/ i = Accepted THEN <<"str", text>>
    ELSE IF i \in Number THEN IF text \in Numeral THEN <<"number", text>> ELSE None
    ELSE IF text \in Off THEN <<"bool", FALSE>>
    ELSE IF text \in On THEN <<"bool", TRUE>> ELSE None

SetConfigItem ==
    LET i == ItemOrder[resetting.next]
        value == IF resetting.useenv /\ env[i] # None THEN Cast(i, env[i]) ELSE config[i]
    IN  /\ resetting # None /\ resetting.next \in 1..Len(ItemOrder)
        /\ IF value = None THEN resetting' = None /\ lastReset' = [lastReset EXCEPT !.how = "error"]
                /\ UNCHANGED config
           ELSE /\ resetting' = [resetting EXCEPT !.next = @ + 1]
                /\ config' = [config EXCEPT ![i] = value] /\ UNCHANGED lastReset
        /\ UNCHANGED <<env, log, daemonsMade, resets>>

(* At the end the text of the accepted serializers becomes a set. *)
SplitAccepted ==
    /\ resetting # None /\ resetting.next > Len(ItemOrder)
    /\ config' = [config EXCEPT ![Accepted] = <<"set", @[2]>>]
    /\ resetting' = None /\ lastReset' = [lastReset EXCEPT !.how = "done"]
    /\ UNCHANGED <<env, log, daemonsMade, resets>>

(* Daemon.__init__ looks up each serializer of the set, and raises         *)
(* SerializeError for one that is unknown, as it does for the characters   *)
(* of a text.                                                              *)
MakeDaemon ==
    /\ resets > 1 \/ (resets = 1 /\ resetting = None)    \* imported
    /\ config[Accepted][1] = "set" /\ config[Accepted][2] \in Serializers
    /\ daemonsMade' = daemonsMade \cup {[config |-> config, reset |-> lastReset]}
    /\ UNCHANGED <<env, log, config, resetting, lastReset, resets>>

ConfigNext ==
    \/ Import \/ \E useenv \in BOOLEAN : BeginReset(useenv)
    \/ DefaultAccepted \/ SetConfigItem \/ SplitAccepted \/ MakeDaemon

ConfigSpec == ConfigInit /\ [][ConfigNext]_configVars

-----------------------------------------------------------------------------
(* Properties *)

(* What an item should be after a reset. *)
Meant(i, useenv) ==
    LET value == IF useenv /\ env[i] # None THEN Cast(i, env[i]) ELSE Default(i)
    IN  IF i = Accepted THEN <<"set", value[2]>> ELSE value

(* No daemon is made from the rest of a reset that a wrong environment     *)
(* variable has broken off, and one that is made after a complete reset    *)
(* has what the environment says, the accepted serializers included        *)
(* (configuration lines 40-112, core line 1157).                           *)
MadeFromComplete ==
    \A d \in daemonsMade :
        /\ d.reset.how # "error"
        /\ d.reset.how = "done" => \A i \in ConfigItem : d.config[i] = Meant(i, d.reset.useenv)
=============================================================================
