------------------------------- MODULE Config --------------------------------
(***************************************************************************)
(* The configuration a process starts with (internal/config): providers are *)
(* applied in the order they were selected, each on the result of those     *)
(* before it, and the result is validated.                                  *)
(*                                                                          *)
(* A value is named by the position of the provider that supplied it, Unset *)
(* when it is empty.  The database stands for all the single settings, and  *)
(* the SMTP servers for the lists of notification backends; host stands for *)
(* the fields a server needs and password for those it does not.            *)
(***************************************************************************)
EXTENDS Sequences, Integers, FiniteSets

CONSTANT Selections   \* lists of providers that may be selected, each once

ASSUME SelectionsAssumption ==
    \A s \in Selections : Len(s) \in 1..3 /\ s \in Seq({"yaml", "azure-app-config", "environment"})

Unset == 0

\* What a source says of a setting: nothing, an empty value, one that does not
\* parse, or a usable one.
Written == {"absent", "empty", "invalid", "usable"}

\* An item of a list in YAML or JSON, which may leave fields out.
WrittenItem == [host : {"absent", "usable"}, password : {"absent", "usable"}]

\* listed: the source has a list of servers, which may be empty.
FileSource ==
    {source \in [database : Written, listed : BOOLEAN,
                 smtp : UNION {[1..n -> WrittenItem] : n \in 0..2}] :
        ~source.listed => source.smtp = <<>>}

\* Variables: the database and the fields of one server.
EnvironmentSource ==
    [database : Written,
     host : {"absent", "usable"}, password : {"absent", "invalid", "usable"}]

SourcesOf(provider) ==
    IF provider = "environment" THEN EnvironmentSource ELSE FileSource

\* What the sources of the selected providers may say.
AllSources(selection) ==
    LET S(i) == SourcesOf(selection[i]) IN
    CASE Len(selection) = 1 -> {<<source>> : source \in S(1)}
      [] Len(selection) = 2 -> S(1) \X S(2)
      [] Len(selection) = 3 -> S(1) \X S(2) \X S(3)

EmptyConfig == [database |-> Unset, smtp |-> <<>>]

NewItem == [host |-> Unset, password |-> Unset]

-----------------------------------------------------------------------------
(* One provider, at position i. *)

\* A setting that is present replaces the earlier one, also when it is empty.
ApplyScalar(i, written, old) ==
    CASE written = "absent" -> old
      [] written = "empty"  -> Unset
      [] written = "usable" -> i

ApplyItem(i, item) ==
    [host     |-> ApplyScalar(i, item.host, Unset),
     password |-> ApplyScalar(i, item.password, Unset)]

\* applyYAMLConfig, for both kinds of files: a list that is present replaces
\* the whole list.
applyYAMLConfig(i, source, config) ==
    [database |-> ApplyScalar(i, source.database, config.database),
     smtp     |-> IF ~source.listed THEN config.smtp
                  ELSE [n \in DOMAIN source.smtp |-> ApplyItem(i, source.smtp[n])]]

\* An empty variable is no variable.
NonEmpty(written) == IF written = "empty" THEN "absent" ELSE written

\* Mutant: a server from the environment replaces the first server.
EnvReplacesServer(i, source, smtp) ==
    IF source.host = "absent" /\ source.password = "absent" THEN smtp
    ELSE LET item == [host |-> ApplyScalar(i, source.host, Unset),
                      password |-> ApplyScalar(i, source.password, Unset)] IN
         IF smtp = <<>> THEN <<item>> ELSE [smtp EXCEPT ![1] = item]

\* Variables override fields of the first server, which they may create.
applySMTPEnvOverrides(i, source, smtp) ==
    IF source.host = "absent" /\ source.password = "absent" THEN smtp
    ELSE LET first == IF smtp = <<>> THEN NewItem ELSE smtp[1]
             item == [host |-> ApplyScalar(i, source.host, first.host),
                      password |-> ApplyScalar(i, source.password, first.password)] IN
         IF smtp = <<>> THEN <<item>> ELSE [smtp EXCEPT ![1] = item]

ApplyEnvironment(i, source, config) ==
    [database |-> ApplyScalar(i, NonEmpty(source.database), config.database),
     smtp     |-> applySMTPEnvOverrides(i, source, config.smtp)]

\* A value that does not parse fails the provider, and with it the start.
ApplyError(source) ==
    \/ source.database = "invalid"
    \/ "password" \in DOMAIN source /\ source.password = "invalid"

-----------------------------------------------------------------------------
(* Load *)

Applied(selection, sources) ==
    LET after[i \in 0..Len(selection)] ==
            IF i = 0 THEN EmptyConfig
            ELSE IF selection[i] = "environment"
                   THEN ApplyEnvironment(i, sources[i], after[i - 1])
                   ELSE applyYAMLConfig(i, sources[i], after[i - 1])
    IN after[Len(selection)]

\* normalize: an unset optional setting gets its default; the database is required.
NormalizeError(config) == config.database = Unset

LoadError(selection, sources) ==
    (\E i \in DOMAIN selection : ApplyError(sources[i]))
        \/ NormalizeError(Applied(selection, sources))

-----------------------------------------------------------------------------
(* What the documentation promises: "Later providers override values        *)
(* supplied by earlier providers" and "Non-empty STICK_* variables override *)
(* values from earlier providers", setting by setting.                      *)

LastOf(positions) ==
    IF positions = {} THEN 0
    ELSE CHOOSE i \in positions : \A j \in positions : j <= i

Mentions(provider, written) ==
    written \notin (IF provider = "environment" THEN {"absent", "empty"} ELSE {"absent"})

LastMention(selection, sources, key) ==
    LET last == LastOf({i \in DOMAIN selection : Mentions(selection[i], sources[i][key])}) IN
    IF last # 0 /\ sources[last][key] = "usable" THEN last ELSE Unset

\* The list is that of the last file that has one; variables read after that
\* file decide over the fields of its first server.
PromisedServers(selection, sources) ==
    LET file == LastOf({i \in DOMAIN selection :
                           selection[i] # "environment" /\ sources[i].listed})
        list == IF file = 0 THEN <<>> ELSE sources[file].smtp
        Later(field) == LastOf({i \in DOMAIN selection :
                           i > file /\ selection[i] = "environment"
                           /\ sources[i][field] = "usable"})
        size == IF list = <<>> /\ (Later("host") # 0 \/ Later("password") # 0)
                  THEN 1 ELSE Len(list)
        Field(n, field) ==
            IF n = 1 /\ Later(field) # 0 THEN Later(field)
            ELSE IF n <= Len(list) /\ list[n][field] = "usable" THEN file ELSE Unset
    IN [n \in 1..size |-> [host |-> Field(n, "host"), password |-> Field(n, "password")]]

Promised(selection, sources) ==
    [database |-> LastMention(selection, sources, "database"),
     smtp     |-> PromisedServers(selection, sources)]
=============================================================================
