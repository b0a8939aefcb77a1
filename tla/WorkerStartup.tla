--------------------------- MODULE WorkerStartup ---------------------------
(***************************************************************************)
(* From a configuration file to a running worker: parse_config (config.py), *)
(* the routing tables of P2PMappingIndex (mapping.py) and the comparison of *)
(* the mapped channels with OpenEvent (syncer.py, _validate_channels).  The *)
(* operator edits one field of the file or of a channel at a time, and may  *)
(* repair what was refused.                                                 *)
(*                                                                         *)
(* A field holds Bad when it is missing, empty or of the wrong type, and    *)
(* Absent when it is left out and has a default.  Strings are names.        *)
(***************************************************************************)
EXTENDS Integers, Sequences, FiniteSets, ImCodec

CONSTANTS
    Apps, Users, Sessions,   \* app_ids, open_ids and chat ids
    InitialConfig, InitialChannels,
    Numbers,                 \* numbers tried in numeric fields
    MaxEdits                 \* BOUND on edits

VARIABLES
    config,       \* the file
    channels,     \* OpenEvent: [channel id -> metadata]
    edits, phase,
    unchecked,    \* channels the current step has not come to
    indexed,      \* channels in the tables of P2PMappingIndex
    stop_event

startup == <<config, channels, edits, phase, unchecked, indexed, stop_event>>

-----------------------------------------------------------------------------
(* The fields of a file.                                                   *)

TextFields == {"version", "worker.token", "openevent.target", "app_secret",
               "principal_tokens.token", "api_base_url"}

(* retry, worker, providers[].sync and providers[].options, with the least  *)
(* value and the default of each.                                           *)
Least ==
    [shutdown_timeout_ms |-> 0, publish_max_attempts |-> 1,
     publish_retry_delay_ms |-> 0, idle_sleep_ms |-> 0,
     history_retry_delay_ms |-> 0, history_overlap_ms |-> 0,
     history_lookback_ms |-> 1, page_size |-> 1, event_queue_size |-> 1,
     timeout_seconds |-> 1, event_connect_timeout_seconds |-> 1,
     event_reconnect_timeout_seconds |-> 1]

Default ==
    [shutdown_timeout_ms |-> 10000, publish_max_attempts |-> 5,
     publish_retry_delay_ms |-> 200, idle_sleep_ms |-> 200,
     history_retry_delay_ms |-> 1000, history_overlap_ms |-> 300000,
     history_lookback_ms |-> 300000, page_size |-> 50,
     event_queue_size |-> 1000, timeout_seconds |-> 10,
     event_connect_timeout_seconds |-> 30,
     event_reconnect_timeout_seconds |-> 300]

NumberFields == DOMAIN Least

Sections == {"worker", "openevent", "retry", "logging", "providers", "sync",
             "credentials", "options", "mappings"}

(* Sections that refuse the fields of older versions.                       *)
Migrated == {"openevent", "retry", "providers", "sync", "mappings"}

-----------------------------------------------------------------------------
(* What a file may hold.                                                   *)

Principals == 0 .. UInt64Max + 1

MappingValues ==
    [provider |-> {"feishu", "lark", Bad},
     identity_type |-> {"user", "bot", Absent, Bad},
     external_user_id |-> Apps \cup Users \cup {Bad},
     principal |-> Principals,
     session_id |-> Sessions \cup {Bad},
     channel_id |-> {0} \cup DOMAIN InitialChannels]

Mappings ==
    [provider : MappingValues.provider,
     identity_type : MappingValues.identity_type,
     external_user_id : MappingValues.external_user_id,
     principal : MappingValues.principal,
     session_id : MappingValues.session_id,
     channel_id : MappingValues.channel_id]

Configs ==
    [texts : [TextFields -> {"text", Bad}],
     numbers : [NumberFields -> Int \cup {Absent, Bad}],
     sections : [Sections -> {"fields", "removed fields", Bad}],
     worker : Principals,
     tokens : Seq(Principals),
     providers : Seq([name : {"feishu", "lark", Bad}, app_id : Apps \cup {Bad}])
                   \ {<<>>},
     mappings : Seq(Mappings)]

(* Bad and Absent are no values of a field, and a channel id is a uint64.   *)
ASSUME StartupAssumption ==
    /\ UInt64Max \in Nat /\ MaxEdits \in Nat /\ Numbers \subseteq Int
    /\ Bad # Absent
    /\ \A v \in {Bad, Absent} :
         v \notin Int \cup Apps \cup Users \cup Sessions
                   \cup {"user", "bot", "feishu", "lark", "text", "fields",
                         "removed fields"}
    /\ InitialConfig \in Configs
    /\ DOMAIN InitialChannels \subseteq 1 .. UInt64Max

-----------------------------------------------------------------------------
(* parse_config: the checks of a field, a section, the lists and all.       *)

ParseNumber(f, v) ==
    \/ v = Absent
    \/ v \in Int /\ v >= Least[f] /\ (f = "page_size" => v <= 50)

Setting(f) == IF config.numbers[f] = Absent THEN Default[f]
              ELSE config.numbers[f]

ParseSection(s, v) == v = "fields" \/ (v = "removed fields" /\ s \notin Migrated)

(* Mutant: the worker may be among the participants.                       *)
ParsePrincipalTokensOfAll(tokens, worker) ==
    /\ tokens # <<>>
    /\ \A i \in DOMAIN tokens :
         /\ PositiveUInt64(tokens[i])
         /\ \A j \in 1 .. i - 1 : tokens[j] # tokens[i]

ParsePrincipalTokens(tokens, worker) ==
    /\ tokens # <<>>
    /\ \A i \in DOMAIN tokens :
         /\ PositiveUInt64(tokens[i])
         /\ tokens[i] # worker
         /\ \A j \in 1 .. i - 1 : tokens[j] # tokens[i]

ParseProviders(providers) ==
    /\ Len(providers) = 1
    /\ \A i \in DOMAIN providers : /\ providers[i].name \in {"feishu", "lark"}
                                   /\ providers[i].app_id # Bad

IdentityType(e) == IF e.identity_type = Absent THEN "user"
                   ELSE e.identity_type

ParseMappings(mappings) ==
    /\ mappings # <<>>
    /\ \A i \in DOMAIN mappings :
         LET e == mappings[i]
         IN  /\ Bad \notin {e.provider, e.external_user_id, e.session_id}
             /\ IdentityType(e) \in {"user", "bot"}
             /\ PositiveUInt64(e.principal) /\ PositiveUInt64(e.channel_id)

(* Mutant: the bot may be another app than the one that is connected.      *)
ValidateProviderRefsByName(providers, mappings) ==
    \A i \in DOMAIN mappings :
        \E j \in DOMAIN providers : providers[j].name = mappings[i].provider

ValidateProviderRefs(providers, mappings) ==
    \A i \in DOMAIN mappings : \E j \in DOMAIN providers :
        /\ providers[j].name = mappings[i].provider
        /\ IdentityType(mappings[i]) = "bot"
             => mappings[i].external_user_id = providers[j].app_id

ParseConfig ==
    /\ \A f \in TextFields : config.texts[f] # Bad
    /\ \A f \in NumberFields : ParseNumber(f, config.numbers[f])
    /\ \A s \in Sections : ParseSection(s, config.sections[s])
    /\ PositiveUInt64(config.worker)
    /\ ParsePrincipalTokens(config.tokens, config.worker)
    /\ ParseProviders(config.providers)
    /\ ParseMappings(config.mappings)
    /\ ValidateProviderRefs(config.providers, config.mappings)

-----------------------------------------------------------------------------
(* P2PMappingIndex: its tables are the mapping entries of indexed channels, *)
(* looked up by key; a lookup that raises KeyError is the empty set.        *)

Entries == {config.mappings[i] : i \in DOMAIN config.mappings}
ChannelIds == {e.channel_id : e \in Entries}
SessionOf(e) == <<e.provider, e.session_id>>

EntriesOf(c) == {e \in Entries : e.channel_id = c /\ c \in indexed}

ProviderSession(c) == {SessionOf(e) : e \in EntriesOf(c)}

ChannelForProviderSession(session) ==
    {c \in indexed : session \in ProviderSession(c)}

SenderExternalUserId(c, principal, type) ==
    {e.external_user_id : e \in {d \in EntriesOf(c) :
        d.principal = principal /\ IdentityType(d) = type}}

PrincipalForExternalUser(c, provider, id, type) ==
    {e.principal : e \in {d \in EntriesOf(c) :
        /\ d.provider = provider /\ d.external_user_id = id
        /\ IdentityType(d) = type}}

PeerPrincipals(c, principal) ==
    {e.principal : e \in EntriesOf(c)} \ {principal}

HasToken(principal) ==
    \E i \in DOMAIN config.tokens : config.tokens[i] = principal

(* The entries of a channel are i, a user, and j, a bot, of two principals  *)
(* that have tokens, in one session.                                       *)
IsPair(c, i, j) ==
    LET user == config.mappings[i]
        bot == config.mappings[j]
    IN  /\ {k \in DOMAIN config.mappings :
              config.mappings[k].channel_id = c} = {i, j}
        /\ user.principal # bot.principal
        /\ IdentityType(user) = "user" /\ IdentityType(bot) = "bot"
        /\ HasToken(user.principal) /\ HasToken(bot.principal)
        /\ SessionOf(user) = SessionOf(bot)

(* Mutant: a session may belong to two channels.                           *)
MapsToSharedSession(c) == \E i, j \in DOMAIN config.mappings : IsPair(c, i, j)

(* No channel indexed before has the session.                              *)
MapsToSession(c) ==
    \E i, j \in DOMAIN config.mappings :
        /\ IsPair(c, i, j)
        /\ ChannelForProviderSession(SessionOf(config.mappings[i])) = {}

-----------------------------------------------------------------------------
(* _validate_channels.                                                     *)

ValidMembers(c) ==
    /\ channels[c].visibility = "private"
    /\ {config.worker} \cup {e.principal : e \in EntriesOf(c)}
         \subseteq channels[c].members

ValidChannel(c) ==
    /\ c \in DOMAIN channels
    /\ channels[c].protocol = "im.v1"
    /\ <<channels[c].provider, channels[c].session_id>> \in ProviderSession(c)
    /\ channels[c].session_type = "p2p"
    /\ ValidMembers(c)

-----------------------------------------------------------------------------
StartupInit ==
    /\ config = InitialConfig /\ channels = InitialChannels
    /\ edits = 0 /\ phase = "down"
    /\ unchecked = {} /\ indexed = {} /\ stop_event = FALSE

(* The operator.                                                           *)
Edit ==
    /\ phase = "down" /\ edits < MaxEdits
    /\ edits' = edits + 1
    /\ UNCHANGED <<phase, unchecked, indexed, stop_event>>

ChannelValues ==
    [protocol |-> {"im.v1", Bad}, session_type |-> {"p2p", Bad},
     provider |-> {"feishu", "lark", Bad}, session_id |-> Sessions \cup {Bad},
     visibility |-> {"private", Bad}]

EditSetting ==
    /\ Edit
    /\ \/ \E f \in TextFields : config' = [config EXCEPT !.texts[f] = Bad]
       \/ \E f \in NumberFields, v \in Numbers \cup {Bad} :
            config' = [config EXCEPT !.numbers[f] = v]
       \/ \E s \in Sections, v \in {Bad, "removed fields"} :
            config' = [config EXCEPT !.sections[s] = v]
       \/ \E p \in Principals : config' = [config EXCEPT !.worker = p]
       \/ \E p \in Principals : config' = [config EXCEPT !.tokens = Append(@, p)]
       \/ /\ config.tokens # <<>>
          /\ config' = [config EXCEPT !.tokens = Tail(@)]
    /\ UNCHANGED channels

EditProvider ==
    /\ Edit
    /\ \/ \E n \in {"feishu", "lark", Bad}, a \in Apps \cup {Bad} :
            config' = [config EXCEPT !.providers[1] = [name |-> n, app_id |-> a]]
       \/ \E n \in {"feishu", "lark"} : config' =
            [config EXCEPT !.providers = Append(@, [@[1] EXCEPT !.name = n])]
    /\ UNCHANGED channels

EditMapping ==
    /\ Edit
    /\ \E i \in DOMAIN config.mappings :
         \/ \E f \in DOMAIN MappingValues : \E v \in MappingValues[f] :
              config' = [config EXCEPT !.mappings[i][f] = v]
         \/ config' = [config EXCEPT !.mappings = Append(@, @[i])]
         \/ config' = [config EXCEPT !.mappings =
                         SubSeq(@, 1, i - 1) \o SubSeq(@, i + 1, Len(@))]
    /\ UNCHANGED channels

EditChannel ==
    /\ Edit
    /\ \E c \in DOMAIN channels :
         \/ \E f \in DOMAIN ChannelValues : \E v \in ChannelValues[f] :
              channels' = [channels EXCEPT ![c][f] = v]
         \/ \E p \in channels[c].members :
              channels' = [channels EXCEPT ![c].members = @ \ {p}]
    /\ UNCHANGED config

(* main: load_config, then P2PSyncer(config).                              *)
Load ==
    /\ phase = "down"
    /\ IF ParseConfig THEN phase' = "index" /\ unchecked' = ChannelIds
                      ELSE phase' = "refused" /\ UNCHANGED unchecked
    /\ UNCHANGED <<config, channels, edits, indexed, stop_event>>

(* Mutant: a channel that cannot be routed is left out.                     *)
IndexChannelSkips(c) ==
    /\ phase = "index" /\ c \in unchecked
    /\ indexed' = IF MapsToSession(c) THEN indexed \cup {c} ELSE indexed
    /\ unchecked' = unchecked \ {c}
    /\ UNCHANGED <<config, channels, edits, phase, stop_event>>

IndexChannel(c) ==
    /\ phase = "index" /\ c \in unchecked
    /\ IF MapsToSession(c)
       THEN indexed' = indexed \cup {c} /\ UNCHANGED phase
       ELSE phase' = "refused" /\ UNCHANGED indexed
    /\ unchecked' = unchecked \ {c}
    /\ UNCHANGED <<config, channels, edits, stop_event>>

(* The worker thread begins with _validate_channels.                       *)
StartWorker ==
    /\ phase = "index" /\ unchecked = {}
    /\ phase' = "validate" /\ unchecked' = indexed
    /\ UNCHANGED <<config, channels, edits, indexed, stop_event>>

ValidateChannel(c) ==
    /\ phase = "validate" /\ c \in unchecked
    /\ \A d \in unchecked : c <= d
    /\ phase' = IF stop_event THEN "stopped"
                ELSE IF ValidChannel(c) THEN "validate" ELSE "refused"
    /\ unchecked' = unchecked \ {c}
    /\ UNCHANGED <<config, channels, edits, indexed, stop_event>>

Run ==
    /\ phase = "validate" /\ unchecked = {}
    /\ phase' = "running"
    /\ UNCHANGED <<config, channels, edits, unchecked, indexed, stop_event>>

RequestStop ==
    /\ phase = "validate" /\ ~stop_event
    /\ stop_event' = TRUE
    /\ UNCHANGED <<config, channels, edits, phase, unchecked, indexed>>

(* The process has ended; nothing but the files is left.                   *)
Restart ==
    /\ phase \in {"refused", "stopped"}
    /\ phase' = "down" /\ unchecked' = {} /\ indexed' = {}
    /\ stop_event' = FALSE
    /\ UNCHANGED <<config, channels, edits>>

StartupNext ==
    \/ EditSetting \/ EditProvider \/ EditMapping \/ EditChannel
    \/ Load \/ StartWorker \/ RequestStop \/ Restart
    \/ \E c \in unchecked : IndexChannel(c) \/ ValidateChannel(c)

-----------------------------------------------------------------------------
(***************************************************************************)
(* Properties.                                                             *)
(***************************************************************************)
StartupTypeOK ==
    /\ config \in Configs
    /\ edits \in 0 .. MaxEdits
    /\ phase \in {"down", "index", "validate", "running", "refused", "stopped"}
    /\ unchecked \cup indexed \subseteq ChannelIds
    /\ phase \in {"validate", "running"} => indexed = ChannelIds
    /\ stop_event \in BOOLEAN

(* The tables of IM-P2P-SYNCER.md: the fields of 7.2, the constraints of    *)
(* 3.2 between pairs of mappings, and points 5 to 11 of the checklist in 9. *)
DocumentedFields ==
    /\ \A f \in TextFields : config.texts[f] # Bad
    /\ \A s \in Sections : config.sections[s] # Bad
    /\ \A s \in Migrated : config.sections[s] = "fields"
    /\ \A f \in NumberFields : config.numbers[f] # Bad /\ Setting(f) >= 0
    /\ \A f \in NumberFields \ {"shutdown_timeout_ms", "idle_sleep_ms",
            "publish_retry_delay_ms", "history_retry_delay_ms",
            "history_overlap_ms"} : Setting(f) > 0
    /\ Setting("page_size") \in 1 .. 50
    /\ {config.worker} \cup {config.tokens[i] : i \in DOMAIN config.tokens}
         \subseteq 1 .. UInt64Max

DocumentedMappings ==
    /\ Cardinality({config.tokens[i] : i \in DOMAIN config.tokens})
         = Len(config.tokens)
    /\ ~HasToken(config.worker)
    /\ \E name \in {"feishu", "lark"}, app \in Apps :
         /\ config.providers = <<[name |-> name, app_id |-> app]>>
         /\ \A e \in Entries : /\ e.provider = name
                               /\ e.identity_type = "bot"
                                    => e.external_user_id = app
    /\ config.mappings # <<>>
    /\ \A e \in Entries :
         /\ Bad \notin {e.identity_type, e.external_user_id, e.session_id}
         /\ e.channel_id > 0 /\ HasToken(e.principal)
    /\ \A i, j \in DOMAIN config.mappings :
         LET d == config.mappings[i]
             e == config.mappings[j]
         IN  /\ SessionOf(d) = SessionOf(e) <=> d.channel_id = e.channel_id
             /\ (d.channel_id = e.channel_id /\ i # j)
                  => /\ IdentityType(d) # IdentityType(e)
                     /\ d.principal # e.principal
    /\ \A d \in Entries : \E e \in Entries :
         d.channel_id = e.channel_id /\ IdentityType(d) # IdentityType(e)

DocumentedChannels ==
    \A e \in Entries :
        /\ e.channel_id \in DOMAIN channels
        /\ LET c == channels[e.channel_id]
           IN  /\ c.protocol = "im.v1" /\ c.session_type = "p2p"
               /\ c.provider = e.provider /\ c.session_id = e.session_id
               /\ c.visibility = "private"
               /\ {e.principal, config.worker} \subseteq c.members

(* The worker runs exactly with the configurations the documents allow: no  *)
(* combination of edits gets past the checks, which parse the file, build   *)
(* the tables and ask OpenEvent at three different times, and no documented *)
(* configuration is refused.                                                *)
StartsIffDocumented ==
    /\ phase = "running"
         => DocumentedFields /\ DocumentedMappings /\ DocumentedChannels
    /\ phase = "refused"
         => ~(DocumentedFields /\ DocumentedMappings /\ DocumentedChannels)

(* What the other modules assume of a running worker (P2PAssumption and the *)
(* constants of ImPublish and ProviderMessagePuller): each channel has its  *)
(* session, and in it one user and one bot other than the worker, each the  *)
(* other's only recipient; the user and the app that is connected resolve   *)
(* to them and nobody else does; only the bot's requests have a sender.     *)
RoutesBothWays ==
    phase = "running" =>
        /\ \A c \in indexed : \E user, bot \in Principals \ {config.worker} :
             LET name == config.providers[1].name
                 app == config.providers[1].app_id
             IN  /\ user # bot /\ HasToken(user) /\ HasToken(bot)
                 /\ \E s \in Sessions :
                      /\ ProviderSession(c) = {<<name, s>>}
                      /\ ChannelForProviderSession(<<name, s>>) = {c}
                 /\ PeerPrincipals(c, user) = {bot}
                 /\ PeerPrincipals(c, bot) = {user}
                 /\ \A a \in Apps \cup Users :
                      PrincipalForExternalUser(c, name, a, "bot")
                        = IF a = app THEN {bot} ELSE {}
                 /\ \E x \in Apps \cup Users : \A y \in Apps \cup Users :
                      PrincipalForExternalUser(c, name, y, "user")
                        = IF y = x THEN {user} ELSE {}
                 /\ \A p \in Principals : SenderExternalUserId(c, p, "bot")
                      = IF p = bot THEN {app} ELSE {}
        /\ Setting("publish_max_attempts") \in Nat \ {0}
        /\ Setting("page_size") \in Nat \ {0}
        /\ Setting("event_queue_size") \in Nat \ {0}
        /\ Setting("history_lookback_ms") \in Nat \ {0}
        /\ Setting("history_overlap_ms") \in Nat

=============================================================================
