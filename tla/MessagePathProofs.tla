-------------------------- MODULE MessagePathProofs --------------------------
(***************************************************************************)
(* Theorems about MessagePath and the modules it is composed of: the codec, *)
(* the start of the worker, the two ways of a message and the replay.       *)
(***************************************************************************)
EXTENDS MessagePath, SortedSeqProofs

-----------------------------------------------------------------------------
(* parse_config against the documents.                                     *)

(* The checks of single fields are the documented ones.                    *)
LEMMA FieldFacts ==
    /\ NumberFields = {"shutdown_timeout_ms", "publish_max_attempts",
         "publish_retry_delay_ms", "idle_sleep_ms", "history_retry_delay_ms",
         "history_overlap_ms", "history_lookback_ms", "page_size",
         "event_queue_size", "timeout_seconds",
         "event_connect_timeout_seconds", "event_reconnect_timeout_seconds"}
    /\ \A f \in NumberFields :
         /\ Default[f] \in Nat /\ Default[f] > 0
         /\ Least[f] = IF f \in {"shutdown_timeout_ms", "idle_sleep_ms",
                          "publish_retry_delay_ms", "history_retry_delay_ms",
                          "history_overlap_ms"} THEN 0 ELSE 1
    /\ Default["page_size"] = 50
<1>1. NumberFields = {"shutdown_timeout_ms", "publish_max_attempts",
         "publish_retry_delay_ms", "idle_sleep_ms", "history_retry_delay_ms",
         "history_overlap_ms", "history_lookback_ms", "page_size",
         "event_queue_size", "timeout_seconds",
         "event_connect_timeout_seconds", "event_reconnect_timeout_seconds"}
  BY DEF NumberFields, Least
<1>2. \A f \in NumberFields : Default[f] \in Nat /\ Default[f] > 0
  BY <1>1 DEF Default
<1>3. \A f \in NumberFields :
        Least[f] = IF f \in {"shutdown_timeout_ms", "idle_sleep_ms",
                      "publish_retry_delay_ms", "history_retry_delay_ms",
                      "history_overlap_ms"} THEN 0 ELSE 1
  BY <1>1 DEF Least
<1> QED
  BY <1>1, <1>2, <1>3 DEF Default

LEMMA ConstantFacts ==
    /\ UInt64Max \in Nat /\ MaxEdits \in Nat /\ Numbers \subseteq Int
    /\ Bad # Absent /\ Bad \notin Int /\ Absent \notin Int
    /\ Bad \notin Apps \cup Users \cup Sessions
    /\ Absent \notin Apps \cup Users \cup Sessions
    /\ Bad \notin {"user", "bot", "feishu", "lark", "text", "fields",
                   "removed fields"}
    /\ Absent \notin {"user", "bot", "feishu", "lark", "text", "fields",
                      "removed fields"}
    /\ InitialConfig \in Configs
    /\ DOMAIN InitialChannels \subseteq 1 .. UInt64Max
BY StartupAssumption

LEMMA ConfigFacts ==
    ASSUME config \in Configs
    PROVE  /\ config.texts \in [TextFields -> {"text", Bad}]
           /\ config.numbers \in [NumberFields -> Int \cup {Absent, Bad}]
           /\ config.sections \in
                [Sections -> {"fields", "removed fields", Bad}]
           /\ config.worker \in Principals
           /\ config.tokens \in Seq(Principals)
           /\ config.providers \in Seq([name : {"feishu", "lark", Bad},
                                        app_id : Apps \cup {Bad}]) \ {<<>>}
           /\ config.mappings \in Seq(Mappings)
BY DEF Configs

LEMMA NumbersDocumented ==
    ASSUME config \in Configs
    PROVE  (\A f \in NumberFields : ParseNumber(f, config.numbers[f]))
             <=> /\ \A f \in NumberFields :
                      config.numbers[f] # Bad /\ Setting(f) >= 0
                 /\ \A f \in NumberFields \ {"shutdown_timeout_ms",
                        "idle_sleep_ms", "publish_retry_delay_ms",
                        "history_retry_delay_ms", "history_overlap_ms"} :
                      Setting(f) > 0
                 /\ Setting("page_size") \in 1 .. 50
<1>1. ASSUME NEW f \in NumberFields
      PROVE  ParseNumber(f, config.numbers[f])
               <=> /\ config.numbers[f] # Bad /\ Setting(f) >= 0
                   /\ f \notin {"shutdown_timeout_ms", "idle_sleep_ms",
                        "publish_retry_delay_ms", "history_retry_delay_ms",
                        "history_overlap_ms"} => Setting(f) > 0
                   /\ f = "page_size" => Setting(f) \in 1 .. 50
  <2>1. config.numbers[f] \in Int \cup {Absent, Bad}
    BY ConfigFacts
  <2>2. /\ Default[f] \in Nat /\ Default[f] > 0
        /\ f = "page_size" => Default[f] = 50
        /\ Least[f] = IF f \in {"shutdown_timeout_ms", "idle_sleep_ms",
                        "publish_retry_delay_ms", "history_retry_delay_ms",
                        "history_overlap_ms"} THEN 0 ELSE 1
    BY FieldFacts
  <2>3. CASE config.numbers[f] = Absent
    <3>1. Setting(f) = Default[f] /\ ParseNumber(f, config.numbers[f])
      BY <2>3 DEF Setting, ParseNumber
    <3>2. config.numbers[f] # Bad
      BY <2>3, ConstantFacts
    <3> QED
      BY <2>2, <3>1, <3>2
  <2>4. CASE config.numbers[f] = Bad
    BY <2>4, ConstantFacts DEF ParseNumber
  <2>5. CASE config.numbers[f] \in Int
    <3>1. config.numbers[f] # Absent /\ config.numbers[f] # Bad
      BY <2>5, ConstantFacts
    <3>2. Setting(f) = config.numbers[f]
      BY <3>1 DEF Setting
    <3> QED
      BY <2>2, <2>5, <3>1, <3>2 DEF ParseNumber
  <2> QED
    BY <2>1, <2>3, <2>4, <2>5
<1>2. "page_size" \in NumberFields
  BY FieldFacts
<1> QED
  BY <1>1, <1>2

LEMMA SectionsDocumented ==
    ASSUME config \in Configs
    PROVE  (\A s \in Sections : ParseSection(s, config.sections[s]))
             <=> /\ \A s \in Sections : config.sections[s] # Bad
                 /\ \A s \in Migrated : config.sections[s] = "fields"
<1>1. \A s \in Sections :
        config.sections[s] \in {"fields", "removed fields", Bad}
  BY ConfigFacts
<1>2. Migrated \subseteq Sections
  BY DEF Migrated, Sections
<1> QED
  BY <1>1, <1>2, ConstantFacts DEF ParseSection

(* Tokens are of different principals exactly if there are as many          *)
(* principals as tokens.                                                   *)
LEMMA TokensDiffer ==
    ASSUME NEW S, NEW tokens \in Seq(S)
    PROVE  Cardinality({tokens[i] : i \in DOMAIN tokens}) = Len(tokens)
             <=> \A i \in DOMAIN tokens : \A j \in 1 .. i - 1 :
                   tokens[j] # tokens[i]
<1> DEFINE N == Len(tokens)
           T == {tokens[i] : i \in DOMAIN tokens}
           f == [i \in 1 .. N |-> tokens[i]]
<1>1. N \in Nat /\ DOMAIN tokens = 1 .. N
  OBVIOUS
<1>2. IsFiniteSet(1 .. N) /\ Cardinality(1 .. N) = N
  BY <1>1, FS_Interval
<1>3. f \in Surjection(1 .. N, T)
  BY <1>1 DEF Surjection
<1>4. IsFiniteSet(T) /\ Cardinality(T) <= Cardinality(1 .. N)
  BY <1>2, <1>3, FS_Surjection
<1>5. ASSUME Cardinality(T) = N,
             NEW i \in DOMAIN tokens, NEW j \in 1 .. i - 1
      PROVE  tokens[j] # tokens[i]
  <2>1. f \in Injection(1 .. N, T)
    BY <1>2, <1>3, <1>4, <1>5, FS_SurjSameCardinalityImpliesInj
  <2>2. i \in 1 .. N /\ j \in 1 .. N /\ i # j
    BY <1>1
  <2> QED
    BY <2>1, <2>2 DEF Injection, IsInjective
<1>6. ASSUME \A i \in DOMAIN tokens : \A j \in 1 .. i - 1 :
               tokens[j] # tokens[i]
      PROVE  Cardinality(T) = N
  <2>1. ASSUME NEW i \in 1 .. N, NEW j \in 1 .. N, i # j
        PROVE  f[i] # f[j]
    <3>1. CASE i < j
      BY <1>1, <1>6, <3>1
    <3>2. CASE j < i
      BY <1>1, <1>6, <3>2
    <3> QED
      BY <2>1, <3>1, <3>2
  <2>2. f \in Injection(1 .. N, T)
    BY <1>3, <2>1 DEF Surjection, Injection, IsInjective
  <2> QED
    BY <1>2, <1>3, <2>2, FS_Surjection
<1> QED
  BY <1>5, <1>6

LEMMA TokensDocumented ==
    ASSUME config \in Configs, config.tokens # <<>>
    PROVE  (/\ PositiveUInt64(config.worker)
            /\ ParsePrincipalTokens(config.tokens, config.worker))
             <=> /\ {config.worker}
                      \cup {config.tokens[i] : i \in DOMAIN config.tokens}
                      \subseteq 1 .. UInt64Max
                 /\ Cardinality({config.tokens[i] : i \in DOMAIN config.tokens})
                      = Len(config.tokens)
                 /\ ~HasToken(config.worker)
<1>1. config.tokens \in Seq(Principals)
  BY ConfigFacts
<1>2. Cardinality({config.tokens[i] : i \in DOMAIN config.tokens})
        = Len(config.tokens)
        <=> \A i \in DOMAIN config.tokens : \A j \in 1 .. i - 1 :
              config.tokens[j] # config.tokens[i]
  BY <1>1, TokensDiffer
<1> QED
  BY <1>2 DEF PositiveUInt64, ParsePrincipalTokens, HasToken

LEMMA ProvidersDocumented ==
    ASSUME config \in Configs
    PROVE  ParseProviders(config.providers)
             <=> \E name \in {"feishu", "lark"}, app \in Apps :
                   config.providers = <<[name |-> name, app_id |-> app]>>
<1> DEFINE P == [name : {"feishu", "lark", Bad}, app_id : Apps \cup {Bad}]
<1>1. config.providers \in Seq(P)
  BY ConfigFacts
<1>2. ASSUME ParseProviders(config.providers)
      PROVE  \E name \in {"feishu", "lark"}, app \in Apps :
               config.providers = <<[name |-> name, app_id |-> app]>>
  <2>1. Len(config.providers) = 1 /\ 1 \in DOMAIN config.providers
    BY <1>1, <1>2 DEF ParseProviders
  <2>2. PICK p \in P : p = config.providers[1]
    <3>1. PICK ps \in Seq(P) : ps = config.providers
      BY <1>1
    <3>2. 1 \in 1 .. Len(ps)
      BY <2>1, <3>1
    <3> HIDE DEF P
    <3>3. ps[1] \in P
      BY <3>2, ElementOfSeq
    <3> QED
      BY <3>1, <3>3
  <2>3. config.providers = <<p>>
    BY <1>1, <2>1, <2>2
  <2>4. p.name \in {"feishu", "lark"} /\ p.app_id # Bad
    BY <1>2, <2>1, <2>2 DEF ParseProviders
  <2>5. p = [name |-> p.name, app_id |-> p.app_id] /\ p.app_id \in Apps
    BY <2>2, <2>4
  <2> QED
    BY <2>3, <2>4, <2>5
<1>3. ASSUME NEW name \in {"feishu", "lark"}, NEW app \in Apps,
             config.providers = <<[name |-> name, app_id |-> app]>>
      PROVE  ParseProviders(config.providers)
  <2>1. /\ Len(config.providers) = 1 /\ DOMAIN config.providers = {1}
        /\ config.providers[1] = [name |-> name, app_id |-> app]
    BY <1>3
  <2>2. app # Bad
    BY ConstantFacts
  <2> QED
    BY <2>1, <2>2 DEF ParseProviders
<1> QED
  BY <1>2, <1>3

LEMMA EntryFacts ==
    ASSUME config \in Configs, NEW i \in DOMAIN config.mappings
    PROVE  /\ config.mappings[i] \in Entries
           /\ config.mappings[i].provider \in {"feishu", "lark", Bad}
           /\ config.mappings[i].identity_type \in {"user", "bot", Absent, Bad}
           /\ config.mappings[i].external_user_id \in Apps \cup Users \cup {Bad}
           /\ config.mappings[i].principal \in Principals
           /\ config.mappings[i].session_id \in Sessions \cup {Bad}
           /\ config.mappings[i].channel_id \in {0} \cup DOMAIN InitialChannels
           /\ config.mappings[i].channel_id \in Nat
           /\ config.mappings[i].channel_id <= UInt64Max
<1>1. config.mappings[i] \in Mappings
  <2>1. config.mappings \in Seq(Mappings)
    BY ConfigFacts
  <2>2. i \in 1 .. Len(config.mappings)
    BY <2>1
  <2> QED
    BY <2>1, <2>2, ElementOfSeq
<1>2. config.mappings[i] \in Entries
  BY DEF Entries
<1>3. config.mappings[i].channel_id \in {0} \cup 1 .. UInt64Max
  BY <1>1, ConstantFacts DEF Mappings, MappingValues
<1>4. PICK e \in Mappings : e = config.mappings[i]
  BY <1>1
<1>5. /\ e.provider \in {"feishu", "lark", Bad}
      /\ e.identity_type \in {"user", "bot", Absent, Bad}
      /\ e.external_user_id \in Apps \cup Users \cup {Bad}
      /\ e.principal \in Principals
      /\ e.session_id \in Sessions \cup {Bad}
      /\ e.channel_id \in {0} \cup DOMAIN InitialChannels
  BY DEF Mappings, MappingValues
<1>6. e.channel_id \in Nat /\ e.channel_id <= UInt64Max
  <2>1. UInt64Max \in Nat
    BY ConstantFacts
  <2>2. e.channel_id \in {0} \cup 1 .. UInt64Max
    BY <1>3, <1>4
  <2> QED
    BY <2>1, <2>2
<1> QED
  BY <1>2, <1>4, <1>5, <1>6
(* No documented file is refused by parse_config ...                       *)
LEMMA DocumentedIsParsed ==
    ASSUME config \in Configs, DocumentedFields, DocumentedMappings
    PROVE  ParseConfig
<1>1. PICK name \in {"feishu", "lark"}, app \in Apps :
        /\ config.providers = <<[name |-> name, app_id |-> app]>>
        /\ \A e \in Entries : /\ e.provider = name
                              /\ e.identity_type = "bot"
                                   => e.external_user_id = app
  BY DEF DocumentedMappings
<1>2. 1 \in DOMAIN config.mappings
  <2>1. config.mappings \in Seq(Mappings) /\ config.mappings # <<>>
    BY ConfigFacts DEF DocumentedMappings
  <2> QED
    BY <2>1
<1>3. \A i \in DOMAIN config.mappings :
        /\ config.mappings[i].provider = name
        /\ config.mappings[i].identity_type = "bot"
             => config.mappings[i].external_user_id = app
        /\ Bad \notin {config.mappings[i].identity_type,
                       config.mappings[i].external_user_id,
                       config.mappings[i].session_id}
        /\ config.mappings[i].channel_id > 0
        /\ HasToken(config.mappings[i].principal)
  BY <1>1 DEF DocumentedMappings, Entries
<1>4. PositiveUInt64(config.worker)
      /\ ParsePrincipalTokens(config.tokens, config.worker)
  <2>1. config.tokens # <<>>
    <3>1. \E i \in DOMAIN config.tokens : TRUE
      BY <1>2, <1>3 DEF HasToken
    <3> QED
      BY <3>1
  <2> QED
    BY <2>1, TokensDocumented DEF DocumentedFields, DocumentedMappings
<1>5. ParseProviders(config.providers)
  BY <1>1, ProvidersDocumented
<1>6. \A i \in DOMAIN config.mappings :
        IdentityType(config.mappings[i]) \in {"user", "bot"}
  BY <1>3, EntryFacts DEF IdentityType
<1>7. ParseMappings(config.mappings)
  <2>1. ASSUME NEW i \in DOMAIN config.mappings
        PROVE  /\ PositiveUInt64(config.mappings[i].principal)
               /\ PositiveUInt64(config.mappings[i].channel_id)
    <3>1. config.mappings[i].principal \in 1 .. UInt64Max
      BY <1>3 DEF HasToken, DocumentedFields
    <3>2. /\ config.mappings[i].channel_id \in Nat
          /\ config.mappings[i].channel_id <= UInt64Max
          /\ config.mappings[i].channel_id > 0 /\ UInt64Max \in Nat
      BY <1>3, EntryFacts, ConstantFacts
    <3> QED
      BY <3>1, <3>2 DEF PositiveUInt64
  <2>2. \A i \in DOMAIN config.mappings : config.mappings[i].provider # Bad
    BY <1>3, ConstantFacts
  <2>3. config.mappings # <<>>
    BY DEF DocumentedMappings
  <2> QED
    BY <1>3, <1>6, <2>1, <2>2, <2>3 DEF ParseMappings
<1>8. ValidateProviderRefs(config.providers, config.mappings)
  <2>1. /\ 1 \in DOMAIN config.providers
        /\ config.providers[1].name = name /\ config.providers[1].app_id = app
    BY <1>1
  <2>2. \A i \in DOMAIN config.mappings :
          IdentityType(config.mappings[i]) = "bot"
            => config.mappings[i].identity_type = "bot"
    BY DEF IdentityType
  <2> QED
    BY <1>3, <2>1, <2>2 DEF ValidateProviderRefs
<1>9. /\ \A f \in NumberFields : ParseNumber(f, config.numbers[f])
      /\ \A s \in Sections : ParseSection(s, config.sections[s])
  BY NumbersDocumented, SectionsDocumented DEF DocumentedFields
<1> QED
  BY <1>4, <1>5, <1>7, <1>8, <1>9 DEF ParseConfig, DocumentedFields

(* ... nor by P2PMappingIndex ...                                          *)
LEMMA DocumentedMaps ==
    ASSUME config \in Configs, DocumentedMappings,
           NEW c \in ChannelIds, c \notin indexed
    PROVE  MapsToSession(c)
<1> DEFINE M == config.mappings
<1>1. \A i \in DOMAIN M : /\ HasToken(M[i].principal)
                          /\ IdentityType(M[i]) \in {"user", "bot"}
  <2>1. \A i \in DOMAIN M : HasToken(M[i].principal) /\ M[i].identity_type # Bad
    BY DEF DocumentedMappings, Entries
  <2>2. \A i \in DOMAIN M : M[i].identity_type \in {"user", "bot", Absent, Bad}
    BY EntryFacts
  <2> QED
    BY <2>1, <2>2 DEF IdentityType
<1>2. \A i, j \in DOMAIN M :
        /\ SessionOf(M[i]) = SessionOf(M[j])
             <=> M[i].channel_id = M[j].channel_id
        /\ (M[i].channel_id = M[j].channel_id /\ i # j)
             => /\ IdentityType(M[i]) # IdentityType(M[j])
                /\ M[i].principal # M[j].principal
  BY DEF DocumentedMappings
<1>3. \A i \in DOMAIN M : \E j \in DOMAIN M :
        /\ M[i].channel_id = M[j].channel_id
        /\ IdentityType(M[i]) # IdentityType(M[j])
  BY DEF DocumentedMappings, Entries
<1>4. PICK a \in DOMAIN M : M[a].channel_id = c
  BY DEF ChannelIds, Entries
<1>5. PICK b \in DOMAIN M :
        /\ M[a].channel_id = M[b].channel_id
        /\ IdentityType(M[a]) # IdentityType(M[b])
  BY <1>3
<1>6. PICK i \in {a, b}, j \in {a, b} :
        IdentityType(M[i]) = "user" /\ IdentityType(M[j]) = "bot"
  BY <1>1, <1>5
<1>7. i \in DOMAIN M /\ j \in DOMAIN M /\ i # j
      /\ M[i].channel_id = c /\ M[j].channel_id = c
  BY <1>4, <1>5, <1>6
<1>8. {k \in DOMAIN M : M[k].channel_id = c} = {i, j}
  <2>1. ASSUME NEW k \in DOMAIN M, M[k].channel_id = c, k # i, k # j
        PROVE  FALSE
    BY <1>1, <1>2, <1>6, <1>7, <2>1
  <2> QED
    BY <1>7, <2>1
<1>9. IsPair(c, i, j)
  BY <1>1, <1>2, <1>6, <1>7, <1>8 DEF IsPair
<1>10. ChannelForProviderSession(SessionOf(M[i])) = {}
  <2>1. ASSUME NEW d \in indexed, NEW e \in EntriesOf(d),
               SessionOf(M[i]) = SessionOf(e)
        PROVE  FALSE
    <3>1. PICK k \in DOMAIN M : M[k] = e /\ M[k].channel_id = d
      BY DEF EntriesOf, Entries
    <3> QED
      BY <1>2, <1>7, <2>1, <3>1
  <2> QED
    BY <2>1 DEF ChannelForProviderSession, ProviderSession
<1> QED
  BY <1>7, <1>9, <1>10 DEF MapsToSession

(* ... nor, with the documented channels, by _validate_channels.           *)
LEMMA DocumentedValid ==
    ASSUME DocumentedChannels, NEW c \in ChannelIds, c \in indexed
    PROVE  ValidChannel(c)
<1>1. PICK e \in Entries : e.channel_id = c
  BY DEF ChannelIds
<1>2. e \in EntriesOf(c)
  BY <1>1 DEF EntriesOf
<1>3. <<channels[c].provider, channels[c].session_id>> \in ProviderSession(c)
  BY <1>1, <1>2 DEF ProviderSession, SessionOf, DocumentedChannels
<1>4. ValidMembers(c)
  <2>1. \A d \in EntriesOf(c) : d.principal \in channels[c].members
    BY DEF EntriesOf, DocumentedChannels
  <2> QED
    BY <1>1, <2>1 DEF ValidMembers, DocumentedChannels
<1> QED
  BY <1>1, <1>3, <1>4 DEF ValidChannel, DocumentedChannels
(* What the tables of P2PMappingIndex hold while they are built: a pair of  *)
(* entries for each channel, and no session of two channels.               *)
Routed ==
    /\ \A c \in indexed : \E i, j \in DOMAIN config.mappings : IsPair(c, i, j)
    /\ \A i, j \in DOMAIN config.mappings :
         LET d == config.mappings[i]
             e == config.mappings[j]
         IN  (/\ d.channel_id \in indexed /\ e.channel_id \in indexed
              /\ SessionOf(d) = SessionOf(e)) => d.channel_id = e.channel_id

LEMMA ChannelIdFacts ==
    /\ \A i \in DOMAIN config.mappings :
         config.mappings[i].channel_id \in ChannelIds
    /\ \A c \in ChannelIds : \E i \in DOMAIN config.mappings :
         config.mappings[i].channel_id = c
BY DEF ChannelIds, Entries

(* The entries of a channel are those of its pair.                         *)
LEMMA PairFacts ==
    ASSUME NEW c, NEW i \in DOMAIN config.mappings,
           NEW j \in DOMAIN config.mappings, IsPair(c, i, j)
    PROVE  /\ {e \in Entries : e.channel_id = c}
                = {config.mappings[i], config.mappings[j]}
           /\ SessionOf(config.mappings[i]) = SessionOf(config.mappings[j])
           /\ config.mappings[i].channel_id = c
           /\ config.mappings[j].channel_id = c
           /\ IdentityType(config.mappings[i]) = "user"
           /\ IdentityType(config.mappings[j]) = "bot"
           /\ config.mappings[i].principal # config.mappings[j].principal
           /\ \A k \in DOMAIN config.mappings :
                config.mappings[k].channel_id = c => k \in {i, j}
           /\ HasToken(config.mappings[i].principal)
           /\ HasToken(config.mappings[j].principal)
<1>1. {k \in DOMAIN config.mappings : config.mappings[k].channel_id = c} = {i, j}
  BY DEF IsPair
<1> QED
  BY <1>1 DEF IsPair, Entries

(* What gets past parse_config and P2PMappingIndex is documented ...        *)
LEMMA RoutedIsDocumented ==
    ASSUME config \in Configs, ParseConfig, indexed = ChannelIds, Routed
    PROVE  DocumentedFields /\ DocumentedMappings
<1> DEFINE M == config.mappings
<1>1. config.tokens # <<>>
  BY DEF ParseConfig, ParsePrincipalTokens
<1>2. DocumentedFields
  BY <1>1, TokensDocumented, NumbersDocumented, SectionsDocumented
  DEF ParseConfig, DocumentedFields
<1>3. PICK name \in {"feishu", "lark"}, app \in Apps :
        config.providers = <<[name |-> name, app_id |-> app]>>
  BY ProvidersDocumented DEF ParseConfig
<1>4. \A i \in DOMAIN M :
        /\ M[i].provider = name
        /\ IdentityType(M[i]) = "bot" => M[i].external_user_id = app
  <2>1. DOMAIN config.providers = {1} /\ config.providers[1].name = name
        /\ config.providers[1].app_id = app
    BY <1>3
  <2> QED
    BY <2>1 DEF ParseConfig, ValidateProviderRefs
<1>5. \A i \in DOMAIN M :
        /\ Bad \notin {M[i].identity_type, M[i].external_user_id, M[i].session_id}
        /\ M[i].channel_id > 0 /\ HasToken(M[i].principal)
        /\ M[i].identity_type = "bot" => IdentityType(M[i]) = "bot"
  <2>1. ASSUME NEW i \in DOMAIN M PROVE HasToken(M[i].principal)
    <3>1. PICK c \in indexed : c = M[i].channel_id
      BY ChannelIdFacts
    <3>2. PICK a \in DOMAIN M, b \in DOMAIN M : IsPair(c, a, b)
      BY DEF Routed
    <3>3. i \in {a, b} /\ HasToken(M[a].principal) /\ HasToken(M[b].principal)
      BY <3>1, <3>2, PairFacts
    <3> QED
      BY <3>3
  <2>2. ASSUME NEW i \in DOMAIN M PROVE M[i].channel_id > 0
    <3>1. PICK c \in 1 .. UInt64Max : c = M[i].channel_id
      BY DEF ParseConfig, ParseMappings, PositiveUInt64
    <3>2. UInt64Max \in Nat
      BY ConstantFacts
    <3> QED
      BY <3>1, <3>2
  <2>3. \A i \in DOMAIN M : IdentityType(M[i]) \in {"user", "bot"}
    BY DEF ParseConfig, ParseMappings
  <2>4. \A i \in DOMAIN M : /\ M[i].identity_type # Bad
                            /\ M[i].identity_type = "bot"
                                 => IdentityType(M[i]) = "bot"
    BY <2>3, ConstantFacts DEF IdentityType
  <2> QED
    BY <2>1, <2>2, <2>4 DEF ParseConfig, ParseMappings
<1>6. \A i, j \in DOMAIN M :
        /\ SessionOf(M[i]) = SessionOf(M[j])
             <=> M[i].channel_id = M[j].channel_id
        /\ (M[i].channel_id = M[j].channel_id /\ i # j)
             => /\ IdentityType(M[i]) # IdentityType(M[j])
                /\ M[i].principal # M[j].principal
  <2> TAKE i, j \in DOMAIN M
  <2>1. PICK c \in indexed : c = M[i].channel_id
    BY ChannelIdFacts
  <2>2. PICK a \in DOMAIN M, b \in DOMAIN M : IsPair(c, a, b)
    BY DEF Routed
  <2>3. SessionOf(M[i]) = SessionOf(M[j]) => M[i].channel_id = M[j].channel_id
    BY ChannelIdFacts DEF Routed
  <2>4. SessionOf(M[a]) = SessionOf(M[b])
    BY <2>2, PairFacts
  <2>5. /\ IdentityType(M[a]) = "user" /\ IdentityType(M[b]) = "bot"
        /\ M[a].principal # M[b].principal
    BY <2>2 DEF IsPair
  <2>6. \A k \in DOMAIN M : M[k].channel_id = c => k \in {a, b}
    BY <2>2, PairFacts
  <2>7. i \in {a, b} /\ (M[j].channel_id = c => j \in {a, b})
    BY <2>1, <2>6
  <2> QED
    BY <2>1, <2>3, <2>4, <2>5, <2>7
<1>7. \A d \in Entries : \E e \in Entries :
        d.channel_id = e.channel_id /\ IdentityType(d) # IdentityType(e)
  <2> TAKE d \in Entries
  <2>1. PICK c \in indexed : c = d.channel_id
    BY DEF ChannelIds
  <2>2. PICK a \in DOMAIN M, b \in DOMAIN M : IsPair(c, a, b)
    BY DEF Routed
  <2>3. M[a] \in Entries /\ M[b] \in Entries
    BY DEF Entries
  <2>4. /\ M[a].channel_id = c /\ M[b].channel_id = c
        /\ IdentityType(M[a]) = "user" /\ IdentityType(M[b]) = "bot"
    BY <2>2, PairFacts
  <2> QED
    BY <2>1, <2>3, <2>4
<1>8. \A e \in Entries :
        /\ e.provider = name
        /\ e.identity_type = "bot" => e.external_user_id = app
        /\ Bad \notin {e.identity_type, e.external_user_id, e.session_id}
        /\ e.channel_id > 0 /\ HasToken(e.principal)
  BY <1>4, <1>5 DEF Entries
<1>9. /\ Cardinality({config.tokens[i] : i \in DOMAIN config.tokens})
           = Len(config.tokens)
      /\ ~HasToken(config.worker)
  BY <1>1, TokensDocumented DEF ParseConfig
<1>10. M # <<>>
  BY DEF ParseConfig, ParseMappings
<1>11. DocumentedMappings
  BY <1>3, <1>6, <1>7, <1>8, <1>9, <1>10 DEF DocumentedMappings
<1> QED
  BY <1>2, <1>11

(* ... and so are the channels that get past _validate_channels.            *)
LEMMA ValidIsDocumented ==
    ASSUME config \in Configs, indexed = ChannelIds, Routed,
           \A c \in indexed : ValidChannel(c)
    PROVE  DocumentedChannels
<1> SUFFICES ASSUME NEW e \in Entries
             PROVE  /\ ValidChannel(e.channel_id) /\ e \in EntriesOf(e.channel_id)
                    /\ ProviderSession(e.channel_id) = {SessionOf(e)}
  BY DEF DocumentedChannels, ValidChannel, ValidMembers, SessionOf
<1>1. e.channel_id \in indexed
  BY DEF ChannelIds
<1>2. e \in EntriesOf(e.channel_id)
  BY <1>1 DEF EntriesOf
<1>3. ProviderSession(e.channel_id) = {SessionOf(e)}
  <2>1. PICK c \in indexed : c = e.channel_id
    BY <1>1
  <2>2. PICK i \in DOMAIN config.mappings, j \in DOMAIN config.mappings :
          IsPair(c, i, j)
    BY DEF Routed
  <2>3. EntriesOf(c) = {config.mappings[i], config.mappings[j]}
        /\ SessionOf(config.mappings[i]) = SessionOf(config.mappings[j])
    <3>1. {d \in Entries : d.channel_id = c}
            = {config.mappings[i], config.mappings[j]}
      BY <2>2, PairFacts
    <3>2. SessionOf(config.mappings[i]) = SessionOf(config.mappings[j])
      BY <2>2, PairFacts
    <3>3. EntriesOf(c) = {d \in Entries : d.channel_id = c}
      BY <2>1 DEF EntriesOf
    <3> QED
      BY <3>1, <3>2, <3>3
  <2>4. ProviderSession(c) = {SessionOf(config.mappings[i])}
    BY <2>3 DEF ProviderSession
  <2>5. SessionOf(e) = SessionOf(config.mappings[i])
    BY <1>2, <2>1, <2>3
  <2> QED
    BY <2>1, <2>4, <2>5
<1> QED
  BY <1>1, <1>2, <1>3
-----------------------------------------------------------------------------
(* The operator's edits leave a file that the model describes.             *)

LEMMA SettingEdited ==
    ASSUME config \in Configs, EditSetting
    PROVE  config' \in Configs
<1>1. /\ config.texts \in [TextFields -> {"text", Bad}]
      /\ config.numbers \in [NumberFields -> Int \cup {Absent, Bad}]
      /\ config.sections \in [Sections -> {"fields", "removed fields", Bad}]
  BY ConfigFacts
<1>t. PICK tokens \in Seq(Principals) : tokens = config.tokens
  BY ConfigFacts
<1>2. ASSUME NEW f \in TextFields, config' = [config EXCEPT !.texts[f] = Bad]
      PROVE  config' \in Configs
  <2>1. [config.texts EXCEPT ![f] = Bad] \in [TextFields -> {"text", Bad}]
    BY <1>1
  <2> QED
    BY <1>2, <2>1 DEF Configs
<1>3. ASSUME NEW f \in NumberFields, NEW v \in Numbers \cup {Bad},
             config' = [config EXCEPT !.numbers[f] = v]
      PROVE  config' \in Configs
  <2>1. v \in Int \cup {Absent, Bad}
    BY ConstantFacts
  <2>2. [config.numbers EXCEPT ![f] = v]
          \in [NumberFields -> Int \cup {Absent, Bad}]
    BY <1>1, <2>1
  <2> QED
    BY <1>3, <2>2 DEF Configs
<1>4. ASSUME NEW f \in Sections, NEW v \in {Bad, "removed fields"},
             config' = [config EXCEPT !.sections[f] = v]
      PROVE  config' \in Configs
  <2>1. [config.sections EXCEPT ![f] = v]
          \in [Sections -> {"fields", "removed fields", Bad}]
    BY <1>1
  <2> QED
    BY <1>4, <2>1 DEF Configs
<1>5. ASSUME NEW p \in Principals, config' = [config EXCEPT !.worker = p]
      PROVE  config' \in Configs
  BY <1>5 DEF Configs
<1>6. ASSUME NEW p \in Principals,
             config' = [config EXCEPT !.tokens = Append(@, p)]
      PROVE  config' \in Configs
  <2>1. Append(tokens, p) \in Seq(Principals)
    BY AppendProperties
  <2> QED
    BY <1>t, <1>6, <2>1 DEF Configs
<1>7. ASSUME config.tokens # <<>>, config' = [config EXCEPT !.tokens = Tail(@)]
      PROVE  config' \in Configs
  <2>1. Tail(tokens) \in Seq(Principals)
    BY <1>t, <1>7, HeadTailProperties
  <2> QED
    BY <1>t, <1>7, <2>1 DEF Configs
<1> QED
  BY <1>2, <1>3, <1>4, <1>5, <1>6, <1>7 DEF EditSetting

LEMMA ProviderEdited ==
    ASSUME config \in Configs, EditProvider
    PROVE  config' \in Configs
<1> DEFINE P == [name : {"feishu", "lark", Bad}, app_id : Apps \cup {Bad}]
<1>1. config.providers \in Seq(P) \ {<<>>}
  BY ConfigFacts
<1>2. PICK ps \in Seq(P) : ps = config.providers /\ ps # <<>>
  BY <1>1
<1>3. Len(ps) \in Nat /\ 1 \in 1 .. Len(ps) /\ DOMAIN ps = 1 .. Len(ps)
  BY <1>2
<1>4. ps[1] \in P
  <2> HIDE DEF P
  <2> QED
    BY <1>3, ElementOfSeq
<1>5. ASSUME NEW new \in P, config' = [config EXCEPT !.providers[1] = new]
      PROVE  config' \in Configs
  <2>1. [ps EXCEPT ![1] = new] \in Seq(P) \ {<<>>}
    <3> HIDE DEF P
    <3>1. [ps EXCEPT ![1] = new] \in Seq(P)
      BY <1>3, ExceptSeq
    <3>2. DOMAIN [ps EXCEPT ![1] = new] # {}
      BY <1>3
    <3> QED
      BY <3>1, <3>2
  <2> QED
    BY <1>2, <1>5, <2>1 DEF Configs
<1>6. ASSUME NEW new \in P,
             config' = [config EXCEPT !.providers = Append(@, new)]
      PROVE  config' \in Configs
  <2>1. Append(ps, new) \in Seq(P) \ {<<>>}
    <3> HIDE DEF P
    <3>1. Append(ps, new) \in Seq(P) /\ Append(ps, new) # <<>>
      BY AppendProperties
    <3> QED
      BY <3>1
  <2> QED
    BY <1>2, <1>6, <2>1 DEF Configs
<1>7. CASE \E n \in {"feishu", "lark", Bad}, a \in Apps \cup {Bad} :
             config' = [config EXCEPT !.providers[1] = [name |-> n, app_id |-> a]]
  BY <1>5, <1>7
<1>8. ASSUME NEW n \in {"feishu", "lark"},
             config' = [config EXCEPT
                          !.providers = Append(@, [@[1] EXCEPT !.name = n])]
      PROVE  config' \in Configs
  <2>1. [ps[1] EXCEPT !.name = n] \in P
    BY <1>4
  <2>2. config' = [config EXCEPT !.providers =
                     Append(config.providers, [ps[1] EXCEPT !.name = n])]
    BY <1>2, <1>8
  <2> QED
    BY <1>6, <2>1, <2>2
<1> QED
  BY <1>7, <1>8 DEF EditProvider

LEMMA MappingEdited ==
    ASSUME config \in Configs, EditMapping
    PROVE  config' \in Configs
<1>1. PICK M \in Seq(Mappings) : M = config.mappings
  BY ConfigFacts
<1>2. PICK i \in DOMAIN M :
        \/ \E f \in DOMAIN MappingValues : \E v \in MappingValues[f] :
             config' = [config EXCEPT !.mappings[i][f] = v]
        \/ config' = [config EXCEPT !.mappings = Append(@, @[i])]
        \/ config' = [config EXCEPT !.mappings =
                        SubSeq(@, 1, i - 1) \o SubSeq(@, i + 1, Len(@))]
  BY <1>1 DEF EditMapping
<1>3. i \in 1 .. Len(M) /\ Len(M) \in Nat
  BY <1>2
<1>4. M[i] \in Mappings
  BY <1>3, ElementOfSeq
<1>5. ASSUME NEW new \in Seq(Mappings),
             config' = [config EXCEPT !.mappings = new]
      PROVE  config' \in Configs
  BY <1>5 DEF Configs
<1>6. ASSUME NEW f \in DOMAIN MappingValues, NEW v \in MappingValues[f],
             config' = [config EXCEPT !.mappings[i][f] = v]
      PROVE  config' \in Configs
  <2>1. [M[i] EXCEPT ![f] = v] \in Mappings
    <3>1. f \in {"provider", "identity_type", "external_user_id", "principal",
                 "session_id", "channel_id"}
      BY DEF MappingValues
    <3>2. PICK e \in Mappings : e = M[i]
      BY <1>4
    <3>3. [e EXCEPT ![f] = v] \in Mappings
      BY <3>1 DEF Mappings
    <3> QED
      BY <3>2, <3>3
  <2>2. [M EXCEPT ![i] = [M[i] EXCEPT ![f] = v]] \in Seq(Mappings)
    BY <1>3, <2>1, ExceptSeq
  <2>3. config' = [config EXCEPT !.mappings =
                     [M EXCEPT ![i] = [M[i] EXCEPT ![f] = v]]]
    BY <1>1, <1>6
  <2> QED
    BY <1>5, <2>2, <2>3
<1>7. CASE config' = [config EXCEPT !.mappings = Append(@, @[i])]
  <2>1. Append(M, M[i]) \in Seq(Mappings)
    BY <1>4, AppendProperties
  <2> QED
    BY <1>1, <1>5, <1>7, <2>1
<1>8. CASE config' = [config EXCEPT !.mappings =
                        SubSeq(@, 1, i - 1) \o SubSeq(@, i + 1, Len(@))]
  <2>1. SubSeq(M, 1, i - 1) \o SubSeq(M, i + 1, Len(M)) \in Seq(Mappings)
    BY <1>3
  <2> QED
    BY <1>1, <1>5, <1>8, <2>1
<1> QED
  BY <1>2, <1>6, <1>7, <1>8
-----------------------------------------------------------------------------
(* The inductive invariant of the start.  What a phase has checked still    *)
(* holds in the later ones, and a refusal had a reason in the documents.    *)
StartupInv ==
    /\ config \in Configs /\ edits \in 0 .. MaxEdits /\ stop_event \in BOOLEAN
    /\ phase \in {"down", "index", "validate", "running", "refused", "stopped"}
    /\ unchecked \subseteq ChannelIds /\ indexed \subseteq ChannelIds
    /\ phase = "down" => unchecked = {} /\ indexed = {}
    /\ phase = "index" => /\ ChannelIds \subseteq unchecked \cup indexed
                         /\ unchecked \cap indexed = {}
    /\ phase \in {"index", "validate", "running"} => ParseConfig /\ Routed
    /\ phase \in {"validate", "running"} =>
         /\ indexed = ChannelIds
         /\ \A c \in indexed \ unchecked : ValidChannel(c)
    /\ phase = "running" => unchecked = {}
    /\ phase = "refused" =>
         ~(DocumentedFields /\ DocumentedMappings /\ DocumentedChannels)

(* A step of the process leaves the files alone, and what they decide.      *)
LEMMA FilesKept ==
    ASSUME config' = config, channels' = channels
    PROVE  /\ ParseConfig' = ParseConfig /\ Entries' = Entries
           /\ ChannelIds' = ChannelIds
           /\ (DocumentedFields /\ DocumentedMappings /\ DocumentedChannels)'
                = (DocumentedFields /\ DocumentedMappings /\ DocumentedChannels)
<1>1. ParseConfig' = ParseConfig
  BY DEF ParseConfig
<1>2. Entries' = Entries /\ ChannelIds' = ChannelIds
  BY DEF Entries, ChannelIds
<1>3. DocumentedFields' = DocumentedFields
  BY DEF DocumentedFields, Setting
<1>4. DocumentedMappings' = DocumentedMappings
  BY <1>2 DEF DocumentedMappings, HasToken
<1>5. DocumentedChannels' = DocumentedChannels
  BY <1>2 DEF DocumentedChannels
<1> QED
  BY <1>1, <1>2, <1>3, <1>4, <1>5

LEMMA TablesKept ==
    ASSUME config' = config, channels' = channels, indexed' = indexed
    PROVE  /\ Routed' = Routed
           /\ \A c : ValidChannel(c)' = ValidChannel(c)
<1>1. Entries' = Entries
  BY FilesKept
<1>2. Routed' = Routed
  BY DEF Routed, IsPair, HasToken
<1>3. ASSUME NEW c PROVE ValidChannel(c)' = ValidChannel(c)
  BY <1>1 DEF ValidChannel, ValidMembers, ProviderSession, EntriesOf
<1> QED
  BY <1>2, <1>3

LEMMA StartupStarts == StartupInit => StartupInv
<1>1. MaxEdits \in Nat /\ InitialConfig \in Configs
  BY ConstantFacts
<1>2. 0 \in 0 .. MaxEdits
  BY <1>1
<1> QED
  BY <1>1, <1>2 DEF StartupInit, StartupInv

LEMMA EditKeepsStartup ==
    ASSUME StartupInv, EditSetting \/ EditProvider \/ EditMapping \/ EditChannel
    PROVE  StartupInv'
<1>1. /\ phase = "down" /\ phase' = "down" /\ edits' \in 0 .. MaxEdits
      /\ unchecked' = {} /\ indexed' = {} /\ stop_event' \in BOOLEAN
  <2>1. Edit
    BY DEF EditSetting, EditProvider, EditMapping, EditChannel
  <2>2. MaxEdits \in Nat
    BY ConstantFacts
  <2>3. edits' \in 0 .. MaxEdits
    BY <2>1, <2>2 DEF Edit, StartupInv
  <2> QED
    BY <2>1, <2>3 DEF Edit, StartupInv
<1>2. config' \in Configs
  <2>1. CASE EditChannel
    BY <2>1 DEF EditChannel, StartupInv
  <2> QED
    BY <2>1, SettingEdited, ProviderEdited, MappingEdited DEF StartupInv
<1> QED
  BY <1>1, <1>2 DEF StartupInv

LEMMA LoadKeepsStartup ==
    ASSUME StartupInv, Load
    PROVE  StartupInv'
<1>1. /\ config' = config /\ channels' = channels /\ edits' = edits
      /\ indexed' = indexed /\ stop_event' = stop_event /\ indexed = {}
      /\ unchecked = {}
  BY DEF Load, StartupInv
<1>2. CASE ParseConfig
  <2>1. phase' = "index" /\ unchecked' = ChannelIds
    BY <1>2 DEF Load
  <2>2. Routed'
    BY <1>1 DEF Routed
  <2> QED
    BY <1>1, <1>2, <2>1, <2>2, FilesKept DEF StartupInv
<1>3. CASE ~ParseConfig
  <2>1. phase' = "refused" /\ unchecked' = unchecked
    BY <1>3 DEF Load
  <2>2. ~(DocumentedFields /\ DocumentedMappings /\ DocumentedChannels)
    BY <1>3, DocumentedIsParsed DEF StartupInv
  <2>3. ~(DocumentedFields /\ DocumentedMappings /\ DocumentedChannels)'
    BY <1>1, <2>2, FilesKept
  <2> QED
    BY <1>1, <2>1, <2>3, FilesKept DEF StartupInv
<1> QED
  BY <1>2, <1>3

LEMMA IndexKeepsStartup ==
    ASSUME StartupInv, NEW c \in unchecked, IndexChannel(c)
    PROVE  StartupInv'
<1>1. /\ config' = config /\ channels' = channels /\ edits' = edits
      /\ stop_event' = stop_event /\ phase = "index"
      /\ unchecked' = unchecked \ {c}
      /\ c \in ChannelIds /\ c \notin indexed
  BY DEF IndexChannel, StartupInv
<1>2. CASE MapsToSession(c)
  <2>1. indexed' = indexed \cup {c} /\ phase' = phase
    BY <1>2 DEF IndexChannel
  <2>2. PICK a \in DOMAIN config.mappings, b \in DOMAIN config.mappings :
          /\ IsPair(c, a, b)
          /\ ChannelForProviderSession(SessionOf(config.mappings[a])) = {}
    BY <1>2 DEF MapsToSession
  <2>3. \A d \in indexed' :
          \E i, j \in DOMAIN config.mappings : IsPair(d, i, j)
    BY <1>1, <2>1, <2>2 DEF StartupInv, Routed
  <2>4. ASSUME NEW i \in DOMAIN config.mappings,
               NEW j \in DOMAIN config.mappings,
               config.mappings[i].channel_id = c,
               config.mappings[j].channel_id \in indexed,
               SessionOf(config.mappings[i]) = SessionOf(config.mappings[j])
        PROVE  FALSE
    <3>1. i \in {a, b}
      BY <2>2, <2>4, PairFacts
    <3>2. SessionOf(config.mappings[i]) = SessionOf(config.mappings[a])
      BY <2>2, <3>1, PairFacts
    <3>3. PICK d \in indexed : d = config.mappings[j].channel_id
      BY <2>4
    <3>4. config.mappings[j] \in EntriesOf(d)
      BY <3>3 DEF EntriesOf, Entries
    <3>5. SessionOf(config.mappings[a]) \in ProviderSession(d)
      BY <2>4, <3>2, <3>4 DEF ProviderSession
    <3> QED
      BY <2>2, <3>5 DEF ChannelForProviderSession
  <2>5. \A i, j \in DOMAIN config.mappings :
          LET d == config.mappings[i]
              e == config.mappings[j]
          IN  (/\ d.channel_id \in indexed' /\ e.channel_id \in indexed'
               /\ SessionOf(d) = SessionOf(e)) => d.channel_id = e.channel_id
    <3>1. \A i, j \in DOMAIN config.mappings :
            (/\ config.mappings[i].channel_id \in indexed
             /\ config.mappings[j].channel_id \in indexed
             /\ SessionOf(config.mappings[i]) = SessionOf(config.mappings[j]))
            => config.mappings[i].channel_id = config.mappings[j].channel_id
      BY <1>1 DEF StartupInv, Routed
    <3> QED
      BY <2>1, <2>4, <3>1
  <2>6. Routed'
    BY <1>1, <2>3, <2>5 DEF Routed, IsPair, HasToken
  <2> QED
    BY <1>1, <2>1, <2>6, FilesKept DEF StartupInv
<1>3. CASE ~MapsToSession(c)
  <2>1. indexed' = indexed /\ phase' = "refused"
    BY <1>3 DEF IndexChannel
  <2>2. ~DocumentedMappings
    BY <1>1, <1>3, DocumentedMaps DEF StartupInv
  <2> QED
    BY <1>1, <2>1, <2>2, FilesKept DEF StartupInv
<1> QED
  BY <1>2, <1>3

LEMMA ValidateKeepsStartup ==
    ASSUME StartupInv, NEW c \in unchecked, ValidateChannel(c)
    PROVE  StartupInv'
<1>1. /\ config' = config /\ channels' = channels /\ edits' = edits
      /\ stop_event' = stop_event /\ phase = "validate" /\ indexed' = indexed
      /\ unchecked' = unchecked \ {c}
      /\ phase' = IF stop_event THEN "stopped"
                  ELSE IF ValidChannel(c) THEN "validate" ELSE "refused"
      /\ c \in ChannelIds /\ c \in indexed
  BY DEF ValidateChannel, StartupInv
<1>2. phase' = "refused" => ~DocumentedChannels
  BY <1>1, DocumentedValid
<1>3. phase' = "validate" => \A d \in indexed \ unchecked' : ValidChannel(d)
  BY <1>1 DEF StartupInv
<1>4. /\ Routed' = Routed
      /\ \A d : ValidChannel(d)' = ValidChannel(d)
  BY <1>1, TablesKept
<1>5. phase' = "validate" => \A d \in indexed' \ unchecked' : ValidChannel(d)'
  BY <1>1, <1>3, <1>4
<1> QED
  BY <1>1, <1>2, <1>4, <1>5, FilesKept DEF StartupInv

(* The other steps, and the ends of a process that the path adds.          *)
Stop ==
    /\ phase' = "stopped"
    /\ UNCHANGED <<config, channels, edits, unchecked, indexed, stop_event>>

LEMMA PhaseKeepsStartup ==
    ASSUME StartupInv,
           StartWorker \/ RequestStop \/ Restart \/ Run \/ Stop
             \/ UNCHANGED startup
    PROVE  StartupInv'
<1>1. config' = config /\ channels' = channels /\ edits' = edits
  BY DEF StartWorker, RequestStop, Restart, Run, Stop, startup
<1>2. CASE Restart
  BY <1>1, <1>2 DEF Restart, StartupInv
<1>3. CASE StartWorker \/ RequestStop \/ Run \/ Stop \/ UNCHANGED startup
  <2>1. indexed' = indexed
    BY <1>3 DEF StartWorker, RequestStop, Run, Stop, startup
  <2>2. /\ Routed' = Routed
        /\ \A d : ValidChannel(d)' = ValidChannel(d)
    BY <1>1, <2>1, TablesKept
  <2>3. CASE StartWorker
    BY <1>1, <2>1, <2>2, <2>3, FilesKept DEF StartWorker, StartupInv
  <2>4. CASE RequestStop \/ Run \/ UNCHANGED startup
    BY <1>1, <2>1, <2>2, <2>4, FilesKept DEF RequestStop, Run, startup, StartupInv
  <2>5. CASE Stop
    BY <1>1, <2>1, <2>5, FilesKept DEF Stop, StartupInv
  <2> QED
    BY <1>3, <2>3, <2>4, <2>5
<1> QED
  BY <1>2, <1>3
-----------------------------------------------------------------------------
(* What a running worker is.                                               *)

LEMMA RunningFacts ==
    ASSUME StartupInv, phase = "running"
    PROVE  /\ config \in Configs /\ ParseConfig /\ Routed
           /\ indexed = ChannelIds /\ \A c \in indexed : ValidChannel(c)
           /\ DocumentedFields /\ DocumentedMappings
BY RoutedIsDocumented DEF StartupInv

LEMMA StartsDocumented == StartupInv => StartsIffDocumented
BY RunningFacts, ValidIsDocumented DEF StartupInv, StartsIffDocumented

(* Each channel has a pair of entries, of the one app that is connected.    *)
LEMMA PairRoutes ==
    ASSUME StartupInv, phase = "running", NEW c \in indexed
    PROVE  \E i, j \in DOMAIN config.mappings : \E s \in Sessions :
             LET user == config.mappings[i]
                 bot == config.mappings[j]
             IN  /\ EntriesOf(c) = {user, bot}
                 /\ SessionOf(user) = <<config.providers[1].name, s>>
                 /\ SessionOf(bot) = <<config.providers[1].name, s>>
                 /\ user.provider = config.providers[1].name
                 /\ bot.provider = config.providers[1].name
                 /\ IdentityType(user) = "user" /\ IdentityType(bot) = "bot"
                 /\ user.principal # bot.principal
                 /\ HasToken(user.principal) /\ HasToken(bot.principal)
                 /\ user.principal \in Principals \ {config.worker}
                 /\ bot.principal \in Principals \ {config.worker}
                 /\ bot.external_user_id = config.providers[1].app_id
                 /\ user.external_user_id \in Apps \cup Users
<1> DEFINE M == config.mappings
<1>1. PICK name \in {"feishu", "lark"}, app \in Apps :
        /\ config.providers = <<[name |-> name, app_id |-> app]>>
        /\ \A e \in Entries : /\ e.provider = name
                              /\ e.identity_type = "bot"
                                   => e.external_user_id = app
  BY RunningFacts DEF DocumentedMappings
<1>2. config.providers[1].name = name /\ config.providers[1].app_id = app
  BY <1>1
<1>3. PICK i \in DOMAIN M, j \in DOMAIN M : IsPair(c, i, j)
  BY RunningFacts DEF Routed
<1>4. \A k \in DOMAIN M :
        /\ M[k] \in Entries
        /\ M[k].external_user_id \in Apps \cup Users \cup {Bad}
        /\ M[k].principal \in Principals
        /\ M[k].session_id \in Sessions \cup {Bad}
  BY RunningFacts, EntryFacts
<1>5. \A k \in DOMAIN M :
        /\ M[k].external_user_id # Bad /\ M[k].session_id # Bad
        /\ M[k].provider = name /\ HasToken(M[k].principal)
        /\ M[k].identity_type = "bot" => M[k].external_user_id = app
  BY <1>1, <1>4, RunningFacts DEF DocumentedMappings
<1>6. \A k \in DOMAIN M : M[k].principal # config.worker
  BY <1>5, RunningFacts DEF DocumentedMappings, HasToken
<1>7. EntriesOf(c) = {M[i], M[j]}
  <2>1. {e \in Entries : e.channel_id = c} = {M[i], M[j]}
    BY <1>3, PairFacts
  <2> QED
    BY <2>1 DEF EntriesOf
<1>8. /\ SessionOf(M[i]) = SessionOf(M[j])
      /\ IdentityType(M[i]) = "user" /\ IdentityType(M[j]) = "bot"
      /\ M[i].principal # M[j].principal
  BY <1>3 DEF IsPair
<1>9. M[j].identity_type = "bot"
  BY <1>8 DEF IdentityType
<1>10. PICK s \in Sessions : s = M[i].session_id
  BY <1>4, <1>5
<1>11. SessionOf(M[i]) = <<name, s>>
  BY <1>5, <1>10 DEF SessionOf
<1> QED
  BY <1>2, <1>4, <1>5, <1>6, <1>7, <1>8, <1>9, <1>11
LEMMA SettingFacts ==
    ASSUME config \in Configs, DocumentedFields
    PROVE  /\ Setting("publish_max_attempts") \in Nat \ {0}
           /\ Setting("page_size") \in Nat \ {0}
           /\ Setting("event_queue_size") \in Nat \ {0}
           /\ Setting("history_lookback_ms") \in Nat \ {0}
           /\ Setting("history_overlap_ms") \in Nat
<1>1. ASSUME NEW f \in NumberFields
      PROVE  Setting(f) \in Nat
  <2>1. config.numbers[f] \in Int \cup {Absent, Bad}
    BY ConfigFacts
  <2>2. Default[f] \in Nat
    BY FieldFacts
  <2>3. config.numbers[f] # Bad /\ Setting(f) >= 0
    BY DEF DocumentedFields
  <2>4. CASE config.numbers[f] = Absent
    BY <2>2, <2>4 DEF Setting
  <2>5. CASE config.numbers[f] # Absent
    <3>1. Setting(f) = config.numbers[f] /\ config.numbers[f] \in Int
      BY <2>1, <2>3, <2>5 DEF Setting
    <3> QED
      BY <2>3, <3>1
  <2> QED
    BY <2>4, <2>5
<1>2. \A f \in {"publish_max_attempts", "page_size", "event_queue_size",
               "history_lookback_ms"} : Setting(f) > 0
  BY FieldFacts DEF DocumentedFields
<1> QED
  BY <1>1, <1>2, FieldFacts

LEMMA Routes == StartupInv => RoutesBothWays
<1> SUFFICES ASSUME StartupInv, phase = "running" PROVE RoutesBothWays
  BY DEF RoutesBothWays
<1> DEFINE name == config.providers[1].name
           app == config.providers[1].app_id
<1>1. ASSUME NEW c \in indexed
      PROVE  \E user, bot \in Principals \ {config.worker} :
               /\ user # bot /\ HasToken(user) /\ HasToken(bot)
               /\ \E s \in Sessions :
                    /\ ProviderSession(c) = {<<name, s>>}
                    /\ ChannelForProviderSession(<<name, s>>) = {c}
               /\ PeerPrincipals(c, user) = {bot}
               /\ PeerPrincipals(c, bot) = {user}
               /\ \A a \in Apps \cup Users :
                    PrincipalForExternalUser(c, name, a, "bot")
                      = IF a = app THEN {bot} ELSE {}
               /\ \E x \in Apps \cup Users : \A y \in Apps \cup Users :
                    PrincipalForExternalUser(c, name, y, "user")
                      = IF y = x THEN {user} ELSE {}
               /\ \A p \in Principals : SenderExternalUserId(c, p, "bot")
                    = IF p = bot THEN {app} ELSE {}
  <2>1. PICK i \in DOMAIN config.mappings, j \in DOMAIN config.mappings,
             s \in Sessions :
               LET user == config.mappings[i]
                   bot == config.mappings[j]
               IN  /\ EntriesOf(c) = {user, bot}
                   /\ SessionOf(user) = <<name, s>> /\ SessionOf(bot) = <<name, s>>
                   /\ user.provider = name /\ bot.provider = name
                   /\ IdentityType(user) = "user" /\ IdentityType(bot) = "bot"
                   /\ user.principal # bot.principal
                   /\ HasToken(user.principal) /\ HasToken(bot.principal)
                   /\ user.principal \in Principals \ {config.worker}
                   /\ bot.principal \in Principals \ {config.worker}
                   /\ bot.external_user_id = app
                   /\ user.external_user_id \in Apps \cup Users
    BY PairRoutes
  <2>2. PICK user, bot : user = config.mappings[i] /\ bot = config.mappings[j]
    OBVIOUS
  <2>3. /\ EntriesOf(c) = {user, bot}
        /\ SessionOf(user) = <<name, s>> /\ SessionOf(bot) = <<name, s>>
        /\ user.provider = name /\ bot.provider = name
        /\ IdentityType(user) = "user" /\ IdentityType(bot) = "bot"
        /\ user.principal # bot.principal
        /\ HasToken(user.principal) /\ HasToken(bot.principal)
        /\ user.principal \in Principals \ {config.worker}
        /\ bot.principal \in Principals \ {config.worker}
        /\ bot.external_user_id = app
        /\ user.external_user_id \in Apps \cup Users
    BY <2>1, <2>2
  <2>4. ProviderSession(c) = {<<name, s>>}
    BY <2>3 DEF ProviderSession
  <2>5. ChannelForProviderSession(<<name, s>>) = {c}
    <3>1. ASSUME NEW d \in indexed, <<name, s>> \in ProviderSession(d)
          PROVE  d = c
      <4>1. PICK k \in DOMAIN config.mappings :
              /\ config.mappings[k].channel_id = d
              /\ SessionOf(config.mappings[k]) = <<name, s>>
        BY <3>1 DEF ProviderSession, EntriesOf, Entries
      <4>2. config.mappings[i].channel_id = c
        BY <2>2, <2>3 DEF EntriesOf
      <4>3. SessionOf(config.mappings[i]) = <<name, s>>
        BY <2>2, <2>3
      <4>4. Routed
        BY RunningFacts
      <4> QED
        BY <4>1, <4>2, <4>3, <4>4 DEF Routed
    <3> QED
      BY <2>4, <3>1 DEF ChannelForProviderSession
  <2>6. /\ PeerPrincipals(c, user.principal) = {bot.principal}
        /\ PeerPrincipals(c, bot.principal) = {user.principal}
    BY <2>3 DEF PeerPrincipals
  <2>7. \A a : PrincipalForExternalUser(c, name, a, "bot")
                = IF a = app THEN {bot.principal} ELSE {}
    BY <2>3 DEF PrincipalForExternalUser
  <2>8. \A y : PrincipalForExternalUser(c, name, y, "user")
                = IF y = user.external_user_id THEN {user.principal} ELSE {}
    BY <2>3 DEF PrincipalForExternalUser
  <2>9. \A p : SenderExternalUserId(c, p, "bot")
                = IF p = bot.principal THEN {app} ELSE {}
    BY <2>3 DEF SenderExternalUserId
  <2>10. \E x \in Apps \cup Users : \A y \in Apps \cup Users :
           PrincipalForExternalUser(c, name, y, "user")
             = IF y = x THEN {user.principal} ELSE {}
    BY <2>3, <2>8
  <2>11. \E u, b \in Principals \ {config.worker} :
           u = user.principal /\ b = bot.principal
    BY <2>3
  <2> HIDE DEF name, app
  <2> QED
    BY <2>3, <2>4, <2>5, <2>6, <2>7, <2>9, <2>10, <2>11
<1>2. /\ Setting("publish_max_attempts") \in Nat \ {0}
      /\ Setting("page_size") \in Nat \ {0}
      /\ Setting("event_queue_size") \in Nat \ {0}
      /\ Setting("history_lookback_ms") \in Nat \ {0}
      /\ Setting("history_overlap_ms") \in Nat
  BY RunningFacts, SettingFacts
<1> QED
  BY <1>1, <1>2 DEF RoutesBothWays

(* A worker runs exactly when the documents allow it, and a running one can *)
(* deliver both ways in every channel it serves.                           *)
LEMMA StartupStep ==
    ASSUME StartupInv, StartupNext \/ Run \/ Stop \/ UNCHANGED startup
    PROVE  StartupInv'
BY EditKeepsStartup, LoadKeepsStartup, IndexKeepsStartup, ValidateKeepsStartup,
   PhaseKeepsStartup
DEF StartupNext

LEMMA NextIsStartupStep ==
    ASSUME [Next]_vars
    PROVE  StartupNext \/ Run \/ Stop \/ UNCHANGED startup
<1>1. CASE Startup
  BY <1>1 DEF Startup
<1>2. CASE Scan
  BY <1>2 DEF Scan
<1>3. CASE ScanFails \/ Exit
  BY <1>3 DEF ScanFails, Exit, Fails, Stop
<1>4. ASSUME NEW m, Post(m) PROVE UNCHANGED startup
  BY <1>4 DEF Post
<1>5. CASE ProcessLiveMessage
  BY <1>5 DEF ProcessLiveMessage, Fails, Stop
<1>6. ASSUME NEW i, NEW id, ProcessOutboundTask(i, id)
      PROVE  Stop \/ UNCHANGED startup
  BY <1>6 DEF ProcessOutboundTask, Fails, Stop
<1>7. ASSUME NEW m, Deliver(m) PROVE Stop \/ UNCHANGED startup
  BY <1>7 DEF Deliver, PublishProviderEvent, Fails, Stop
<1>8. CASE UNCHANGED vars
  BY <1>8 DEF vars
<1> QED
  BY <1>1, <1>2, <1>3, <1>4, <1>5, <1>6, <1>7, <1>8 DEF Next

LEMMA StartupInvariant == Spec => []StartupInv
<1>1. Init => StartupInv
  BY StartupStarts DEF Init
<1>2. StartupInv /\ [Next]_vars => StartupInv'
  BY StartupStep, NextIsStartupStep
<1> QED
  BY <1>1, <1>2, PTL DEF Spec

(* parse_config, P2PMappingIndex and _validate_channels: no combination of  *)
(* edits gets a worker past the three checks with a configuration the       *)
(* documents forbid, and none they allow is refused.                       *)
THEOREM WorkerStartsIffDocumented == Spec => []StartsIffDocumented
BY StartupInvariant, StartsDocumented, PTL

(* P2PMappingIndex: in every channel of a running worker the user and the   *)
(* app resolve to two participants, each the other's only peer, and no      *)
(* session leads to two channels.                                          *)
THEOREM WorkerRoutesBothWays == Spec => []RoutesBothWays
BY StartupInvariant, Routes, PTL
-----------------------------------------------------------------------------
(* The two ways of a message.                                              *)

(* Lark names the sender of an app's message `app`, and the only app in a   *)
(* p2p chat of the connected app is that app.                              *)
FromTheApp ==
    \A m \in Messages :
        /\ m.sender_type # "bot"
        /\ m.sender_type = "app" => m.sender = AppId

LEMMA SessionFacts ==
    ASSUME StartupInv, phase = "running"
    PROVE  /\ \A s \in AllowedSessions : Truthy(s)
           /\ Truthy(AppId)
<1>1. \A i \in DOMAIN config.mappings : Truthy(config.mappings[i].session_id)
  <2>1. ASSUME NEW i \in DOMAIN config.mappings
        PROVE  Truthy(config.mappings[i].session_id)
    <3>1. config.mappings[i] \in Entries
      BY DEF Entries
    <3>2. config.mappings[i].session_id # Bad
      BY <3>1, RunningFacts DEF DocumentedMappings
    <3>3. config.mappings[i].session_id \in Sessions \cup {Bad}
      BY RunningFacts, EntryFacts
    <3> QED
      BY <3>2, <3>3, ConstantFacts DEF Truthy
  <2> QED
    BY <2>1
<1>2. AppId \in Apps
  <2>1. PICK name \in {"feishu", "lark"}, app \in Apps :
          config.providers = <<[name |-> name, app_id |-> app]>>
    BY RunningFacts DEF DocumentedMappings
  <2> QED
    BY <2>1 DEF AppId
<1> QED
  BY <1>1, <1>2, ConstantFacts DEF AllowedSessions, Entries, Truthy

LEMMA SameEvent ==
    ASSUME NEW m, NEW provider, NEW app_id, NEW allowed_sessions,
           m.session \in allowed_sessions, Truthy(m.session), Truthy(app_id),
           m.sender_type # "bot",
           m.sender_type = "app" => m.sender = app_id
    PROVE  MessageToEvent(provider, m.session, HistoryItem(m))
             = HandleMessageEvent(provider, app_id, allowed_sessions,
                                  PushedMessage(m))
<1> DEFINE p == PushedMessage(m)
           h == HistoryItem(m)
           Built(sender, identity) ==
             BuildProviderEvent(provider, m.session, m.id, m.type, m.time,
                                sender, identity, m.content)
<1>1. HandleMessageEvent(provider, app_id, allowed_sessions, p)
        = EventMessageToEvent(provider, app_id, p)
  BY DEF HandleMessageEvent, PushedMessage
<1>2. CASE m.sender_type = "app"
  <2>1. SenderIdentityType(m.sender_type) = "bot" /\ "bot" # Absent
    BY <1>2, ConstantFacts DEF SenderIdentityType
  <2>2. EventMessageToEvent(provider, app_id, p) = Built(app_id, "bot")
    BY <2>1 DEF EventMessageToEvent, PushedMessage
  <2>3. MessageToEvent(provider, m.session, h) = Built(m.sender, "bot")
    BY <1>2, <2>1 DEF MessageToEvent, HistoryItem
  <2> QED
    BY <1>1, <1>2, <2>2, <2>3
<1>3. CASE m.sender_type = "user"
  <2>1. SenderIdentityType(m.sender_type) = "user" /\ "user" # Absent
    BY <1>3, ConstantFacts DEF SenderIdentityType
  <2>2. EventMessageToEvent(provider, app_id, p) = Built(m.sender, "user")
    BY <1>3, <2>1 DEF EventMessageToEvent, PushedMessage
  <2>3. CASE Truthy(m.sender)
    <3>1. MessageToEvent(provider, m.session, h) = Built(m.sender, "user")
      BY <1>3, <2>1, <2>3 DEF MessageToEvent, HistoryItem
    <3> QED
      BY <1>1, <2>2, <3>1
  <2>4. CASE ~Truthy(m.sender)
    <3>1. MessageToEvent(provider, m.session, h) = Malformed
      BY <2>4 DEF MessageToEvent, HistoryItem
    <3>2. Built(m.sender, "user") = Malformed
      BY <2>4 DEF BuildProviderEvent
    <3> QED
      BY <1>1, <2>2, <3>1, <3>2
  <2> QED
    BY <2>3, <2>4
<1>4. CASE m.sender_type \notin {"app", "user"}
  <2>1. SenderIdentityType(m.sender_type) = Absent
    BY <1>4 DEF SenderIdentityType
  <2>2. MessageToEvent(provider, m.session, h) = Malformed
    BY <2>1 DEF MessageToEvent, HistoryItem
  <2>3. EventMessageToEvent(provider, app_id, p) = Malformed
    BY <2>1 DEF EventMessageToEvent, PushedMessage
  <2> QED
    BY <1>1, <2>2, <2>3
<1> QED
  BY <1>2, <1>3, <1>4

(* lark_openapi.py: whatever fields a message lacks or has in bad form, the *)
(* page of the history and the pushed event give the same event, or both    *)
(* are malformed, if Lark reports an app's message as the connected app's.  *)
THEOREM BothWaysAgree == Spec => [](FromTheApp => PathsAgree)
<1>1. StartupInv => (FromTheApp => PathsAgree)
  <2> SUFFICES ASSUME StartupInv, FromTheApp, phase = "running",
                      NEW m \in Messages, m.session \in AllowedSessions
               PROVE  Listed(m) = Pushed(m)
    BY DEF PathsAgree
  <2>1. Truthy(m.session) /\ Truthy(AppId)
    BY SessionFacts
  <2> QED
    BY <2>1, SameEvent DEF FromTheApp, Listed, Pushed
<1> QED
  BY <1>1, StartupInvariant, PTL
-----------------------------------------------------------------------------
(* The scan.  What the recursive function computes is shown by induction    *)
(* over the positions of the log: a set of positions that a least one       *)
(* outside of it would contradict.                                         *)

LEMMA Climb ==
    ASSUME NEW N \in Nat, NEW S, 0 \in S,
           \A n \in 1 .. N : n - 1 \in S => n \in S
    PROVE  \A n \in 0 .. N : n \in S
<1> DEFINE T == (0 .. N) \ S
<1> SUFFICES ASSUME T # {} PROVE FALSE
  OBVIOUS
<1>1. IsFiniteSet(T) /\ T \in SUBSET Nat
  <2>1. IsFiniteSet(0 .. N)
    BY FS_Interval
  <2> QED
    BY <2>1, FS_Subset
<1>2. PICK i \in T : \A j \in T : ~(j < i)
  <2> HIDE DEF T
  <2>1. Cardinality(T) \in Nat /\ Cardinality(T) # 0
    BY <1>1, FS_CardinalityType, FS_EmptySet
  <2>2. 1 \in 1 .. Cardinality(T)
    BY <2>1
  <2>3. PICK i \in T : Rank(i, T) = 0
    <3>1. PICK i \in T : Rank(i, T) = 1 - 1
      BY <1>1, <2>2, RankTaken
    <3> QED
      BY <3>1
  <2>4. {j \in T : j < i} = {}
    <3>1. IsFiniteSet({j \in T : j < i})
      BY <1>1, FS_Subset
    <3> QED
      BY <2>3, <3>1, FS_EmptySet DEF Rank
  <2> QED
    BY <2>4
<1>3. i \in 1 .. N /\ i - 1 \in 0 .. N /\ i - 1 < i
  BY DEF T
<1>4. i - 1 \in S
  BY <1>2, <1>3
<1> QED
  BY <1>3, <1>4

ScanStep(known, n) ==
    IF known.refused THEN known ELSE ProcessMessage(known, n, FALSE)

IsScan(f, k) ==
    f = [n \in 0 .. k |-> IF n = 0 THEN NoMarks ELSE ScanStep(f[n - 1], n)]

LEMMA ScanExists ==
    ASSUME Len(log) \in Nat
    PROVE  \E f : IsScan(f, Len(log))
<1> DEFINE S == {k \in Nat : \E f : IsScan(f, k)}
<1>1. 0 \in S
  <2>1. IsScan([n \in 0 .. 0 |-> NoMarks], 0)
    BY DEF IsScan
  <2> QED
    BY <2>1
<1>2. ASSUME NEW k \in 1 .. Len(log), k - 1 \in S
      PROVE  k \in S
  <2>1. PICK f : IsScan(f, k - 1)
    BY <1>2
  <2>2. \A n \in 0 .. k - 1 :
          f[n] = IF n = 0 THEN NoMarks ELSE ScanStep(f[n - 1], n)
    BY <2>1 DEF IsScan
  <2> DEFINE last == ScanStep(f[k - 1], k)
             g == [n \in 0 .. k |-> IF n = k THEN last ELSE f[n]]
  <2> HIDE DEF last
  <2>3. \A n \in 0 .. k :
          g[n] = IF n = 0 THEN NoMarks ELSE ScanStep(g[n - 1], n)
    <3> TAKE n \in 0 .. k
    <3>1. CASE n = 0
      BY <2>2, <3>1
    <3>2. CASE n \in 1 .. k - 1
      <4>1. g[n] = f[n] /\ g[n - 1] = f[n - 1] /\ n # 0
        BY <3>2
      <4>2. f[n] = ScanStep(f[n - 1], n)
        BY <2>2, <3>2
      <4> QED
        BY <4>1, <4>2
    <3>3. CASE n = k
      <4>1. g[n] = last /\ g[n - 1] = f[k - 1] /\ n # 0
        BY <3>3
      <4> QED
        BY <3>3, <4>1 DEF last
    <3> QED
      BY <3>1, <3>2, <3>3
  <2>4. IsScan(g, k)
    <3>1. g = [n \in 0 .. k |-> g[n]]
      OBVIOUS
    <3> HIDE DEF g
    <3> QED
      BY <2>3, <3>1 DEF IsScan
  <2> QED
    BY <2>4
<1>3. \A k \in 0 .. Len(log) : k \in S
  <2> HIDE DEF S
  <2> QED
    BY <1>1, <1>2, Climb
<1> QED
  BY <1>3

LEMMA ScannedFacts ==
    ASSUME Len(log) \in Nat
    PROVE  /\ Scanned[0] = NoMarks
           /\ \A n \in 1 .. Len(log) :
                Scanned[n] = ScanStep(Scanned[n - 1], n)
<1>1. IsScan(Scanned, Len(log))
  BY ScanExists DEF Scanned, IsScan, ScanStep
<1> QED
  BY <1>1 DEF IsScan
-----------------------------------------------------------------------------
(* What the marks say of the first n messages of the log.                  *)

Record(tasks, links, records, refused) ==
    [tasks |-> tasks, links |-> links, records |-> records, refused |-> refused]

IsMarks(known) ==
    /\ known = Record(known.tasks, known.links, known.records, known.refused)
    /\ known.refused = FALSE

(* The messages of a kind, among the first n, that share a request id.      *)
Sharing(i, n, kind) ==
    {j \in 1 .. n : /\ log[j].channel_id \in indexed
                    /\ log[j].payload.kind = kind
                    /\ log[j].payload.request_id = log[i].payload.request_id}

(* A task is the first request of its id, and has no result.               *)
Waits(i, n) ==
    /\ ParsesMessage(log[i]) /\ log[i].channel_id \in indexed
    /\ log[i].payload.kind = "send.request"
    /\ Earlier(i, "send.request") = {}
    /\ Sharing(i, n, "send.result") = {}

Marking(tasks, links, records, n) ==
    /\ tasks \subseteq 1 .. n
    /\ \A i \in tasks : Waits(i, n)
    /\ \A j \in 1 .. n :
         (log[j].channel_id \in indexed /\ log[j].payload.kind = "send.result")
           => Sharing(j, n, "send.request") # {}
    /\ \A l \in links : l[2] \in 1 .. n
    /\ \A r \in records : r[2] \in Nat

WellMarked(known, n) ==
    /\ IsMarks(known)
    /\ Marking(known.tasks, known.links, known.records, n)

(* At most one message waits for the live poll: the worker's own is marked  *)
(* already, another's is not.                                              *)
Unread == received # Len(log)

MarksInv ==
    /\ \E S : log \in Seq(S)
    /\ Len(log) <= MaxLog
    /\ phase # "running" => marks = NoMarks /\ received = 0
    /\ phase = "running" =>
         /\ received \in Nat /\ received <= Len(log) /\ Len(log) <= received + 1
         /\ ~Unread => WellMarked(marks, Len(log))
         /\ Unread => IF log[Len(log)].worker
                      THEN /\ WellMarked(marks, Len(log))
                           /\ log[Len(log)].payload.kind # "send.request"
                      ELSE /\ WellMarked(marks, Len(log) - 1)
                           /\ log[Len(log)].principal # config.worker

Clean == \A i \in DOMAIN log : ~RejectSourcePrincipal(log[i].payload)

(* The replay up to what is marked gives the marks.                        *)
ReplayInv ==
    (phase = "running" /\ Clean) =>
        /\ ~Unread => Scanned[Len(log)] = marks
        /\ Unread => IF log[Len(log)].worker
                     THEN Scanned[Len(log)] = marks
                     ELSE /\ Scanned[Len(log) - 1] = marks
                          /\ ParsesMessage(log[Len(log)])
                               => log[Len(log)].payload.kind # "sync.record"
LEMMA RecordFields ==
    ASSUME NEW t, NEW l, NEW r, NEW b
    PROVE  /\ Record(t, l, r, b).tasks = t /\ Record(t, l, r, b).links = l
           /\ Record(t, l, r, b).records = r /\ Record(t, l, r, b).refused = b
BY DEF Record

LEMMA RecordTasks ==
    ASSUME NEW t, NEW l, NEW r, NEW b, NEW x
    PROVE  [Record(t, l, r, b) EXCEPT !.tasks = x] = Record(x, l, r, b)
BY DEF Record

LEMMA RecordRecords ==
    ASSUME NEW t, NEW l, NEW r, NEW b, NEW x
    PROVE  [Record(t, l, r, b) EXCEPT !.records = x] = Record(t, l, x, b)
BY DEF Record

LEMMA RecordRefused ==
    ASSUME NEW t, NEW l, NEW r, NEW b, NEW x
    PROVE  [Record(t, l, r, b) EXCEPT !.refused = x] = Record(t, l, r, x)
BY DEF Record

LEMMA MarksFacts ==
    ASSUME NEW known, IsMarks(known)
    PROVE  /\ ~known.refused /\ Refuse(known).refused
           /\ \A t : [known EXCEPT !.tasks = t]
                     = Record(t, known.links, known.records, FALSE)
           /\ \A t, l : [known EXCEPT !.tasks = t, !.links = l]
                        = Record(t, l, known.records, FALSE)
           /\ \A r : [known EXCEPT !.records = r]
                     = Record(known.tasks, known.links, r, FALSE)
<1>1. PICK t0, l0, r0, b0 :
        /\ t0 = known.tasks /\ l0 = known.links /\ r0 = known.records
        /\ b0 = known.refused
  OBVIOUS
<1>2. known = Record(t0, l0, r0, b0) /\ b0 = FALSE
  BY <1>1 DEF IsMarks
<1>3. ~known.refused
  BY <1>1, <1>2
<1>4. Refuse(known).refused
  <2>1. PICK yes : yes = TRUE
    OBVIOUS
  <2>2. Refuse(known) = [known EXCEPT !.refused = yes]
    BY <2>1 DEF Refuse
  <2>3. Refuse(known) = Record(t0, l0, r0, yes)
    BY <1>2, <2>2, RecordRefused
  <2>4. Refuse(known).refused = yes
    BY <2>3, RecordFields
  <2> QED
    BY <2>1, <2>4
<1>5. \A t : [known EXCEPT !.tasks = t] = Record(t, l0, r0, b0)
  BY <1>2, RecordTasks
<1>6. ASSUME NEW t, NEW l
      PROVE  [known EXCEPT !.tasks = t, !.links = l] = Record(t, l, r0, b0)
  <2>1. PICK new : new = [known EXCEPT !.tasks = t, !.links = l]
    OBVIOUS
  <2>2. /\ DOMAIN known = {"tasks", "links", "records", "refused"}
        /\ known.records = r0 /\ known.refused = b0
    BY <1>2 DEF Record
  <2>3. /\ DOMAIN new = {"tasks", "links", "records", "refused"}
        /\ new.tasks = t /\ new.links = l
        /\ new.records = r0 /\ new.refused = b0
    BY <2>1, <2>2
  <2>4. new = [f \in {"tasks", "links", "records", "refused"} |-> new[f]]
    BY <2>1, <2>2
  <2> QED
    BY <2>1, <2>3, <2>4 DEF Record
<1>7. \A r : [known EXCEPT !.records = r] = Record(t0, l0, r, b0)
  BY <1>2, RecordRecords
<1> QED
  BY <1>1, <1>2, <1>3, <1>4, <1>5, <1>6, <1>7

LEMMA WellMarkedRecord ==
    ASSUME NEW n, NEW t, NEW l, NEW r, Marking(t, l, r, n)
    PROVE  WellMarked(Record(t, l, r, FALSE), n)
<1>1. PICK rec, b : rec = Record(t, l, r, b) /\ b = FALSE
  OBVIOUS
<1>2. rec.tasks = t /\ rec.links = l /\ rec.records = r /\ rec.refused = b
  BY <1>1, RecordFields
<1>3. IsMarks(rec)
  BY <1>1, <1>2 DEF IsMarks
<1> QED
  BY <1>1, <1>2, <1>3 DEF WellMarked, Marking

(* One more message changes what the marks say only if it is a result in a  *)
(* channel that is mapped.                                                 *)
LEMMA SharingGrows ==
    ASSUME NEW n \in Nat, n # 0, NEW i, NEW kind
    PROVE  /\ Sharing(i, n - 1, kind) \subseteq Sharing(i, n, kind)
           /\ \A j \in Sharing(i, n, kind) :
                \/ j \in Sharing(i, n - 1, kind)
                \/ /\ j = n /\ log[n].channel_id \in indexed
                   /\ log[n].payload.kind = kind
                   /\ log[n].payload.request_id = log[i].payload.request_id
BY DEF Sharing

LEMMA Extends ==
    ASSUME NEW n \in Nat, n # 0, NEW known, WellMarked(known, n - 1),
           log[n].channel_id \notin indexed
             \/ log[n].payload.kind # "send.result"
    PROVE  WellMarked(known, n)
<1>1. \A i \in known.tasks : Sharing(i, n, "send.result") = {}
  BY SharingGrows DEF WellMarked, Marking, Waits
<1>2. \A j \in 1 .. n :
        (log[j].channel_id \in indexed /\ log[j].payload.kind = "send.result")
          => Sharing(j, n, "send.request") # {}
  <2> SUFFICES ASSUME NEW j \in 1 .. n, log[j].channel_id \in indexed,
                      log[j].payload.kind = "send.result"
               PROVE  Sharing(j, n, "send.request") # {}
    OBVIOUS
  <2>1. j \in 1 .. n - 1
    OBVIOUS
  <2>2. Sharing(j, n - 1, "send.request") # {}
    BY <2>1 DEF WellMarked, Marking
  <2> QED
    BY <2>2, SharingGrows
<1>3. 1 .. n - 1 \subseteq 1 .. n
  OBVIOUS
<1> QED
  BY <1>1, <1>2, <1>3 DEF WellMarked, Marking, Waits

LEMMA EarlierIsSharing ==
    ASSUME NEW n, NEW kind
    PROVE  Earlier(n, kind) = Sharing(n, n - 1, kind)
BY DEF Earlier, Sharing

LEMMA RequestMarked ==
    ASSUME NEW n \in Nat, n # 0, NEW known, WellMarked(known, n - 1),
           ParsesMessage(log[n]), log[n].channel_id \in indexed,
           log[n].payload.kind = "send.request",
           ~AddSendRequest(known, n).refused
    PROVE  WellMarked(AddSendRequest(known, n), n)
<1>1. WellMarked(known, n)
  BY Extends
<1>2. CASE Earlier(n, "send.request") # {}
  <2>1. AddSendRequest(known, n) \in {known, Refuse(known)}
    BY <1>2 DEF AddSendRequest
  <2>2. Refuse(known).refused
    BY MarksFacts DEF WellMarked, Marking
  <2> QED
    BY <1>1, <2>1, <2>2
<1>3. CASE Earlier(n, "send.request") = {}
  <2>1. AddSendRequest(known, n) = [known EXCEPT !.tasks = known.tasks \cup {n}]
    BY <1>3 DEF AddSendRequest
  <2>2. Sharing(n, n, "send.result") = {}
    <3>1. ASSUME NEW j \in Sharing(n, n, "send.result") PROVE FALSE
      <4>1. /\ j \in 1 .. n - 1 /\ log[j].channel_id \in indexed
            /\ log[j].payload.kind = "send.result"
            /\ log[j].payload.request_id = log[n].payload.request_id
        BY <3>1 DEF Sharing
      <4>2. PICK k \in Sharing(j, n - 1, "send.request") : TRUE
        BY <4>1 DEF WellMarked, Marking
      <4>3. k \in Earlier(n, "send.request")
        BY <4>1, <4>2 DEF Sharing, Earlier
      <4> QED
        BY <1>3, <4>3
    <3> QED
      BY <3>1
  <2>3. Waits(n, n)
    BY <1>3, <2>2 DEF Waits
  <2>4. known.tasks \cup {n} \subseteq 1 .. n
    BY <1>1 DEF WellMarked, Marking
  <2>5. AddSendRequest(known, n)
          = Record(known.tasks \cup {n}, known.links, known.records, FALSE)
    BY <1>1, <2>1, MarksFacts DEF WellMarked, Marking
  <2>6. \A i \in known.tasks \cup {n} : Waits(i, n)
    BY <1>1, <2>3 DEF WellMarked, Marking
  <2> QED
    <3>1. Marking(known.tasks \cup {n}, known.links, known.records, n)
      BY <1>1, <2>4, <2>6 DEF WellMarked, Marking
    <3> QED
      BY <2>5, <3>1, WellMarkedRecord
<1> QED
  BY <1>2, <1>3

(* The result of a task ends it: no other task has its request id.          *)
LEMMA AnswerMarked ==
    ASSUME NEW n \in Nat, n # 0, NEW known, WellMarked(known, n - 1),
           NEW task \in known.tasks, NEW key,
           log[n].payload.kind = "send.result",
           log[n].payload.request_id = log[task].payload.request_id
    PROVE  /\ WellMarked(Record(known.tasks \ {task}, known.links \cup {<<key, n>>},
                                known.records, FALSE), n)
           /\ WellMarked([known EXCEPT !.tasks = @ \ {task}], n)
<1>1. /\ IsMarks(known) /\ known.tasks \subseteq 1 .. n - 1
      /\ \A i \in known.tasks : Waits(i, n - 1)
      /\ \A l \in known.links : l[2] \in 1 .. n - 1
      /\ \A r \in known.records : r[2] \in Nat
      /\ \A j \in 1 .. n - 1 :
           (log[j].channel_id \in indexed /\ log[j].payload.kind = "send.result")
             => Sharing(j, n - 1, "send.request") # {}
  BY DEF WellMarked, Marking
<1>2. ASSUME NEW i \in known.tasks \ {task}
      PROVE  Waits(i, n)
  <2>1. log[i].payload.request_id # log[task].payload.request_id
    <3>1. SUFFICES ASSUME log[i].payload.request_id
                            = log[task].payload.request_id
                   PROVE  FALSE
      OBVIOUS
    <3>2. i \in 1 .. n - 1 /\ task \in 1 .. n - 1 /\ Waits(i, n - 1)
          /\ Waits(task, n - 1)
      BY <1>1
    <3>3. CASE i < task
      <4>1. i \in Earlier(task, "send.request")
        BY <3>1, <3>2, <3>3 DEF Earlier, Waits
      <4> QED
        BY <3>2, <4>1 DEF Waits
    <3>4. CASE task < i
      <4>1. task \in Earlier(i, "send.request")
        BY <3>1, <3>2, <3>4 DEF Earlier, Waits
      <4> QED
        BY <3>2, <4>1 DEF Waits
    <3> QED
      BY <1>2, <3>2, <3>3, <3>4
  <2>2. Sharing(i, n, "send.result") = {}
    BY <1>1, <2>1, SharingGrows DEF Waits
  <2> QED
    BY <1>1, <2>2 DEF Waits
<1>3. \A j \in 1 .. n :
        (log[j].channel_id \in indexed /\ log[j].payload.kind = "send.result")
          => Sharing(j, n, "send.request") # {}
  <2> SUFFICES ASSUME NEW j \in 1 .. n, log[j].channel_id \in indexed,
                      log[j].payload.kind = "send.result"
               PROVE  Sharing(j, n, "send.request") # {}
    OBVIOUS
  <2>1. CASE j \in 1 .. n - 1
    BY <1>1, <2>1, SharingGrows
  <2>2. CASE j = n
    <3>1. task \in 1 .. n - 1 /\ Waits(task, n - 1)
      BY <1>1
    <3>2. task \in Sharing(j, n, "send.request")
      BY <2>2, <3>1 DEF Sharing, Waits
    <3> QED
      BY <3>2
  <2> QED
    BY <2>1, <2>2
<1>4. 1 .. n - 1 \subseteq 1 .. n /\ n \in 1 .. n
  OBVIOUS
<1> DEFINE left == known.tasks \ {task}
           sent == known.links \cup {<<key, n>>}
<1>5. \A l \in sent : l[2] \in 1 .. n
  BY <1>1, <1>4
<1> HIDE DEF sent
<1>7. left \subseteq 1 .. n /\ \A i \in left : Waits(i, n)
  BY <1>1, <1>2, <1>4
<1> HIDE DEF left
<1>8. WellMarked(Record(left, sent, known.records, FALSE), n)
  <2>1. Marking(left, sent, known.records, n)
    BY <1>1, <1>3, <1>5, <1>7 DEF Marking
  <2> QED
    BY <2>1, WellMarkedRecord
<1>9. WellMarked([known EXCEPT !.tasks = left], n)
  <2>1. \A l \in known.links : l[2] \in 1 .. n
    BY <1>1, <1>4
  <2>2. [known EXCEPT !.tasks = left]
          = Record(left, known.links, known.records, FALSE)
    BY <1>1, MarksFacts
  <2> QED
    <3>1. Marking(left, known.links, known.records, n)
      BY <1>1, <1>3, <1>7, <2>1 DEF Marking
    <3>2. WellMarked(Record(left, known.links, known.records, FALSE), n)
      BY <3>1, WellMarkedRecord
    <3> QED
      BY ONLY <2>2, <3>2
<1> QED
  BY <1>8, <1>9 DEF left, sent

LEMMA RecordMarked ==
    ASSUME NEW n, NEW known, WellMarked(known, n), NEW key, NEW time \in Nat
    PROVE  WellMarked([known EXCEPT !.records = @ \cup {<<key, time>>}], n)
<1> DEFINE new == known.records \cup {<<key, time>>}
<1>1. \A r \in new : r[2] \in Nat
  BY DEF WellMarked, Marking
<1> HIDE DEF new
<1>2. [known EXCEPT !.records = new]
        = Record(known.tasks, known.links, new, FALSE)
  BY MarksFacts DEF WellMarked
<1>3. WellMarked(Record(known.tasks, known.links, new, FALSE), n)
  <2>1. Marking(known.tasks, known.links, new, n)
    BY <1>1 DEF WellMarked, Marking
  <2> QED
    BY <2>1, WellMarkedRecord
<1>4. WellMarked([known EXCEPT !.records = new], n)
  BY ONLY <1>2, <1>3
<1> QED
  BY <1>4 DEF new

LEMMA ParsedFacts ==
    ASSUME NEW m, ParsesMessage(m)
    PROVE  /\ m.payload.kind \in {"sync.record", "send.request", "send.result"}
           /\ m.payload.timestamps.event_ms \in Nat
           /\ m.channel_id \in 1 .. UInt64Max
           /\ m.principal \in 1 .. UInt64Max
BY DEF ParsesMessage, ParsesPayload, TimestampMs, PositiveUInt64

LEMMA ResultMarked ==
    ASSUME NEW n \in Nat, n # 0, NEW known, WellMarked(known, n - 1),
           log[n].channel_id \in indexed,
           log[n].payload.kind = "send.result",
           ~AddSendResult(known, n).refused
    PROVE  WellMarked(AddSendResult(known, n), n)
<1> DEFINE m == log[n]
           task == m.payload.prev_seq
           id == m.payload.data.provider_message_id
<1>1. Refuse(known).refused
  BY MarksFacts DEF WellMarked
<1>2. CASE Earlier(n, "send.result") # {}
  <2>1. AddSendResult(known, n) = known
    BY <1>1, <1>2 DEF AddSendResult
  <2>2. PICK e \in Sharing(n, n - 1, "send.result") : TRUE
    BY <1>2, EarlierIsSharing
  <2>3. \A i \in known.tasks : Waits(i, n)
    <3> SUFFICES ASSUME NEW i \in known.tasks PROVE Waits(i, n)
      OBVIOUS
    <3>1. Waits(i, n - 1)
      BY DEF WellMarked, Marking
    <3>2. log[n].payload.request_id # log[i].payload.request_id
      <4>1. log[n].payload.request_id = log[i].payload.request_id
              => e \in Sharing(i, n - 1, "send.result")
        BY <2>2 DEF Sharing
      <4> QED
        BY <3>1, <4>1 DEF Waits
    <3>3. Sharing(i, n, "send.result") = {}
      BY <3>1, <3>2, SharingGrows DEF Waits
    <3> QED
      BY <3>1, <3>3 DEF Waits
  <2>4. \A j \in 1 .. n :
          (log[j].channel_id \in indexed /\ log[j].payload.kind = "send.result")
            => Sharing(j, n, "send.request") # {}
    <3> SUFFICES ASSUME NEW j \in 1 .. n, log[j].channel_id \in indexed,
                        log[j].payload.kind = "send.result"
                 PROVE  Sharing(j, n, "send.request") # {}
      OBVIOUS
    <3>1. CASE j \in 1 .. n - 1
      BY <3>1, SharingGrows DEF WellMarked, Marking
    <3>2. CASE j = n
      <4>1. /\ e \in 1 .. n - 1 /\ log[e].channel_id \in indexed
            /\ log[e].payload.kind = "send.result"
            /\ log[e].payload.request_id = log[n].payload.request_id
        BY <2>2 DEF Sharing
      <4>2. PICK k \in Sharing(e, n - 1, "send.request") : TRUE
        BY <4>1 DEF WellMarked, Marking
      <4>3. k \in Sharing(n, n - 1, "send.request")
        BY <4>1, <4>2 DEF Sharing
      <4> QED
        BY <3>2, <4>3, SharingGrows
    <3> QED
      BY <3>1, <3>2
  <2>5. 1 .. n - 1 \subseteq 1 .. n
    OBVIOUS
  <2> QED
    BY <2>1, <2>3, <2>4, <2>5 DEF WellMarked, Marking
<1>3. CASE Earlier(n, "send.result") = {}
  <2>1. /\ task \in known.tasks
        /\ log[task].payload.request_id = m.payload.request_id
        /\ \/ AddSendResult(known, n) = Complete(known, task, m.channel_id, id, n)
           \/ AddSendResult(known, n) = [known EXCEPT !.tasks = @ \ {task}]
    BY <1>1, <1>3 DEF AddSendResult
  <2>2. WellMarked(Complete(known, task, m.channel_id, id, n), n)
    <3>1. PICK key : key = Key(m.channel_id, id)
      OBVIOUS
    <3>2. PICK t, l : /\ t = known.tasks \ {task}
                      /\ l = known.links \cup {<<key, n>>}
      OBVIOUS
    <3>3. Complete(known, task, m.channel_id, id, n)
            = [known EXCEPT !.tasks = t, !.links = l]
      BY <3>1, <3>2 DEF Complete
    <3>4. [known EXCEPT !.tasks = t, !.links = l]
            = Record(t, l, known.records, FALSE)
      BY MarksFacts DEF WellMarked
    <3>5. WellMarked(Record(t, l, known.records, FALSE), n)
      BY <2>1, <3>2, AnswerMarked
    <3> QED
      BY ONLY <3>3, <3>4, <3>5
  <2>3. WellMarked([known EXCEPT !.tasks = @ \ {task}], n)
    BY <2>1, AnswerMarked
  <2> QED
    BY ONLY <2>1, <2>2, <2>3
<1> QED
  BY <1>2, <1>3

(* A message that the replay reads without refusing it is marked well.      *)
LEMMA MessageMarked ==
    ASSUME NEW n \in Nat, n # 0, NEW known, WellMarked(known, n - 1),
           ~ProcessMessage(known, n, FALSE).refused
    PROVE  WellMarked(ProcessMessage(known, n, FALSE), n)
<1> DEFINE m == log[n]
<1>1. Refuse(known).refused
  BY MarksFacts DEF WellMarked
<1>2. ParsesMessage(m)
  BY <1>1 DEF ProcessMessage
<1>3. CASE m.channel_id \notin indexed
  <2>1. ProcessMessage(known, n, FALSE) = known
    BY <1>2, <1>3 DEF ProcessMessage
  <2> QED
    BY <1>3, <2>1, Extends
<1>4. CASE m.channel_id \in indexed /\ m.payload.kind = "send.request"
  <2>1. ProcessMessage(known, n, FALSE) = AddSendRequest(known, n)
    BY <1>1, <1>2, <1>4 DEF ProcessMessage
  <2> QED
    BY <1>2, <1>4, <2>1, RequestMarked
<1>5. CASE m.channel_id \in indexed /\ m.payload.kind = "send.result"
  <2>1. ProcessMessage(known, n, FALSE) = AddSendResult(known, n)
    BY <1>1, <1>2, <1>5 DEF ProcessMessage
  <2> QED
    BY <1>5, <2>1, ResultMarked
<1>6. CASE m.channel_id \in indexed /\ m.payload.kind = "sync.record"
  <2>1. ProcessMessage(known, n, FALSE) = AddSyncRecord(known, n)
    BY <1>1, <1>2, <1>6 DEF ProcessMessage
  <2> DEFINE key == Key(m.channel_id, m.payload.data.provider_message_id)
             time == m.payload.timestamps.event_ms
  <2>2. AddSyncRecord(known, n)
          = [known EXCEPT !.records = @ \cup {<<key, time>>}]
    BY <1>1, <2>1 DEF AddSyncRecord
  <2>3. time \in Nat
    BY <1>2, ParsedFacts
  <2>4. WellMarked(known, n)
    BY <1>6, Extends
  <2> HIDE DEF key, time
  <2>5. WellMarked([known EXCEPT !.records = @ \cup {<<key, time>>}], n)
    BY <2>3, <2>4, RecordMarked
  <2> QED
    BY ONLY <2>1, <2>2, <2>5
<1> QED
  BY <1>2, <1>3, <1>4, <1>5, <1>6, ParsedFacts

LEMMA NothingMarked == WellMarked(NoMarks, 0)
<1>1. NoMarks = Record({}, {}, {}, FALSE)
  BY DEF NoMarks, Record
<1>2. Marking({}, {}, {}, 0)
  BY DEF Marking
<1> QED
  BY <1>1, <1>2, WellMarkedRecord

LEMMA ScanMarked ==
    ASSUME Len(log) \in Nat
    PROVE  \A n \in 0 .. Len(log) :
             Scanned[n].refused \/ WellMarked(Scanned[n], n)
<1> DEFINE S == {n \in Nat : Scanned[n].refused \/ WellMarked(Scanned[n], n)}
<1>1. 0 \in S
  BY ScannedFacts, NothingMarked
<1>2. ASSUME NEW n \in 1 .. Len(log), n - 1 \in S
      PROVE  n \in S
  <2>1. Scanned[n] = ScanStep(Scanned[n - 1], n)
    BY ScannedFacts
  <2>2. CASE Scanned[n - 1].refused
    BY <2>1, <2>2 DEF ScanStep
  <2>3. CASE ~Scanned[n - 1].refused
    <3>1. WellMarked(Scanned[n - 1], n - 1)
      BY <1>2, <2>3
    <3>2. Scanned[n] = ProcessMessage(Scanned[n - 1], n, FALSE)
      BY <2>1, <2>3 DEF ScanStep
    <3> QED
      <4>1. PICK known : known = Scanned[n - 1]
        OBVIOUS
      <4>2. n \in Nat /\ n # 0
        OBVIOUS
      <4>3. ProcessMessage(known, n, FALSE).refused
              \/ WellMarked(ProcessMessage(known, n, FALSE), n)
        BY <3>1, <4>1, <4>2, MessageMarked
      <4> QED
        BY <3>2, <4>1, <4>2, <4>3
  <2> QED
    BY <2>2, <2>3
<1> HIDE DEF S
<1>3. \A n \in 0 .. Len(log) : n \in S
  BY <1>1, <1>2, Climb
<1> QED
  BY <1>3 DEF S
-----------------------------------------------------------------------------
(* The lemmas that are needed of the next state, as formulas that can be    *)
(* primed.                                                                 *)

AnswerMarks ==
    \A n \in Nat : \A known, task, key :
        (/\ n # 0 /\ WellMarked(known, n - 1) /\ task \in known.tasks
         /\ log[n].payload.kind = "send.result"
         /\ log[n].payload.request_id = log[task].payload.request_id)
        => WellMarked(Record(known.tasks \ {task}, known.links \cup {<<key, n>>},
                             known.records, FALSE), n)

ExtendMarks ==
    \A n \in Nat : \A known :
        (/\ n # 0 /\ WellMarked(known, n - 1)
         /\ log[n].payload.kind # "send.result")
        => WellMarked(known, n)

RecordMarks ==
    \A n \in Nat : \A known, key : \A time \in Nat :
        WellMarked(known, n)
        => WellMarked([known EXCEPT !.records = @ \cup {<<key, time>>}], n)

LEMMA MarksNext == AnswerMarks' /\ ExtendMarks' /\ RecordMarks'
<1>1. AnswerMarks
  BY AnswerMarked DEF AnswerMarks
<1>2. ExtendMarks
  BY Extends DEF ExtendMarks
<1>3. RecordMarks
  BY RecordMarked DEF RecordMarks
<1> QED
  BY <1>1, <1>2, <1>3, PTL

(* The log only grows, and what the marks say of a part of it stays true.   *)
LEMMA LogGrows ==
    ASSUME NEW S, log \in Seq(S), NEW m, log' = Append(log, m)
    PROVE  /\ Len(log) \in Nat /\ Len(log') = Len(log) + 1
           /\ log'[Len(log')] = m
           /\ \A i \in 1 .. Len(log) : log'[i] = log[i]
           /\ DOMAIN log = 1 .. Len(log) /\ DOMAIN log' = 1 .. Len(log) + 1
           /\ \E T : log' \in Seq(T)
<1>1. log \in Seq(S \cup {m})
  OBVIOUS
<1>2. log' \in Seq(S \cup {m})
  BY <1>1
<1> QED
  BY <1>1, <1>2

LEMMA MarksKept ==
    ASSUME NEW k \in Nat, \A i \in 1 .. k : log'[i] = log[i],
           indexed' = indexed, NEW known, WellMarked(known, k)
    PROVE  WellMarked(known, k)'
<1>1. \A i \in 1 .. k : \A kind : Sharing(i, k, kind)' = Sharing(i, k, kind)
  BY DEF Sharing
<1>2. \A i \in 1 .. k : \A kind : Earlier(i, kind)' = Earlier(i, kind)
  BY DEF Earlier
<1>3. known.tasks \subseteq 1 .. k
  BY DEF WellMarked, Marking
<1>4. \A i \in known.tasks : Waits(i, k)'
  BY <1>1, <1>2, <1>3 DEF WellMarked, Marking, Waits
<1>5. \A j \in 1 .. k :
        ((log[j].channel_id \in indexed /\ log[j].payload.kind = "send.result")
           => Sharing(j, k, "send.request") # {})'
  BY <1>1 DEF WellMarked, Marking
<1> QED
  BY <1>4, <1>5 DEF WellMarked, Marking, IsMarks

LEMMA MarksRead ==
    ASSUME NEW known, NEW n, known = marks', WellMarked(known, n)'
    PROVE  /\ n = Len(log') => WellMarked(marks, Len(log))'
           /\ n = Len(log') - 1 => WellMarked(marks, Len(log) - 1)'
BY DEF WellMarked, Marking, IsMarks, Waits, Sharing, Earlier

LEMMA EntryFields ==
    ASSUME NEW c, NEW principal, NEW recipients, NEW payload, NEW worker
    PROVE  /\ Entry(c, principal, recipients, payload, worker).channel_id = c
           /\ Entry(c, principal, recipients, payload, worker).principal = principal
           /\ Entry(c, principal, recipients, payload, worker).recipients = recipients
           /\ Entry(c, principal, recipients, payload, worker).payload = payload
           /\ Entry(c, principal, recipients, payload, worker).worker = worker
BY DEF Entry

LEMMA PayloadFields ==
    ASSUME NEW req
    PROVE  /\ EncodeSendResult(req).kind = "send.result"
           /\ EncodeSendResult(req).request_id = req.request_id
           /\ EncodeSendResult(req).prev_seq = req.prev_seq
           /\ EncodeSendResult(req).data.status = req.status
           /\ EncodeSendResult(req).data.provider_message_id
                = req.provider_message_id
           /\ EncodeSyncRecord(req).kind = "sync.record"
           /\ EncodeSyncRecord(req).prev_seq = req.prev_seq
           /\ EncodeSyncRecord(req).data.provider_message_id
                = req.provider_message_id
           /\ EncodeSyncRecord(req).data.content = req.content_raw
           /\ EncodeSyncRecord(req).timestamps.event_ms = req.event_ms
BY DEF EncodeSendResult, EncodeSyncRecord, Payload, Data
-----------------------------------------------------------------------------
(* Each step keeps the invariant of the marks.                             *)

LEMMA MarksStart == Init => MarksInv
<1> SUFFICES ASSUME Init PROVE MarksInv
  OBVIOUS
<1>1. log = <<>> /\ phase = "down" /\ marks = NoMarks /\ received = 0
  BY DEF Init, StartupInit
<1>2. log \in Seq({}) /\ Len(log) = 0
  BY <1>1
<1> QED
  BY <1>1, <1>2, PathAssumption DEF MarksInv

LEMMA FailsKeepsMarks ==
    ASSUME MarksInv, Fails
    PROVE  MarksInv'
<1>1. phase' = "stopped" /\ marks' = NoMarks /\ received' = 0 /\ log' = log
  BY DEF Fails
<1> QED
  BY <1>1 DEF MarksInv, NoMarks

LEMMA StartupKeepsMarks ==
    ASSUME MarksInv, Startup \/ UNCHANGED vars
    PROVE  MarksInv'
<1>1. CASE UNCHANGED vars
  BY <1>1 DEF vars, startup, path, MarksInv, NoMarks, Unread, WellMarked, Marking,
              IsMarks, Waits, Sharing, Earlier
<1>2. CASE Startup
  <2>1. log' = log /\ marks' = marks /\ received' = received
    BY <1>2 DEF Startup, path
  <2>2. phase # "running" /\ phase' # "running"
    BY <1>2 DEF Startup, StartupNext, EditSetting, EditProvider, EditMapping,
       EditChannel, Edit, Load, StartWorker, RequestStop, Restart,
       IndexChannel, ValidateChannel
  <2> QED
    BY <2>1, <2>2 DEF MarksInv, NoMarks
<1> QED
  BY <1>1, <1>2

(* A step that leaves the log alone and has read all of it.                *)
LEMMA ReadKeepsMarks ==
    ASSUME MarksInv, log' = log, indexed' = indexed, phase' = "running",
           received' = Len(log), NEW known, known = marks',
           WellMarked(known, Len(log))
    PROVE  MarksInv'
<1>1. PICK n \in Nat : n = Len(log)
  BY DEF MarksInv
<1>2. WellMarked(known, n)'
  BY <1>1, MarksKept
<1>3. WellMarked(marks, Len(log))'
  BY <1>1, <1>2, MarksRead
<1> QED
  BY <1>1, <1>3 DEF MarksInv, Unread

LEMMA ScanKeepsMarks ==
    ASSUME MarksInv, Scan
    PROVE  MarksInv'
<1>1. /\ log' = log /\ indexed' = indexed /\ phase' = "running"
      /\ received' = Len(log) /\ marks' = ScanHistory /\ ~ScanHistory.refused
  BY DEF Scan, Run
<1>2. Len(log) \in Nat
  BY DEF MarksInv
<1>3. PICK known : known = ScanHistory
  OBVIOUS
<1>4. WellMarked(known, Len(log))
  BY <1>1, <1>2, <1>3, ScanMarked DEF ScanHistory
<1> QED
  BY <1>1, <1>3, <1>4, ReadKeepsMarks

(* Of the messages read live, those of others count only as requests.       *)
LEMMA LiveMarked ==
    ASSUME NEW n \in Nat, n # 0, NEW known, WellMarked(known, n - 1),
           log[n].principal # config.worker,
           ~ProcessMessage(known, n, TRUE).refused
    PROVE  WellMarked(ProcessMessage(known, n, TRUE), n)
<1> DEFINE m == log[n]
<1>1. Refuse(known).refused
  BY MarksFacts DEF WellMarked
<1>2. ParsesMessage(m)
  BY <1>1 DEF ProcessMessage
<1>3. CASE m.channel_id \notin indexed
  <2>1. ProcessMessage(known, n, TRUE) = known
    BY <1>2, <1>3 DEF ProcessMessage
  <2> QED
    BY <1>3, <2>1, Extends
<1>4. CASE m.channel_id \in indexed /\ m.payload.kind = "send.request"
  <2>1. ProcessMessage(known, n, TRUE) = AddSendRequest(known, n)
    BY <1>1, <1>2, <1>4 DEF ProcessMessage
  <2> QED
    BY <1>2, <1>4, <2>1, RequestMarked
<1>5. CASE m.channel_id \in indexed /\ m.payload.kind = "send.result"
  BY <1>1, <1>2, <1>5 DEF ProcessMessage, RolesValid
<1>6. CASE m.channel_id \in indexed /\ m.payload.kind = "sync.record"
  <2>1. ProcessMessage(known, n, TRUE) = known
    BY <1>1, <1>2, <1>6 DEF ProcessMessage
  <2> QED
    BY <1>6, <2>1, Extends
<1> QED
  BY <1>2, <1>3, <1>4, <1>5, <1>6, ParsedFacts

LEMMA OwnUnmarked ==
    ASSUME NEW n, NEW known, IsMarks(known),
           log[n].payload.kind # "send.request",
           ~ProcessMessage(known, n, TRUE).refused
    PROVE  ProcessMessage(known, n, TRUE) = known
<1>1. Refuse(known).refused
  BY MarksFacts
<1>2. ParsesMessage(log[n])
  BY <1>1 DEF ProcessMessage
<1> QED
  BY <1>1, <1>2, ParsedFacts DEF ProcessMessage

LEMMA LiveKeepsMarks ==
    ASSUME MarksInv, ProcessLiveMessage
    PROVE  MarksInv'
<1>1. CASE Fails
  BY <1>1, FailsKeepsMarks
<1>2. CASE ~Fails
  <2>1. PICK n \in Nat : n = Len(log)
    BY DEF MarksInv
  <2>2. n # 0 /\ received + 1 = n /\ phase = "running" /\ Unread
    BY <2>1 DEF ProcessLiveMessage, MarksInv, Unread
  <2>3. PICK known : known = marks
    OBVIOUS
  <2>4. PICK next : next = ProcessMessage(known, n, TRUE)
    OBVIOUS
  <2>5. /\ ~next.refused /\ marks' = next /\ received' = n
        /\ UNCHANGED <<startup, log>>
    BY <1>2, <2>2, <2>3, <2>4 DEF ProcessLiveMessage
  <2>6. WellMarked(next, n)
    <3>1. CASE log[n].worker
      <4>1. WellMarked(known, n) /\ log[n].payload.kind # "send.request"
        BY <2>1, <2>2, <2>3, <3>1 DEF MarksInv
      <4>2. next = known
        BY <2>4, <2>5, <4>1, OwnUnmarked DEF WellMarked
      <4> QED
        BY <4>1, <4>2
    <3>2. CASE ~log[n].worker
      <4>1. WellMarked(known, n - 1) /\ log[n].principal # config.worker
        BY <2>1, <2>2, <2>3, <3>2 DEF MarksInv
      <4> QED
        BY <2>2, <2>4, <2>5, <4>1, LiveMarked
    <3> QED
      BY <3>1, <3>2
  <2>7. indexed' = indexed /\ phase' = "running" /\ log' = log
    BY <2>2, <2>5 DEF startup
  <2> QED
    BY <2>1, <2>5, <2>6, <2>7, ReadKeepsMarks
<1> QED
  BY <1>1, <1>2

(* A step that appends a message and has not read it yet.                  *)
LEMMA AppendKeepsMarks ==
    ASSUME MarksInv, Working, Room, edits \in Nat, NEW m,
           log' = Append(log, m), UNCHANGED <<startup, received>>,
           NEW known, known = marks', NEW k \in Nat, k = Len(log) + 1,
           IF m.worker THEN /\ WellMarked(known, k)'
                            /\ m.payload.kind # "send.request"
           ELSE WellMarked(known, Len(log)) /\ m.principal # config.worker
    PROVE  MarksInv'
<1>1. PICK S : log \in Seq(S)
  BY DEF MarksInv
<1>2. PICK n \in Nat : n = Len(log)
  BY <1>1
<1>3. /\ Len(log') = n + 1 /\ log'[n + 1] = m
      /\ \A i \in 1 .. n : log'[i] = log[i]
      /\ \E T : log' \in Seq(T)
  BY <1>1, <1>2, LogGrows
<1>4. /\ received = n /\ received' = n /\ phase = "running" /\ phase' = "running"
      /\ indexed' = indexed /\ config' = config
  BY <1>2 DEF Working, startup
<1>5. n + 1 <= MaxLog
  BY <1>2, PathAssumption DEF Room
<1>6. m.worker => WellMarked(marks, Len(log))'
  <2> SUFFICES ASSUME m.worker PROVE WellMarked(marks, Len(log))'
    OBVIOUS
  <2>1. WellMarked(known, k)' /\ k = Len(log')
    BY <1>2, <1>3
  <2> QED
    BY <2>1, MarksRead
<1>7. ~m.worker => WellMarked(marks, Len(log) - 1)'
  <2> SUFFICES ASSUME ~m.worker PROVE WellMarked(marks, Len(log) - 1)'
    OBVIOUS
  <2>1. WellMarked(known, n)'
    BY <1>2, <1>3, <1>4, MarksKept
  <2> QED
    BY <1>3, <2>1, MarksRead
<1> QED
  BY <1>3, <1>4, <1>5, <1>6, <1>7 DEF MarksInv, Unread

LEMMA ReadAll ==
    ASSUME MarksInv, Working
    PROVE  /\ Len(log) \in Nat /\ WellMarked(marks, Len(log))
           /\ \E S : log \in Seq(S)
BY DEF MarksInv, Working, Unread

LEMMA PostKeepsMarks ==
    ASSUME MarksInv, edits \in Nat, NEW m \in Posts, Post(m)
    PROVE  MarksInv'
<1>1. PICK known : known = marks
  OBVIOUS
<1>2. /\ Working /\ Room /\ log' = Append(log, m)
      /\ UNCHANGED <<startup, received>> /\ marks' = known
      /\ m.principal # config.worker /\ ~m.worker
  BY <1>1, PathAssumption DEF Post
<1>3. WellMarked(known, Len(log))
  BY <1>1, <1>2, ReadAll
<1>4. Len(log) + 1 \in Nat
  BY <1>2, ReadAll
<1> QED
  BY <1>2, <1>3, <1>4, AppendKeepsMarks

(* The worker's answer ends the task it answers.                           *)
LEMMA AnswerKeepsMarks ==
    ASSUME NEW n \in Nat, NEW S, log \in Seq(S), n = Len(log) + 1,
           NEW known, WellMarked(known, n - 1), NEW i \in known.tasks, NEW m,
           log' = Append(log, m), indexed' = indexed,
           m.payload.kind = "send.result",
           m.payload.request_id = log[i].payload.request_id, NEW key
    PROVE  WellMarked(Record(known.tasks \ {i}, known.links \cup {<<key, n>>},
                             known.records, FALSE), n)'
<1>1. /\ log'[n] = m /\ n # 0 /\ n - 1 \in Nat
      /\ \A j \in 1 .. n - 1 : log'[j] = log[j]
  BY LogGrows
<1>2. WellMarked(known, n - 1)'
  <2>1. PICK k \in Nat : k = n - 1
    BY <1>1
  <2>2. WellMarked(known, k)'
    BY <1>1, <2>1, MarksKept
  <2> QED
    BY <2>1, <2>2
<1>3. i \in 1 .. n - 1
  BY DEF WellMarked, Marking
<1>4. /\ log'[n].payload.kind = "send.result"
      /\ log'[n].payload.request_id = log'[i].payload.request_id
  BY <1>1, <1>3
<1>5. AnswerMarks'
  BY MarksNext
<1> QED
  BY <1>1, <1>2, <1>4, <1>5 DEF AnswerMarks

LEMMA RecordKeepsMarks ==
    ASSUME NEW n \in Nat, NEW S, log \in Seq(S), n = Len(log) + 1,
           NEW known, WellMarked(known, n - 1), NEW m,
           log' = Append(log, m), indexed' = indexed,
           m.payload.kind = "sync.record", NEW key, NEW time \in Nat
    PROVE  WellMarked([known EXCEPT !.records = @ \cup {<<key, time>>}], n)'
<1>1. /\ log'[n] = m /\ n # 0 /\ n - 1 \in Nat
      /\ \A j \in 1 .. n - 1 : log'[j] = log[j]
  BY LogGrows
<1>2. WellMarked(known, n - 1)'
  <2>1. PICK k \in Nat : k = n - 1
    BY <1>1
  <2>2. WellMarked(known, k)'
    BY <1>1, <2>1, MarksKept
  <2> QED
    BY <2>1, <2>2
<1>3. ExtendMarks' /\ RecordMarks'
  BY MarksNext
<1>4. WellMarked(known, n)'
  BY <1>1, <1>2, <1>3 DEF ExtendMarks
<1> QED
  BY <1>3, <1>4 DEF RecordMarks

(* What the worker appends and how it marks it.                            *)
Answers(i, id) ==
    LET m == log[i]
        req == [request_id |-> m.payload.request_id, prev_seq |-> i,
                status |-> "SUCCESS", event_ms |-> Now,
                provider_message_id |-> id]
    IN  /\ Truthy(id) /\ EncodesSendResult(req)
        /\ log' = Append(log, Entry(m.channel_id, config.worker, <<m.principal>>,
                                    EncodeSendResult(req), TRUE))
        /\ marks' = Complete(marks, i, m.channel_id, id, Len(log'))

Records(event, content_raw) ==
    LET c == Found(ChannelForProviderSession(
                            <<event.provider, event.session_id>>))
        key == Key(c, event.provider_message_id)
        senders == PrincipalForExternalUser(c, event.provider,
                     event.sender_external_user_id, event.sender_identity_type)
        req == [provider_message_id |-> event.provider_message_id,
                msg_type |-> event.msg_type, content_raw |-> content_raw,
                event_ms |-> event.event_ms, ingested_ms |-> Now,
                prev_seq |-> LinkOf(marks, key)]
    IN  /\ EncodesSyncRecord(req)
        /\ \E principal \in senders :
             log' = Append(log, Entry(c, principal, PeerList(c, principal),
                                      EncodeSyncRecord(req), TRUE))
        /\ marks' = [marks EXCEPT !.records = @ \cup {<<key, event.event_ms>>}]

LEMMA OwnStep ==
    ASSUME \/ \E i \in DOMAIN log, m \in Messages :
                m.sender_type = "app" /\ ProcessOutboundTask(i, m.id)
           \/ \E m \in Messages : Deliver(m)
    PROVE  \/ Fails
           \/ /\ Working /\ Room /\ UNCHANGED <<startup, received>>
              /\ \/ \E i \in marks.tasks : \E id : Answers(i, id)
                 \/ \E event, content_raw : Records(event, content_raw)
<1>1. ASSUME NEW i, NEW id, ProcessOutboundTask(i, id), ~Fails
      PROVE  /\ Working /\ Room /\ UNCHANGED <<startup, received>>
             /\ i \in marks.tasks /\ Answers(i, id)
  BY <1>1 DEF ProcessOutboundTask, Answers
<1>2. ASSUME NEW event, NEW content_raw,
             PublishProviderEvent(event, content_raw), ~Fails
      PROVE  UNCHANGED <<startup, received>> /\ Records(event, content_raw)
  BY <1>2 DEF PublishProviderEvent, Records
<1>3. ASSUME NEW m, Deliver(m), ~Fails
      PROVE  /\ Working /\ Room
             /\ \E event, content_raw : PublishProviderEvent(event, content_raw)
  BY <1>3 DEF Deliver
<1> QED
  BY <1>1, <1>2, <1>3

LEMMA OwnKeepsMarks ==
    ASSUME StartupInv, MarksInv,
           \/ \E i \in DOMAIN log, m \in Messages :
                m.sender_type = "app" /\ ProcessOutboundTask(i, m.id)
           \/ \E m \in Messages : Deliver(m)
    PROVE  MarksInv'
<1>1. CASE Fails
  BY <1>1, FailsKeepsMarks
<1>2. CASE /\ Working /\ Room /\ UNCHANGED <<startup, received>>
           /\ \/ \E i \in marks.tasks : \E id : Answers(i, id)
              \/ \E event, content_raw : Records(event, content_raw)
  <2>1. PICK known : known = marks
    OBVIOUS
  <2>2. PICK S : log \in Seq(S)
    BY <1>2, ReadAll
  <2>3. PICK n \in Nat : n = Len(log) + 1
    BY <1>2, ReadAll
  <2>4. WellMarked(known, n - 1) /\ IsMarks(known)
    BY <1>2, <2>1, <2>3, ReadAll DEF WellMarked
  <2>5. indexed' = indexed /\ edits \in Nat
    BY <1>2 DEF startup, StartupInv
  <2>6. ASSUME NEW i \in marks.tasks, NEW id, Answers(i, id)
        PROVE  MarksInv'
    <3> DEFINE req == [request_id |-> log[i].payload.request_id, prev_seq |-> i,
                       status |-> "SUCCESS", event_ms |-> Now,
                       provider_message_id |-> id]
    <3>1. PICK m : m = Entry(log[i].channel_id, config.worker,
                             <<log[i].principal>>, EncodeSendResult(req), TRUE)
      OBVIOUS
    <3>2. PICK key : key = Key(log[i].channel_id, id)
      OBVIOUS
    <3>3. /\ log' = Append(log, m)
          /\ marks' = Complete(marks, i, log[i].channel_id, id, Len(log'))
      BY <2>6, <3>1 DEF Answers
    <3>4. /\ m.worker /\ m.payload.kind = "send.result"
          /\ m.payload.request_id = log[i].payload.request_id
      <4>1. PICK r : r = req
        OBVIOUS
      <4>2. r.request_id = log[i].payload.request_id
        BY <4>1
      <4>3. /\ EncodeSendResult(r).kind = "send.result"
            /\ EncodeSendResult(r).request_id = log[i].payload.request_id
        BY <4>2, PayloadFields
      <4>4. m.worker = TRUE /\ m.payload = EncodeSendResult(r)
        BY <3>1, <4>1 DEF Entry
      <4> QED
        BY <4>3, <4>4
    <3>5. Len(log') = n
      BY <2>2, <2>3, <3>3, LogGrows
    <3>6. PICK new : new = Record(known.tasks \ {i}, known.links \cup {<<key, n>>},
                                  known.records, FALSE)
      OBVIOUS
    <3>7. marks' = new
      <4>1. PICK t, l : t = known.tasks \ {i} /\ l = known.links \cup {<<key, n>>}
        OBVIOUS
      <4>2. marks' = [known EXCEPT !.tasks = t, !.links = l]
        BY <2>1, <3>2, <3>3, <3>5, <4>1 DEF Complete
      <4>3. [known EXCEPT !.tasks = t, !.links = l]
              = Record(t, l, known.records, FALSE)
        BY <2>4, MarksFacts
      <4> QED
        BY ONLY <3>6, <4>1, <4>2, <4>3
    <3>8. WellMarked(new, n)'
      BY <2>1, <2>2, <2>3, <2>4, <2>5, <3>3, <3>4, <3>6, AnswerKeepsMarks
    <3>9. new = marks'
      BY <3>7
    <3> QED
      BY <1>2, <2>3, <2>5, <3>3, <3>4, <3>8, <3>9, AppendKeepsMarks
  <2>7. ASSUME NEW event, NEW content_raw, Records(event, content_raw)
        PROVE  MarksInv'
    <3> DEFINE c == Found(ChannelForProviderSession(
                            <<event.provider, event.session_id>>))
               req == [provider_message_id |-> event.provider_message_id,
                       msg_type |-> event.msg_type, content_raw |-> content_raw,
                       event_ms |-> event.event_ms, ingested_ms |-> Now,
                       prev_seq |-> LinkOf(marks,
                                      Key(c, event.provider_message_id))]
    <3>1. PICK key : key = Key(c, event.provider_message_id)
      OBVIOUS
    <3>2. PICK principal : log' = Append(log, Entry(c, principal,
                             PeerList(c, principal), EncodeSyncRecord(req), TRUE))
      BY <2>7 DEF Records
    <3>3. PICK m : m = Entry(c, principal, PeerList(c, principal),
                             EncodeSyncRecord(req), TRUE)
      OBVIOUS
    <3>4. log' = Append(log, m) /\ m.worker /\ m.payload.kind = "sync.record"
      <4>1. PICK r : r = req
        OBVIOUS
      <4>2. EncodeSyncRecord(r).kind = "sync.record"
        BY PayloadFields
      <4>3. m.worker = TRUE /\ m.payload = EncodeSyncRecord(r)
        BY <3>3, <4>1 DEF Entry
      <4> QED
        BY <3>2, <3>3, <4>2, <4>3
    <3>5. event.event_ms \in Nat
      BY <2>7 DEF Records, EncodesSyncRecord, TimestampMs
    <3>6. PICK time \in Nat : time = event.event_ms
      BY <3>5
    <3>7. PICK new : new = [known EXCEPT !.records = @ \cup {<<key, time>>}]
      OBVIOUS
    <3>8. new = marks'
      BY <2>1, <2>7, <3>1, <3>6, <3>7 DEF Records
    <3>9. WellMarked(new, n)'
      BY <2>2, <2>3, <2>4, <2>5, <3>4, <3>7, RecordKeepsMarks
    <3> QED
      BY <1>2, <2>3, <2>5, <3>4, <3>8, <3>9, AppendKeepsMarks
  <2> QED
    BY <1>2, <2>6, <2>7
<1> QED
  BY <1>1, <1>2, OwnStep

LEMMA MarksInvariant == Spec => [](StartupInv /\ MarksInv)
<1>1. Init => MarksInv
  BY MarksStart
<1>2. StartupInv /\ MarksInv /\ [Next]_vars => MarksInv'
  <2> SUFFICES ASSUME StartupInv, MarksInv, [Next]_vars
               PROVE  MarksInv'
    OBVIOUS
  <2>1. CASE Startup \/ UNCHANGED vars
    BY <2>1, StartupKeepsMarks
  <2>2. CASE Scan
    BY <2>2, ScanKeepsMarks
  <2>3. CASE ScanFails \/ Exit
    BY <2>3, FailsKeepsMarks DEF ScanFails, Exit
  <2>4. CASE ProcessLiveMessage
    BY <2>4, LiveKeepsMarks
  <2>5. ASSUME NEW m \in Posts, Post(m) PROVE MarksInv'
    BY <2>5, PostKeepsMarks DEF StartupInv
  <2>6. CASE \/ \E i \in DOMAIN log, m \in Messages :
                  m.sender_type = "app" /\ ProcessOutboundTask(i, m.id)
             \/ \E m \in Messages : Deliver(m)
    BY <2>6, OwnKeepsMarks
  <2> QED
    BY <2>1, <2>2, <2>3, <2>4, <2>5, <2>6 DEF Next
<1> QED
  BY <1>1, <1>2, StartupInvariant, PTL DEF Spec

(* The worker's marks point into the log it has written and read: every     *)
(* waiting request and every link to a result is a position of the log, and *)
(* a running worker has refused nothing.                                   *)
THEOREM PathTypeCorrect == Spec => []TypeOK
<1>1. StartupInv /\ MarksInv => TypeOK
  <2> SUFFICES ASSUME StartupInv, MarksInv PROVE TypeOK
    OBVIOUS
  <2>1. StartupTypeOK
    BY DEF StartupInv, StartupTypeOK
  <2>2. PICK S : log \in Seq(S)
    BY DEF MarksInv
  <2>3. Len(log) \in Nat /\ DOMAIN log = 1 .. Len(log)
    BY <2>2
  <2>4. CASE phase # "running"
    BY <2>1, <2>3, <2>4 DEF MarksInv, NoMarks, TypeOK
  <2>5. CASE phase = "running"
    <3>1. received \in 0 .. Len(log) /\ Len(log) <= MaxLog
      BY <2>3, <2>5 DEF MarksInv
    <3>2. PICK k \in 0 .. Len(log) : WellMarked(marks, k)
      <4>1. CASE Unread
        BY <2>3, <2>5, <4>1 DEF MarksInv, Unread
      <4>2. CASE ~Unread
        BY <2>3, <2>5, <4>2 DEF MarksInv
      <4> QED
        BY <4>1, <4>2
    <3>3. 1 .. k \subseteq DOMAIN log
      BY <2>3
    <3>4. /\ marks.tasks \subseteq 1 .. k
          /\ \A l \in marks.links : l[2] \in 1 .. k
          /\ \A r \in marks.records : r[2] \in Nat
          /\ ~marks.refused
      BY <3>2 DEF WellMarked, Marking, IsMarks
    <3> QED
      BY <2>1, <3>1, <3>3, <3>4 DEF TypeOK
  <2> QED
    BY <2>4, <2>5
<1> QED
  BY <1>1, MarksInvariant, PTL
-----------------------------------------------------------------------------
(* The codec: what the worker writes, it reads.                            *)

(* Bad and Absent stand for what is no JSON object, so no payload is one.   *)
JSONObject(p) == Object(p) /\ Object(p.data) /\ Object(p.timestamps)

(* codec.py: a send.request that encode_send_request returns is parsed      *)
(* again exactly if its content holds no key source_principal.             *)
THEOREM SendRequestReadBack ==
    ASSUME NEW req, EncodesSendRequest(req), JSONObject(EncodeSendRequest(req))
    PROVE  ParsesPayload(EncodeSendRequest(req))
             <=> ~req.content.source_principal
BY DEF EncodesSendRequest, EncodeSendRequest, Payload, Data, ParsesPayload,
       JSONObject, RejectSourcePrincipal, Object, NonEmptyStr

(* codec.py: every send.result that encode_send_result returns is parsed    *)
(* again: the worker always reads the answers it gave.                     *)
THEOREM SendResultReadBack ==
    ASSUME NEW req, EncodesSendResult(req), JSONObject(EncodeSendResult(req))
    PROVE  ParsesPayload(EncodeSendResult(req))
BY DEF EncodesSendResult, EncodeSendResult, Payload, Data, ParsesPayload,
       JSONObject, RejectSourcePrincipal, Object, NonEmptyStr

(* codec.py: a sync.record that encode_sync_record returns is parsed again  *)
(* exactly if the provider's content holds no key source_principal: a       *)
(* replay of the worker's own log can fail for no other reason.             *)
THEOREM SyncRecordReadBack ==
    ASSUME NEW req, EncodesSyncRecord(req), JSONObject(EncodeSyncRecord(req))
    PROVE  ParsesPayload(EncodeSyncRecord(req))
             <=> ~req.content_raw.source_principal
BY DEF EncodesSyncRecord, EncodeSyncRecord, Payload, Data, ParsesPayload,
       JSONObject, RejectSourcePrincipal, Object, NonEmptyStr

(* Bad and Absent are values of fields, never a payload that was encoded.   *)
JSONObjects ==
    \A req : JSONObject(EncodeSendResult(req)) /\ JSONObject(EncodeSyncRecord(req))

(* Only the worker publishes records that can be read.                     *)
OthersRecordNothing ==
    \A m \in Posts : ParsesMessage(m) => m.payload.kind # "sync.record"
-----------------------------------------------------------------------------
(* The replay of a log that has grown agrees with the replay before.       *)

LEMMA RoutesKept ==
    ASSUME config' = config, indexed' = indexed
    PROVE  \A c, id, p : /\ EntriesOf(c)' = EntriesOf(c)
                         /\ Key(c, id)' = Key(c, id)
                         /\ PeerList(c, p)' = PeerList(c, p)
<1>1. Entries' = Entries
  BY DEF Entries
<1>2. \A c : EntriesOf(c)' = EntriesOf(c)
  BY <1>1 DEF EntriesOf
<1>3. \A c : ProviderSession(c)' = ProviderSession(c)
  BY <1>2 DEF ProviderSession
<1>4. \A c, p : PeerPrincipals(c, p)' = PeerPrincipals(c, p)
  BY <1>2 DEF PeerPrincipals
<1> QED
  BY <1>2, <1>3, <1>4 DEF Key, PeerList

LEMMA LinkKept ==
    ASSUME NEW n \in Nat, 1 .. n \subseteq DOMAIN log, 1 .. n \subseteq DOMAIN log',
           NEW known, \A l \in known.links : l[2] \in 1 .. n, NEW key
    PROVE  LinkOf(known, key)' = LinkOf(known, key)
<1> DEFINE sent == {i \in 1 .. n : <<key, i>> \in known.links}
<1>1. \A i : <<key, i>> \in known.links => i \in 1 .. n
  OBVIOUS
<1>2. {i \in DOMAIN log : <<key, i>> \in known.links} = sent
  BY <1>1
<1>3. {i \in DOMAIN log' : <<key, i>> \in known.links} = sent
  BY <1>1
<1> HIDE DEF sent
<1> QED
  BY <1>2, <1>3 DEF LinkOf

LEMMA ProcessKept ==
    ASSUME NEW n \in Nat, n # 0, \A i \in 1 .. n : log'[i] = log[i],
           1 .. n \subseteq DOMAIN log, 1 .. n \subseteq DOMAIN log',
           config' = config, indexed' = indexed,
           NEW known, WellMarked(known, n - 1)
    PROVE  ProcessMessage(known, n, FALSE)' = ProcessMessage(known, n, FALSE)
<1>1. PICK m : m = log[n] /\ m = log'[n]
  OBVIOUS
<1>2. RolesValid(m)' = RolesValid(m)
  BY RoutesKept DEF RolesValid
<1>3. \A kind : Earlier(n, kind)' = Earlier(n, kind)
  BY DEF Earlier
<1>4. \A j \in 1 .. n - 1 : Same(n, j)' = Same(n, j)
  BY DEF Same
<1>5. \A kind : Earlier(n, kind) \subseteq 1 .. n - 1
  BY DEF Earlier
<1>6. AddSendRequest(known, n)' = AddSendRequest(known, n)
  <2>1. (\A j \in Earlier(n, "send.request") : Same(n, j))'
          = (\A j \in Earlier(n, "send.request") : Same(n, j))
    BY <1>3, <1>4, <1>5
  <2> QED
    BY <1>3, <2>1 DEF AddSendRequest, Refuse
<1>7. AddSendResult(known, n)' = AddSendResult(known, n)
  <2> DEFINE task == m.payload.prev_seq
             c == m.channel_id
             id == m.payload.data.provider_message_id
             answers(t) == /\ task \in known.tasks
                           /\ t.payload.request_id = m.payload.request_id
                           /\ t.channel_id = c
                           /\ m.recipients = <<t.principal>>
             sent == /\ m.payload.data.status = "SUCCESS"
                     /\ Truthy(id)
  <2>1. (\A j \in Earlier(n, "send.result") : Same(n, j))'
          = (\A j \in Earlier(n, "send.result") : Same(n, j))
    BY <1>3, <1>4, <1>5
  <2>2. answers(log[task]) = answers(log'[task])
    <3>1. known.tasks \subseteq 1 .. n - 1
      BY DEF WellMarked, Marking
    <3> QED
      BY <3>1
  <2>3. Complete(known, task, c, id, n)' = Complete(known, task, c, id, n)
    BY RoutesKept DEF Complete
  <2>4. AddSendResult(known, n)
          = IF Earlier(n, "send.result") # {}
            THEN IF \A j \in Earlier(n, "send.result") : Same(n, j)
                 THEN known ELSE Refuse(known)
            ELSE IF answers(log[task])
                 THEN IF sent THEN Complete(known, task, c, id, n)
                      ELSE [known EXCEPT !.tasks = @ \ {task}]
                 ELSE Refuse(known)
    BY <1>1 DEF AddSendResult
  <2>5. AddSendResult(known, n)'
          = IF Earlier(n, "send.result")' # {}
            THEN IF (\A j \in Earlier(n, "send.result") : Same(n, j))'
                 THEN known ELSE Refuse(known)
            ELSE IF answers(log'[task])
                 THEN IF sent THEN Complete(known, task, c, id, n)'
                      ELSE [known EXCEPT !.tasks = @ \ {task}]
                 ELSE Refuse(known)
    BY <1>1 DEF AddSendResult
  <2> HIDE DEF task, c, id, answers, sent
  <2> QED
    BY <1>3, <2>1, <2>2, <2>3, <2>4, <2>5
<1>8. AddSyncRecord(known, n)' = AddSyncRecord(known, n)
  <2>1. PICK key : key = Key(m.channel_id, m.payload.data.provider_message_id)
    OBVIOUS
  <2>2. Key(m.channel_id, m.payload.data.provider_message_id)' = key
    BY <2>1, RoutesKept
  <2>3. LinkOf(known, key)' = LinkOf(known, key)
    <3>1. \A l \in known.links : l[2] \in 1 .. n
      BY DEF WellMarked, Marking
    <3> QED
      BY <3>1, LinkKept
  <2>4. AddSyncRecord(known, n)
          = IF m.payload.prev_seq = LinkOf(known, key)
            THEN [known EXCEPT !.records =
                    @ \cup {<<key, m.payload.timestamps.event_ms>>}]
            ELSE Refuse(known)
    BY <1>1, <2>1 DEF AddSyncRecord
  <2>5. AddSyncRecord(known, n)'
          = IF m.payload.prev_seq = LinkOf(known, key)'
            THEN [known EXCEPT !.records =
                    @ \cup {<<key, m.payload.timestamps.event_ms>>}]
            ELSE Refuse(known)
    BY <1>1, <2>2 DEF AddSyncRecord, LinkOf
  <2> QED
    BY <2>3, <2>4, <2>5
<1> QED
  BY <1>1, <1>2, <1>6, <1>7, <1>8 DEF ProcessMessage, Refuse

ScanFacts ==
    Len(log) \in Nat =>
        /\ Scanned[0] = NoMarks
        /\ \A n \in 1 .. Len(log) : Scanned[n] = ScanStep(Scanned[n - 1], n)

LEMMA ScanNext == ScanFacts'
<1>1. ScanFacts
  BY ScannedFacts DEF ScanFacts
<1> QED
  BY <1>1, PTL

LEMMA ScannedKept ==
    ASSUME NEW k \in Nat, Len(log) = k, Len(log') \in Nat, k <= Len(log'),
           DOMAIN log = 1 .. Len(log), DOMAIN log' = 1 .. Len(log'),
           \A i \in 1 .. k : log'[i] = log[i],
           config' = config, indexed' = indexed
    PROVE  \A n \in 0 .. k : Scanned'[n] = Scanned[n]
<1> DEFINE S == {n \in Nat : Scanned'[n] = Scanned[n]}
<1>1. 0 \in S
  <2>1. NoMarks' = NoMarks
    BY DEF NoMarks
  <2> QED
    BY <2>1, ScannedFacts, ScanNext DEF ScanFacts
<1>2. ASSUME NEW n \in 1 .. k, n - 1 \in S
      PROVE  n \in S
  <2>1. PICK known : known = Scanned[n - 1] /\ known = Scanned'[n - 1]
    BY <1>2
  <2>2. n \in 1 .. Len(log') /\ n \in 1 .. Len(log) /\ n \in Nat /\ n # 0
        /\ n - 1 \in 0 .. Len(log)
    OBVIOUS
  <2>3. Scanned[n] = ScanStep(known, n)
    BY <2>1, <2>2, ScannedFacts
  <2>4. Scanned'[n] = ScanStep(known, n)'
    BY <2>1, <2>2, ScanNext DEF ScanFacts, ScanStep, ProcessMessage
  <2>5. CASE known.refused
    BY <2>2, <2>3, <2>4, <2>5 DEF ScanStep
  <2>6. CASE ~known.refused
    <3>1. WellMarked(known, n - 1)
      BY <2>1, <2>2, <2>6, ScanMarked
    <3>2. 1 .. n \subseteq DOMAIN log /\ 1 .. n \subseteq DOMAIN log'
      BY <2>2
    <3>3. ProcessMessage(known, n, FALSE)' = ProcessMessage(known, n, FALSE)
      BY <2>2, <3>1, <3>2, ProcessKept
    <3> QED
      BY <2>2, <2>3, <2>4, <2>6, <3>3 DEF ScanStep
  <2> QED
    BY <2>5, <2>6
<1> HIDE DEF S
<1>3. \A n \in 0 .. k : n \in S
  BY <1>1, <1>2, Climb
<1> QED
  BY <1>3 DEF S
-----------------------------------------------------------------------------
(* The replay of what the worker appends marks it as the worker did.       *)

LEMMA RunningNumbers ==
    ASSUME StartupInv, phase = "running"
    PROVE  /\ UInt64Max \in Nat /\ config.worker \in 1 .. UInt64Max
           /\ \A c : \A e \in EntriesOf(c) :
                /\ e.principal \in 1 .. UInt64Max
                /\ e.channel_id \in 1 .. UInt64Max
<1>1. ParseConfig
  BY RunningFacts
<1>2. UInt64Max \in Nat
  BY StartupAssumption
<1>3. config.worker \in 1 .. UInt64Max
  BY <1>1 DEF ParseConfig, PositiveUInt64
<1>4. \A i \in DOMAIN config.mappings :
        /\ config.mappings[i].principal \in 1 .. UInt64Max
        /\ config.mappings[i].channel_id \in 1 .. UInt64Max
  BY <1>1 DEF ParseConfig, ParseMappings, PositiveUInt64
<1> QED
  BY <1>2, <1>3, <1>4 DEF EntriesOf, Entries

AnswerLogged(n, known, i, id, req, c, p) ==
    /\ StartupInv /\ phase = "running" /\ JSONObjects
    /\ n # 0 /\ WellMarked(known, n - 1) /\ i \in known.tasks /\ Truthy(id)
    /\ EncodesSendResult(req) /\ req.prev_seq = i /\ req.status = "SUCCESS"
    /\ req.request_id = log[i].payload.request_id
    /\ req.provider_message_id = id
    /\ c = log[i].channel_id /\ p = log[i].principal
    /\ log[n] = Entry(c, config.worker, <<p>>, EncodeSendResult(req), TRUE)

AnswerReplays ==
    \A n \in Nat : \A known, i, id, req, c, p :
        AnswerLogged(n, known, i, id, req, c, p)
        => ProcessMessage(known, n, FALSE) = Complete(known, i, c, id, n)

LEMMA AnswerReplayed == AnswerReplays
<1> SUFFICES ASSUME NEW n \in Nat, NEW known, NEW i, NEW id, NEW req, NEW c, NEW p,
                    AnswerLogged(n, known, i, id, req, c, p)
             PROVE  ProcessMessage(known, n, FALSE) = Complete(known, i, c, id, n)
  BY DEF AnswerReplays
<1> USE DEF AnswerLogged
<1> DEFINE m == log[n]
<1>1. i \in 1 .. n - 1 /\ Waits(i, n - 1)
  BY DEF WellMarked, Marking
<1>2. /\ m.channel_id = c /\ m.principal = config.worker /\ m.recipients = <<p>>
      /\ m.payload = EncodeSendResult(req)
  BY DEF Entry
<1>3. /\ m.payload.kind = "send.result"
      /\ m.payload.request_id = log[i].payload.request_id
      /\ m.payload.prev_seq = i
      /\ m.payload.data.status = "SUCCESS"
      /\ m.payload.data.provider_message_id = id
  <2>1. PICK w : w = EncodeSendResult(req)
    OBVIOUS
  <2>2. /\ w.kind = "send.result" /\ w.request_id = req.request_id
        /\ w.prev_seq = req.prev_seq /\ w.data.status = req.status
        /\ w.data.provider_message_id = req.provider_message_id
    BY <2>1, PayloadFields
  <2>3. m.payload = w
    BY <1>2, <2>1
  <2> HIDE DEF m
  <2> QED
    BY <2>2, <2>3
<1>4. c \in indexed /\ c \in 1 .. UInt64Max /\ p \in 1 .. UInt64Max
  BY <1>1, ParsedFacts DEF Waits
<1>5. ParsesMessage(m)
  <2>1. ParsesPayload(m.payload)
    BY <1>2, SendResultReadBack DEF JSONObjects
  <2>2. config.worker \in 1 .. UInt64Max /\ UInt64Max \in Nat
    BY RunningNumbers
  <2>3. \A k \in DOMAIN <<p>> : UInt64(<<p>>[k])
    <3>1. p \in 0 .. UInt64Max
      BY <1>4, <2>2
    <3> QED
      BY <3>1 DEF UInt64
  <2> QED
    BY <1>2, <1>4, <2>1, <2>2, <2>3 DEF ParsesMessage, PositiveUInt64, Recipients
<1>6. RolesValid(m)
  BY <1>2, <1>3 DEF RolesValid
<1>7. ProcessMessage(known, n, FALSE) = AddSendResult(known, n)
  BY <1>2, <1>3, <1>4, <1>5, <1>6 DEF ProcessMessage
<1>8. Earlier(n, "send.result") = {}
  <2>1. Sharing(n, n - 1, "send.result") = Sharing(i, n - 1, "send.result")
    BY <1>3 DEF Sharing
  <2> QED
    BY <1>1, <2>1, EarlierIsSharing DEF Waits
<1>9. AddSendResult(known, n) = Complete(known, i, c, id, n)
  BY <1>2, <1>3, <1>8 DEF AddSendResult
<1> QED
  BY <1>7, <1>9

RecordLogged(n, known, c, p, req, key, time) ==
    /\ StartupInv /\ phase = "running" /\ JSONObjects
    /\ n # 0 /\ WellMarked(known, n - 1)
    /\ \E e \in EntriesOf(c) : e.principal = p
    /\ EncodesSyncRecord(req) /\ ~req.content_raw.source_principal
    /\ key = Key(c, req.provider_message_id) /\ time = req.event_ms
    /\ req.prev_seq = LinkOf(known, key)
    /\ log[n] = Entry(c, p, PeerList(c, p), EncodeSyncRecord(req), TRUE)

Recorded(known, key, time) ==
    [known EXCEPT !.records = @ \cup {<<key, time>>}]

RecordReplays ==
    \A n \in Nat : \A known, c, p, req, key, time :
        RecordLogged(n, known, c, p, req, key, time)
        => ProcessMessage(known, n, FALSE) = Recorded(known, key, time)

LEMMA RecordReplayed == RecordReplays
<1> SUFFICES ASSUME NEW n \in Nat, NEW known, NEW c, NEW p, NEW req, NEW key,
                    NEW time,
                    RecordLogged(n, known, c, p, req, key, time)
             PROVE  ProcessMessage(known, n, FALSE)
                      = Recorded(known, key, time)
  BY DEF RecordReplays
<1> USE DEF RecordLogged
<1> DEFINE m == log[n]
<1>1. /\ m.channel_id = c /\ m.principal = p /\ m.recipients = PeerList(c, p)
      /\ m.payload = EncodeSyncRecord(req)
  BY DEF Entry
<1>2. /\ m.payload.kind = "sync.record"
      /\ m.payload.prev_seq = LinkOf(known, key)
      /\ m.payload.data.provider_message_id = req.provider_message_id
      /\ m.payload.timestamps.event_ms = req.event_ms
  <2>1. PICK w : w = EncodeSyncRecord(req)
    OBVIOUS
  <2>2. /\ w.kind = "sync.record" /\ w.prev_seq = req.prev_seq
        /\ w.data.provider_message_id = req.provider_message_id
        /\ w.timestamps.event_ms = req.event_ms
    BY <2>1, PayloadFields
  <2>3. m.payload = w
    BY <1>1, <2>1
  <2> HIDE DEF m
  <2> QED
    BY <2>2, <2>3
<1>3. /\ UInt64Max \in Nat /\ p \in 1 .. UInt64Max /\ c \in 1 .. UInt64Max
      /\ c \in indexed
  BY RunningNumbers DEF EntriesOf
<1>4. Recipients(PeerList(c, p))
  <2> DEFINE peers == PeerPrincipals(c, p)
  <2>1. peers \subseteq 1 .. UInt64Max
    BY RunningNumbers DEF PeerPrincipals
  <2>2. IsFiniteSet(peers)
    <3>1. IsFiniteSet(1 .. UInt64Max)
      BY <1>3, FS_Interval
    <3> QED
      BY <2>1, <3>1, FS_Subset
  <2>3. peers \in SUBSET Nat
    BY <1>3, <2>1
  <2> HIDE DEF peers
  <2>4. \A k \in DOMAIN Sorted(peers) : Sorted(peers)[k] \in peers
    BY <2>2, <2>3, SortedProperties, ElementOfSeq
  <2> QED
    BY <1>3, <2>1, <2>4 DEF Recipients, UInt64, PeerList, peers
<1>5. ParsesMessage(m)
  <2>1. ParsesPayload(m.payload)
    BY <1>1, SyncRecordReadBack DEF JSONObjects
  <2> QED
    BY <1>1, <1>3, <1>4, <2>1 DEF ParsesMessage, PositiveUInt64
<1>6. RolesValid(m)
  BY <1>1, <1>2 DEF RolesValid
<1>7. ProcessMessage(known, n, FALSE) = AddSyncRecord(known, n)
  BY <1>1, <1>2, <1>3, <1>5, <1>6 DEF ProcessMessage
<1>8. AddSyncRecord(known, n)
        = Recorded(known, key, time)
  BY <1>1, <1>2 DEF AddSyncRecord, Recorded
<1> QED
  BY <1>7, <1>8

LEMMA ReplaysNext == AnswerReplays' /\ RecordReplays'
<1>1. AnswerReplays
  BY AnswerReplayed
<1>2. RecordReplays
  BY RecordReplayed
<1> QED
  BY <1>1, <1>2, PTL
-----------------------------------------------------------------------------
(* Each step keeps the replay in step with the marks.                      *)

(* The replay of a log that stays as it is.                                *)
LEMMA ReplayStays ==
    ASSUME MarksInv, log' = log, config' = config, indexed' = indexed
    PROVE  /\ Clean' = Clean /\ Len(log) \in Nat
           /\ \A n \in 0 .. Len(log) : Scanned'[n] = Scanned[n]
<1>1. PICK S : log \in Seq(S)
  BY DEF MarksInv
<1>2. PICK k \in Nat : k = Len(log)
  BY <1>1
<1>3. DOMAIN log = 1 .. Len(log) /\ DOMAIN log' = 1 .. Len(log') /\ Len(log') = k
  BY <1>1, <1>2
<1>4. \A n \in 0 .. k : Scanned'[n] = Scanned[n]
  BY <1>2, <1>3, ScannedKept
<1>5. Clean' = Clean
  BY DEF Clean
<1> QED
  BY <1>2, <1>4, <1>5

(* The replay of a log to which a message was appended.                    *)
LEMMA ReplayGrows ==
    ASSUME MarksInv, ReplayInv, Working, NEW m, log' = Append(log, m),
           UNCHANGED <<startup, received>>, Clean',
           NEW n \in Nat, n = Len(log) + 1, NEW known, known = marks
    PROVE  /\ n # 0 /\ n = Len(log') /\ Unread' /\ log'[n] = m
           /\ \A i \in 1 .. n - 1 : log'[i] = log[i]
           /\ 1 .. n - 1 \subseteq DOMAIN log /\ 1 .. n - 1 \subseteq DOMAIN log'
           /\ phase' = "running" /\ config' = config /\ indexed' = indexed
           /\ Scanned'[n - 1] = known /\ WellMarked(known, n - 1)
           /\ WellMarked(known, n - 1)'
           /\ ~RejectSourcePrincipal(m.payload)
           /\ Scanned'[n] = ProcessMessage(known, n, FALSE)'
<1>1. PICK S : log \in Seq(S)
  BY ReadAll
<1>2. /\ n # 0 /\ n = Len(log') /\ log'[n] = m /\ n - 1 = Len(log)
      /\ \A i \in 1 .. n - 1 : log'[i] = log[i]
      /\ DOMAIN log = 1 .. n - 1 /\ DOMAIN log' = 1 .. n
  BY <1>1, LogGrows
<1>3. /\ phase' = "running" /\ phase = "running" /\ config' = config
      /\ indexed' = indexed /\ received = n - 1 /\ received' = n - 1
  BY <1>2 DEF Working, startup
<1>4. PICK k \in Nat : k = n - 1
  <2>1. n - 1 \in Nat
    BY <1>2
  <2> QED
    BY <2>1
<1>5. Clean
  <2> SUFFICES ASSUME NEW i \in 1 .. k PROVE ~RejectSourcePrincipal(log[i].payload)
    BY <1>2, <1>4 DEF Clean
  <2>1. i \in DOMAIN log' /\ log'[i] = log[i]
    BY <1>2, <1>4
  <2> QED
    BY <2>1 DEF Clean
<1>6. \A i \in 0 .. k : Scanned'[i] = Scanned[i]
  BY <1>2, <1>3, <1>4, ScannedKept
<1>7. Scanned'[k] = known
  BY <1>2, <1>3, <1>4, <1>5, <1>6 DEF ReplayInv, Unread
<1>8. WellMarked(known, k)
  BY <1>2, <1>4, ReadAll
<1>9. WellMarked(known, k)'
  BY <1>2, <1>3, <1>4, <1>8, MarksKept
<1>10. ~RejectSourcePrincipal(m.payload)
  BY <1>2 DEF Clean
<1>11. Scanned'[n] = ProcessMessage(known, n, FALSE)'
  <2>1. ~known.refused
    BY <1>8 DEF WellMarked, IsMarks
  <2>2. n \in 1 .. Len(log') /\ Len(log') \in Nat
    BY <1>2
  <2>3. Scanned'[n] = ScanStep(known, n)'
    BY <1>4, <1>7, <2>2, ScanNext DEF ScanFacts, ScanStep, ProcessMessage
  <2> QED
    BY <2>1, <2>3 DEF ScanStep
<1>12. Unread'
  BY <1>2, <1>3 DEF Unread
<1>13. 1 .. n - 1 \subseteq DOMAIN log /\ 1 .. n - 1 \subseteq DOMAIN log'
  BY <1>2
<1>14. /\ Scanned'[n - 1] = known /\ WellMarked(known, n - 1)
       /\ WellMarked(known, n - 1)'
  BY <1>4, <1>7, <1>8, <1>9
<1> QED
  BY <1>2, <1>3, <1>10, <1>11, <1>12, <1>13, <1>14

LEMMA StartupKeepsReplay ==
    ASSUME MarksInv, ReplayInv, Startup \/ Fails \/ UNCHANGED vars
    PROVE  ReplayInv'
<1>1. CASE Startup \/ Fails
  <2>1. phase' # "running"
    BY <1>1 DEF Startup, StartupNext, EditSetting, EditProvider, EditMapping,
       EditChannel, Edit, Load, StartWorker, RequestStop, Restart,
       IndexChannel, ValidateChannel, Fails
  <2> QED
    BY <2>1 DEF ReplayInv
<1>2. CASE UNCHANGED vars
  <2>1. /\ log' = log /\ received' = received /\ marks' = marks
        /\ phase' = phase /\ config' = config /\ indexed' = indexed
    BY <1>2 DEF vars, startup, path
  <2>2. /\ Clean' = Clean /\ Len(log) \in Nat
        /\ \A n \in 0 .. Len(log) : Scanned'[n] = Scanned[n]
    BY <2>1, ReplayStays
  <2>3. phase = "running" /\ Unread => Len(log) - 1 \in 0 .. Len(log)
    BY DEF MarksInv, Unread
  <2> QED
    BY <2>1, <2>2, <2>3 DEF ReplayInv, Unread
<1> QED
  BY <1>1, <1>2

LEMMA ScanKeepsReplay ==
    ASSUME MarksInv, Scan
    PROVE  ReplayInv'
<1>1. /\ log' = log /\ config' = config /\ indexed' = indexed
      /\ received' = Len(log) /\ marks' = Scanned[Len(log)]
  BY DEF Scan, Run, ScanHistory
<1>2. Scanned'[Len(log)] = Scanned[Len(log)]
  BY <1>1, ReplayStays
<1> QED
  BY <1>1, <1>2 DEF ReplayInv, Unread

LEMMA LiveKeepsReplay ==
    ASSUME MarksInv, ReplayInv, ProcessLiveMessage, ~Fails
    PROVE  ReplayInv'
<1>1. PICK n \in Nat : n = Len(log)
  BY DEF MarksInv
<1>2. n # 0 /\ received + 1 = n /\ phase = "running" /\ Unread
  BY <1>1 DEF ProcessLiveMessage, MarksInv, Unread
<1>3. PICK known : known = marks
  OBVIOUS
<1>4. PICK next : next = ProcessMessage(known, n, TRUE)
  OBVIOUS
<1>5. /\ ~next.refused /\ marks' = next /\ received' = n
      /\ UNCHANGED <<startup, log>>
  BY <1>2, <1>3, <1>4 DEF ProcessLiveMessage
<1>6. /\ Clean' = Clean /\ Scanned'[n] = Scanned[n]
      /\ config' = config /\ indexed' = indexed /\ log' = log
  BY <1>1, <1>5, ReplayStays DEF startup
<1>7. Clean => Scanned[n] = next
  <2> SUFFICES ASSUME Clean PROVE Scanned[n] = next
    OBVIOUS
  <2>1. CASE log[n].worker
    <3>1. WellMarked(known, n) /\ log[n].payload.kind # "send.request"
      BY <1>1, <1>2, <1>3, <2>1 DEF MarksInv
    <3>2. next = known
      BY <1>4, <1>5, <3>1, OwnUnmarked DEF WellMarked
    <3> QED
      BY <1>1, <1>2, <1>3, <2>1, <3>2 DEF ReplayInv
  <2>2. CASE ~log[n].worker
    <3>1. WellMarked(known, n - 1) /\ log[n].principal # config.worker
      BY <1>1, <1>2, <1>3, <2>2 DEF MarksInv
    <3>2. /\ Scanned[n - 1] = known
          /\ ParsesMessage(log[n]) => log[n].payload.kind # "sync.record"
      BY <1>1, <1>2, <1>3, <2>2 DEF ReplayInv
    <3>3. ~known.refused /\ Refuse(known).refused
      BY <3>1, MarksFacts DEF WellMarked
    <3>4. Scanned[n] = ProcessMessage(known, n, FALSE)
      <4>1. n \in 1 .. Len(log) /\ Len(log) \in Nat
        BY <1>1, <1>2
      <4>2. Scanned[n] = ScanStep(known, n)
        BY <3>2, <4>1, ScannedFacts
      <4> QED
        BY <3>3, <4>2 DEF ScanStep
    <3>5. ParsesMessage(log[n])
      BY <1>4, <1>5, <3>3 DEF ProcessMessage
    <3>6. CASE log[n].channel_id \notin indexed
      BY <1>4, <3>4, <3>5, <3>6 DEF ProcessMessage
    <3>7. CASE log[n].channel_id \in indexed /\ log[n].payload.kind = "send.request"
      <4>1. RolesValid(log[n])
        BY <1>4, <1>5, <3>3, <3>5, <3>7 DEF ProcessMessage
      <4> QED
        BY <1>4, <3>4, <3>5, <3>7, <4>1 DEF ProcessMessage
    <3>8. CASE log[n].channel_id \in indexed /\ log[n].payload.kind = "send.result"
      BY <1>4, <1>5, <3>1, <3>3, <3>5, <3>8 DEF ProcessMessage, RolesValid
    <3> QED
      BY <3>2, <3>5, <3>6, <3>7, <3>8, ParsedFacts
  <2> QED
    BY <2>1, <2>2
<1> QED
  BY <1>1, <1>5, <1>6, <1>7 DEF ReplayInv, Unread

LEMMA PostKeepsReplay ==
    ASSUME MarksInv, ReplayInv, OthersRecordNothing, NEW m \in Posts, Post(m)
    PROVE  ReplayInv'
<1> SUFFICES ASSUME Clean' PROVE ReplayInv'
  BY DEF ReplayInv
<1>1. PICK known : known = marks
  OBVIOUS
<1>2. /\ Working /\ log' = Append(log, m) /\ UNCHANGED <<startup, received>>
      /\ marks' = known /\ ~m.worker
  BY <1>1, PathAssumption DEF Post
<1>3. PICK n \in Nat : n = Len(log) + 1
  BY <1>2, ReadAll
<1>4. n = Len(log') /\ Unread' /\ log'[n] = m /\ Scanned'[n - 1] = known
  BY <1>1, <1>2, <1>3, ReplayGrows
<1> QED
  BY <1>2, <1>4 DEF ReplayInv, OthersRecordNothing

LEMMA AnswerKeepsReplay ==
    ASSUME StartupInv', MarksInv, ReplayInv, JSONObjects, Working,
           UNCHANGED <<startup, received>>,
           NEW i \in marks.tasks, NEW id, Answers(i, id)
    PROVE  ReplayInv'
<1> SUFFICES ASSUME Clean' PROVE ReplayInv'
  BY DEF ReplayInv
<1>1. PICK known : known = marks
  OBVIOUS
<1>2. PICK n \in Nat : n = Len(log) + 1
  BY ReadAll
<1>3. PICK c, p : c = log[i].channel_id /\ p = log[i].principal
  OBVIOUS
<1>4. PICK req : req = [request_id |-> log[i].payload.request_id, prev_seq |-> i,
                        status |-> "SUCCESS", event_ms |-> Now,
                        provider_message_id |-> id]
  OBVIOUS
<1>5. PICK m : m = Entry(c, config.worker, <<p>>, EncodeSendResult(req), TRUE)
  OBVIOUS
<1>6. /\ log' = Append(log, m) /\ Truthy(id) /\ EncodesSendResult(req)
      /\ marks' = Complete(marks, i, c, id, Len(log'))
  BY <1>3, <1>4, <1>5 DEF Answers
<1>7. /\ n # 0 /\ n = Len(log') /\ Unread' /\ log'[n] = m
      /\ \A j \in 1 .. n - 1 : log'[j] = log[j]
      /\ phase' = "running" /\ config' = config /\ indexed' = indexed
      /\ WellMarked(known, n - 1) /\ WellMarked(known, n - 1)'
      /\ Scanned'[n] = ProcessMessage(known, n, FALSE)'
  BY <1>1, <1>2, <1>6, ReplayGrows
<1>8. /\ req.prev_seq = i /\ req.status = "SUCCESS"
      /\ req.request_id = log'[i].payload.request_id
      /\ req.provider_message_id = id
      /\ c = log'[i].channel_id /\ p = log'[i].principal
  <2>1. i \in 1 .. n - 1
    BY <1>1, <1>7 DEF WellMarked, Marking
  <2> QED
    BY <1>3, <1>4, <1>7, <2>1
<1>9. AnswerLogged(n, known, i, id, req, c, p)'
  BY <1>1, <1>5, <1>6, <1>7, <1>8 DEF AnswerLogged
<1>10. ProcessMessage(known, n, FALSE)' = Complete(known, i, c, id, n)'
  BY <1>9, ReplaysNext DEF AnswerReplays
<1>11. Complete(known, i, c, id, n)' = Complete(known, i, c, id, n)
  BY <1>7, RoutesKept DEF Complete
<1>12. marks' = Scanned'[n]
  BY <1>1, <1>6, <1>7, <1>10, <1>11
<1>13. m.worker
  BY <1>5 DEF Entry
<1> QED
  BY <1>7, <1>12, <1>13 DEF ReplayInv

LEMMA RecordKeepsReplay ==
    ASSUME StartupInv', MarksInv, ReplayInv, JSONObjects, Working,
           UNCHANGED <<startup, received>>,
           NEW event, NEW content_raw, Records(event, content_raw)
    PROVE  ReplayInv'
<1> SUFFICES ASSUME Clean' PROVE ReplayInv'
  BY DEF ReplayInv
<1>1. PICK known : known = marks
  OBVIOUS
<1>2. PICK n \in Nat : n = Len(log) + 1
  BY ReadAll
<1>3. PICK c : c = Found(ChannelForProviderSession(
                           <<event.provider, event.session_id>>))
  OBVIOUS
<1>4. PICK key : key = Key(c, event.provider_message_id)
  OBVIOUS
<1>5. PICK req : req = [provider_message_id |-> event.provider_message_id,
                        msg_type |-> event.msg_type, content_raw |-> content_raw,
                        event_ms |-> event.event_ms, ingested_ms |-> Now,
                        prev_seq |-> LinkOf(marks, key)]
  OBVIOUS
<1>6. PICK p \in PrincipalForExternalUser(c, event.provider,
                   event.sender_external_user_id, event.sender_identity_type) :
        log' = Append(log, Entry(c, p, PeerList(c, p), EncodeSyncRecord(req), TRUE))
  BY <1>3, <1>4, <1>5 DEF Records
<1>7. PICK m : m = Entry(c, p, PeerList(c, p), EncodeSyncRecord(req), TRUE)
  OBVIOUS
<1>8. /\ log' = Append(log, m) /\ EncodesSyncRecord(req)
      /\ marks' = [marks EXCEPT !.records = @ \cup {<<key, event.event_ms>>}]
  BY <1>3, <1>4, <1>5, <1>6, <1>7 DEF Records
<1>9. /\ n # 0 /\ n = Len(log') /\ Unread' /\ log'[n] = m
      /\ 1 .. n - 1 \subseteq DOMAIN log /\ 1 .. n - 1 \subseteq DOMAIN log'
      /\ phase' = "running" /\ config' = config /\ indexed' = indexed
      /\ WellMarked(known, n - 1) /\ WellMarked(known, n - 1)'
      /\ ~RejectSourcePrincipal(m.payload)
      /\ Scanned'[n] = ProcessMessage(known, n, FALSE)'
  BY <1>1, <1>2, <1>8, ReplayGrows
<1>10. ~req.content_raw.source_principal
  <2>1. PICK w : w = EncodeSyncRecord(req)
    OBVIOUS
  <2>2. w.data.content = req.content_raw /\ Object(w.data)
    BY <2>1, PayloadFields DEF JSONObjects, JSONObject
  <2>3. m.payload = w
    BY <1>7, <2>1 DEF Entry
  <2>4. Object(req.content_raw)
    BY <1>8 DEF EncodesSyncRecord
  <2> QED
    BY <1>9, <2>2, <2>3, <2>4 DEF RejectSourcePrincipal
<1>11. /\ (\E e \in EntriesOf(c) : e.principal = p)'
       /\ key = Key(c, req.provider_message_id)'
       /\ PeerList(c, p)' = PeerList(c, p)
  <2>1. \E e \in EntriesOf(c) : e.principal = p
    BY <1>6 DEF PrincipalForExternalUser
  <2>2. key = Key(c, req.provider_message_id)
    BY <1>4, <1>5
  <2> QED
    BY <1>9, <2>1, <2>2, RoutesKept
<1>12. req.prev_seq = LinkOf(known, key)'
  <2>1. req.prev_seq = LinkOf(known, key)
    BY <1>1, <1>5
  <2>2. PICK k \in Nat : k = n - 1
    <3>1. n - 1 \in Nat
      BY <1>9
    <3> QED
      BY <3>1
  <2>3. \A l \in known.links : l[2] \in 1 .. k
    BY <1>9, <2>2 DEF WellMarked, Marking
  <2>4. LinkOf(known, key)' = LinkOf(known, key)
    BY <1>9, <2>2, <2>3, LinkKept
  <2> QED
    BY <2>1, <2>4
<1>13. log'[n] = Entry(c, p, PeerList(c, p)', EncodeSyncRecord(req), TRUE)
  BY <1>7, <1>9, <1>11
<1>14. PICK time : time = req.event_ms
  OBVIOUS
<1>15. RecordLogged(n, known, c, p, req, key, time)'
  BY <1>8, <1>9, <1>10, <1>11, <1>12, <1>13, <1>14 DEF RecordLogged
<1>16. ProcessMessage(known, n, FALSE)' = Recorded(known, key, time)'
  <2>1. RecordReplays'
    BY ReplaysNext
  <2>2. \A k, d, q, r, w, t :
          (RecordLogged(n, k, d, q, r, w, t)
             => ProcessMessage(k, n, FALSE) = Recorded(k, w, t))'
    BY ONLY <2>1, n \in Nat, Zenon DEF RecordReplays
  <2>3. (RecordLogged(n, known, c, p, req, key, time)
          => ProcessMessage(known, n, FALSE) = Recorded(known, key, time))'
    BY ONLY <2>2, Zenon
  <2> QED
    BY <1>15, <2>3
<1>17. marks' = Recorded(known, key, time)'
  BY <1>1, <1>5, <1>8, <1>14 DEF Recorded
<1>18. m.worker
  BY <1>7 DEF Entry
<1> QED
  BY <1>9, <1>16, <1>17, <1>18 DEF ReplayInv

(* syncer.py and im_sdk: whatever the callers post, a restart rebuilds from *)
(* the log the very marks the process had, in every log whose contents hold *)
(* no key source_principal, as long as nobody but the worker publishes      *)
(* records that parse.                                                     *)
THEOREM ReplayRebuildsMarks ==
    ASSUME JSONObjects, OthersRecordNothing
    PROVE  Spec => []ReplaysAsMarked
<1>1. Init => ReplayInv
  BY DEF Init, StartupInit, ReplayInv
<1>2. /\ StartupInv /\ StartupInv' /\ MarksInv /\ ReplayInv /\ [Next]_vars
      => ReplayInv'
  <2> SUFFICES ASSUME StartupInv, StartupInv', MarksInv, ReplayInv, [Next]_vars
               PROVE  ReplayInv'
    OBVIOUS
  <2>1. CASE Startup \/ Fails \/ UNCHANGED vars
    BY <2>1, StartupKeepsReplay
  <2>2. CASE Scan
    BY <2>2, ScanKeepsReplay
  <2>3. CASE ScanFails \/ Exit
    BY <2>3, StartupKeepsReplay DEF ScanFails, Exit
  <2>4. CASE ProcessLiveMessage /\ ~Fails
    BY <2>4, LiveKeepsReplay
  <2>5. ASSUME NEW m \in Posts, Post(m) PROVE ReplayInv'
    BY <2>5, PostKeepsReplay
  <2>6. CASE \/ \E i \in DOMAIN log, m \in Messages :
                  m.sender_type = "app" /\ ProcessOutboundTask(i, m.id)
             \/ \E m \in Messages : Deliver(m)
    <3>1. CASE Fails
      BY <3>1, StartupKeepsReplay
    <3>2. CASE /\ Working /\ Room /\ UNCHANGED <<startup, received>>
               /\ \/ \E i \in marks.tasks : \E id : Answers(i, id)
                  \/ \E event, content_raw : Records(event, content_raw)
      BY <3>2, AnswerKeepsReplay, RecordKeepsReplay
    <3> QED
      BY <2>6, <3>1, <3>2, OwnStep
  <2> QED
    BY <2>1, <2>2, <2>3, <2>4, <2>5, <2>6 DEF Next
<1>3. ReplayInv => ReplaysAsMarked
  BY DEF ReplayInv, ReplaysAsMarked, Clean, Unread, ScanHistory
<1> QED
  BY <1>1, <1>2, <1>3, MarksInvariant, PTL DEF Spec
=============================================================================
