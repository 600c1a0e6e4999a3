---------------------------- MODULE Startup_proofs ----------------------------
(***************************************************************************)
(* Theorems about Startup: for every configuration people may write and    *)
(* every answer they may give to the generator.                            *)
(***************************************************************************)
EXTENDS Startup, TLAPS

LEMMA Singleton ==
    ASSUME NEW x
    PROVE  <<x>> # << >> /\ \A j \in DOMAIN <<x>> : <<x>>[j] = x
OBVIOUS

LEMMA Empty == DOMAIN << >> = {}
OBVIOUS

LEMMA ConcatType ==
    ASSUME NEW S, NEW s \in Seq(S), NEW t \in Seq(S)
    PROVE  s \o t \in Seq(S)
OBVIOUS

LEMMA SeqOfSubset ==
    ASSUME NEW S, NEW T, S \subseteq T, NEW s \in Seq(S)
    PROVE  s \in Seq(T)
<1>1. s \in [1..Len(s) -> T] /\ Len(s) \in Nat
  OBVIOUS
<1> QED BY <1>1

LEMMA SeqElements ==
    ASSUME NEW S, NEW s \in Seq(S)
    PROVE  \A j \in DOMAIN s : s[j] \in S
OBVIOUS

LEMMA SeqOfOne ==
    ASSUME NEW S, NEW x \in S
    PROVE  <<x>> \in Seq(S)
OBVIOUS

LEMMA ConfigType ==
    ASSUME NEW auth \in SUBSET CredentialKeys, NEW frame \in FrameIds,
           NEW interval \in Durations, NEW size \in Int,
           NEW rules \in Seq(RuleConfigs), NEW photo \in PhotoConfigs
    PROVE  [auth |-> auth, frame_id |-> frame, interval |-> interval,
            event_buffer_size |-> size, rules |-> rules, photo_sync |-> photo]
               \in Configs
BY DEF Configs

LEMMA RuleType ==
    ASSUME NEW event \in EventTypes, NEW action \in ActionConfigs
    PROVE  Rule(event, action) \in RuleConfigs
<1>1. <<action>> \in Seq(ActionConfigs)
  OBVIOUS
<1> QED BY <1>1 DEF Rule, RuleConfigs

LEMMA NoTemplateType == NoTemplate \in Templates
BY DEF NoTemplate, Templates

LEMMA NoActionType == NoAction \in ActionConfigs
BY NoTemplateType DEF NoAction, ActionConfigs, Urls

LEMMA NoPhotosType == NoPhotos \in PhotoConfigs
<1>1. "" \in FrameIds
  BY ConfigAssumption
<1> QED BY <1>1 DEF NoPhotos, PhotoConfigs, Durations

LEMMA LogTemplateType == LogTemplate \in Templates
<1>1. {"assignee_name", "chore_title"} \subseteq Data("chore.completed")
  BY DEF Data
<1>2. Data("chore.completed") \subseteq UNION {Data(t) : t \in EventTypes}
  BY DEF EventTypes
<1> QED BY <1>1, <1>2 DEF LogTemplate, Templates

LEMMA LogRulesType == LogRules \in Seq(RuleConfigs)
<1>1. [NoAction EXCEPT !.type = "log", !.template = LogTemplate] \in ActionConfigs
  BY LogTemplateType, NoActionType DEF ActionConfigs
<1>2. [NoAction EXCEPT !.type = "log"] \in ActionConfigs
  BY NoActionType DEF ActionConfigs
<1> DEFINE R1 == Rule("chore.completed", [NoAction EXCEPT !.type = "log",
                                                           !.template = LogTemplate])
           R2 == Rule("reward.redeemed", [NoAction EXCEPT !.type = "log"])
<1>3. R1 \in RuleConfigs
  BY <1>1, RuleType DEF EventTypes
<1>4. R2 \in RuleConfigs
  BY <1>2, RuleType DEF EventTypes
<1>5. LogRules = <<R1, R2>>
  BY DEF LogRules
<1> HIDE DEF R1, R2
<1> QED BY <1>3, <1>4, <1>5

LEMMA ChatRulesType ==
    ASSUME NEW type \in {"discord", "slack"}, NEW url \in Urls
    PROVE  ChatRules(type, url) \in Seq(RuleConfigs)
<1> DEFINE action == [NoAction EXCEPT !.type = type, !.webhook_url = url]
           R(event) == Rule(event, action)
<1>1. action \in ActionConfigs
  BY NoActionType DEF ActionConfigs
<1>2. /\ R("chore.completed") \in RuleConfigs
      /\ R("reward.redeemed") \in RuleConfigs
      /\ R("chore.all_completed") \in RuleConfigs
  BY <1>1, RuleType DEF EventTypes
<1>3. ChatRules(type, url) =
          IF url = "" THEN << >>
          ELSE <<R("chore.completed"), R("reward.redeemed"), R("chore.all_completed")>>
  BY DEF ChatRules
<1> HIDE DEF R
<1>4. /\ << >> \in Seq(RuleConfigs)
      /\ <<R("chore.completed"), R("reward.redeemed"), R("chore.all_completed")>>
             \in Seq(RuleConfigs)
  BY <1>2
<1> QED BY <1>3, <1>4

LEMMA WrittenType ==
    ASSUME NEW answer \in Answers, NEW frame \in FrameIds, answer.interval # "notYAML"
    PROVE  Written(answer, frame) \in Configs
<1>1. /\ answer.discord \in Urls
      /\ answer.slack \in Urls
      /\ answer.interval \in Durations
      /\ answer.given \subseteq CredentialKeys
  BY AnswersAssumption
<1>2. LogRules \o ChatRules("discord", answer.discord) \o ChatRules("slack", answer.slack)
          \in Seq(RuleConfigs)
  <2>1. /\ ChatRules("discord", answer.discord) \in Seq(RuleConfigs)
        /\ ChatRules("slack", answer.slack) \in Seq(RuleConfigs)
    BY <1>1, ChatRulesType
  <2>2. LogRules \o ChatRules("discord", answer.discord) \in Seq(RuleConfigs)
    BY <2>1, LogRulesType, ConcatType
  <2> QED BY <2>1, <2>2, ConcatType
<1>3. (IF answer.interval = "" THEN "positive" ELSE answer.interval) \in Durations
  BY <1>1 DEF Durations
<1> DEFINE rules == LogRules \o ChatRules("discord", answer.discord)
                             \o ChatRules("slack", answer.slack)
           interval == IF answer.interval = "" THEN "positive" ELSE answer.interval
           auth == answer.given \intersect MethodKeys(answer)
<1>4. Written(answer, frame) = [auth |-> auth, frame_id |-> frame, interval |-> interval,
                                event_buffer_size |-> 100, rules |-> rules,
                                photo_sync |-> NoPhotos]
  BY DEF Written
<1>5. auth \in SUBSET CredentialKeys
  BY <1>1
<1> HIDE DEF rules, interval, auth
<1>6. rules \in Seq(RuleConfigs) /\ interval \in Durations
  BY <1>2, <1>3 DEF rules, interval
<1>7. 100 \in Int
  OBVIOUS
<1>8. [auth |-> auth, frame_id |-> frame, interval |-> interval,
       event_buffer_size |-> 100, rules |-> rules, photo_sync |-> NoPhotos] \in Configs
  BY <1>5, <1>6, <1>7, NoPhotosType, ConfigType
<1> QED BY <1>4, <1>8

LEMMA FrameType ==
    ASSUME NEW answer \in Answers, NEW frame \in FramesFound(answer)
    PROVE  frame \in FrameIds
<1>1. CASE frame = answer.frame_id
  BY <1>1, AnswersAssumption
<1>2. CASE Frames # << >> /\ frame = DiscoverFrame(answer, Frames)
  <2>1. Frames \in Seq(FrameIds)
    BY ConfigAssumption, SeqOfSubset
  <2>2. 1 \in DOMAIN Frames
    BY <1>2, <2>1
  <2> QED BY <1>2, <2>1, <2>2 DEF DiscoverFrame
<1> QED BY <1>1, <1>2 DEF FramesFound

LEMMA NoConfigType == NoConfig \in Configs
<1>1. "" \in FrameIds
  BY ConfigAssumption
<1>2. << >> \in Seq(RuleConfigs)
  OBVIOUS
<1>3. {} \in SUBSET CredentialKeys /\ "" \in Durations /\ 0 \in Int
  BY DEF Durations
<1> QED BY <1>1, <1>2, <1>3, NoPhotosType, ConfigType DEF NoConfig

LEMMA TornHeadsType ==
    ASSUME NEW c \in Configs
    PROVE  TornHeads(c) \subseteq Configs
<1>1. /\ c.auth \in SUBSET CredentialKeys /\ c.frame_id \in FrameIds
      /\ NoConfig \in Configs
  BY NoConfigType DEF Configs
<1>2. << >> \in Seq(RuleConfigs) /\ {0, 1, 10} \subseteq Int
  OBVIOUS
<1>3. ASSUME NEW keys \in SUBSET CredentialKeys
      PROVE  [NoConfig EXCEPT !.auth = keys] \in Configs
  BY <1>1 DEF Configs
<1>4. ASSUME NEW d \in Durations
      PROVE  [NoConfig EXCEPT !.auth = c.auth, !.frame_id = c.frame_id, !.interval = d]
                 \in Configs
  BY <1>1 DEF Configs
<1>5. ASSUME NEW n \in {0, 1, 10}
      PROVE  [c EXCEPT !.rules = << >>, !.event_buffer_size = n] \in Configs
  BY <1>2 DEF Configs
<1> QED BY <1>1, <1>3, <1>4, <1>5 DEF TornHeads

LEMMA TornRulesType ==
    ASSUME NEW rule \in RuleConfigs
    PROVE  TornRules(rule) \subseteq RuleConfigs
<1>1. << >> \in Seq(ActionConfigs)
  OBVIOUS
<1>2. [named |-> FALSE, event |-> "", actions |-> << >>] \in RuleConfigs
  BY <1>1 DEF RuleConfigs
<1>3. ASSUME NEW e \in {"", "other", rule.event}
      PROVE  [rule EXCEPT !.event = e, !.actions = << >>] \in RuleConfigs
  <2>1. e \in EventTypes \union {"", "other"}
    BY DEF RuleConfigs
  <2> QED BY <1>1, <2>1 DEF RuleConfigs
<1>4. ASSUME NEW t \in {"", "other"} \union {rule.actions[j].type : j \in DOMAIN rule.actions}
      PROVE  [rule EXCEPT !.actions = <<[NoAction EXCEPT !.type = t]>>] \in RuleConfigs
  <2>1. t \in {"", "log", "webhook", "homeassistant", "discord", "slack", "other"}
    <3>1. rule.actions \in Seq(ActionConfigs)
      BY DEF RuleConfigs
    <3>2. \A j \in DOMAIN rule.actions : rule.actions[j] \in ActionConfigs
      BY <3>1, SeqElements
    <3>3. \A action \in ActionConfigs :
              action.type \in {"", "log", "webhook", "homeassistant", "discord", "slack",
                              "other"}
      BY DEF ActionConfigs
    <3> QED BY <1>4, <3>2, <3>3
  <2> DEFINE action == [NoAction EXCEPT !.type = t]
  <2>2. action \in ActionConfigs
    BY <2>1, NoActionType DEF ActionConfigs
  <2> HIDE DEF action
  <2>3. <<action>> \in Seq(ActionConfigs)
    BY <2>2, SeqOfOne
  <2>4. [rule EXCEPT !.actions = <<action>>] \in RuleConfigs
    BY <2>3 DEF RuleConfigs
  <2> QED BY <2>4 DEF action
<1> QED BY <1>2, <1>3, <1>4 DEF TornRules

LEMMA TornType ==
    ASSUME NEW contents \in {Garbled} \union Configs, NEW torn \in Torn(contents)
    PROVE  torn \in {Garbled} \union Configs
<1> SUFFICES ASSUME contents # Garbled, torn # Garbled, torn \notin TornHeads(contents)
             PROVE  torn \in Configs
  BY TornHeadsType DEF Torn
<1>1. PICK n \in 0..(Len(contents.rules) - 1) :
          LET first == SubSeq(contents.rules, 1, n)
          IN  \E rules \in {first} \union
                      {Append(first, cut) : cut \in TornRules(contents.rules[n + 1])} :
                  torn = [contents EXCEPT !.rules = rules]
  BY DEF Torn
<1>2. contents.rules \in Seq(RuleConfigs) /\ contents \in Configs
  BY DEF Configs
<1> DEFINE first == SubSeq(contents.rules, 1, n)
<1>3. first \in Seq(RuleConfigs) /\ contents.rules[n + 1] \in RuleConfigs
  <2>1. n \in 0..Len(contents.rules) /\ n + 1 \in 1..Len(contents.rules)
    BY <1>2
  <2> QED BY <1>2, <2>1
<1> HIDE DEF first
<1>4. PICK rules \in {first} \union
                      {Append(first, cut) : cut \in TornRules(contents.rules[n + 1])} :
          torn = [contents EXCEPT !.rules = rules]
  BY <1>1 DEF first
<1>5. rules \in Seq(RuleConfigs)
  BY <1>3, <1>4, TornRulesType
<1> QED BY <1>2, <1>4, <1>5 DEF Configs

LEMMA DefaultsType == ASSUME NEW c \in Configs PROVE ApplyDefaults(c) \in Configs
<1> DEFINE size == IF c.event_buffer_size = 0 THEN 100 ELSE c.event_buffer_size
           frame == IF c.photo_sync.on /\ c.photo_sync.frame_id = "" THEN c.frame_id
                    ELSE c.photo_sync.frame_id
           photo == [c.photo_sync EXCEPT !.frame_id = frame]
<1>1. /\ size \in Int
      /\ c.photo_sync \in PhotoConfigs
      /\ c.frame_id \in FrameIds
  BY DEF Configs
<1>2. photo \in PhotoConfigs
  BY <1>1 DEF PhotoConfigs
<1>3. ApplyDefaults(c) = [[c EXCEPT !.event_buffer_size = size] EXCEPT !.photo_sync = photo]
  BY DEF ApplyDefaults, Configs
<1> HIDE DEF size, photo
<1> QED BY <1>1, <1>2, <1>3 DEF Configs

-----------------------------------------------------------------------------
(* Types.                                                                  *)

LEMMA ShownType ==
    ASSUME NEW action \in ActionConfigs, NEW event \in EventTypes
    PROVE  Shown(action, event) \subseteq UNION {Data(t) : t \in EventTypes}
<1>1. action.template.reads \subseteq UNION {Data(t) : t \in EventTypes}
  BY DEF ActionConfigs, Templates
<1>2. FormatDefaultMessage(event) \subseteq Data(event)
  BY DEF EventTypes, FormatDefaultMessage, Data
<1>3. FormatDefaultMessage(event) \subseteq UNION {Data(t) : t \in EventTypes}
  BY <1>2
<1> DEFINE Fields == UNION {Data(t) : t \in EventTypes}
<1> HIDE DEF Fields
<1> QED BY <1>1, <1>3 DEF Shown, Fields

\* What Load let pass is what the process goes on with.
Loaded ==
    stage \in {"connecting", "wiring", "starting", "running", "panicked"} =>
        /\ file \in Configs
        /\ Validate(file)
        /\ cfg = ApplyDefaults(file)

LEMMA DefaultsKeep ==
    ASSUME NEW c \in Configs
    PROVE  LET d == ApplyDefaults(c)
           IN  /\ d.auth = c.auth
               /\ d.frame_id = c.frame_id
               /\ d.rules = c.rules
               /\ d.event_buffer_size < 0 <=> c.event_buffer_size < 0
               /\ d.photo_sync.on = c.photo_sync.on
               /\ d.photo_sync.watch_folder = c.photo_sync.watch_folder
               /\ (c.photo_sync.on /\ c.frame_id # "") => d.photo_sync.frame_id # ""
<1> DEFINE size == IF c.event_buffer_size = 0 THEN 100 ELSE c.event_buffer_size
           frame == IF c.photo_sync.on /\ c.photo_sync.frame_id = "" THEN c.frame_id
                    ELSE c.photo_sync.frame_id
           photo == [c.photo_sync EXCEPT !.frame_id = frame]
           d == [[c EXCEPT !.event_buffer_size = size] EXCEPT !.photo_sync = photo]
<1>1. c.photo_sync \in PhotoConfigs /\ c.event_buffer_size \in Int
  BY DEF Configs
<1>2. ApplyDefaults(c) = d
  BY DEF ApplyDefaults, Configs
<1>3. size < 0 <=> c.event_buffer_size < 0
  BY <1>1
<1>4. /\ photo.on = c.photo_sync.on
      /\ photo.watch_folder = c.photo_sync.watch_folder
      /\ photo.frame_id = frame
  BY <1>1 DEF PhotoConfigs
<1>5. (c.photo_sync.on /\ c.frame_id # "") => frame # ""
  OBVIOUS
<1> HIDE DEF size, photo, frame
<1>6. /\ d.auth = c.auth
      /\ d.frame_id = c.frame_id
      /\ d.rules = c.rules
      /\ d.event_buffer_size = size
      /\ d.photo_sync = photo
  BY DEF Configs
<1> HIDE DEF d
<1> QED BY <1>2, <1>3, <1>4, <1>5, <1>6

LEMMA CalledType ==
    ASSUME TypeOK, NEW i \in DOMAIN cfg.rules, NEW j \in DOMAIN cfg.rules[i].actions
    PROVE  /\ i \in Nat /\ j \in Nat
           /\ cfg.rules[i] \in RuleConfigs
           /\ cfg.rules[i].actions[j] \in ActionConfigs
<1>1. cfg.rules \in Seq(RuleConfigs)
  BY DEF TypeOK, Configs
<1>2. cfg.rules[i] \in RuleConfigs /\ i \in Nat
  BY <1>1
<1>3. cfg.rules[i].actions \in Seq(ActionConfigs)
  BY <1>2 DEF RuleConfigs
<1> QED BY <1>2, <1>3

LEMMA CalledEvent ==
    ASSUME Loaded, stage = "running", NEW i \in DOMAIN cfg.rules
    PROVE  cfg.rules[i].event \in EventTypes
<1>1. file \in Configs /\ ValidateRules(file.rules) /\ cfg = ApplyDefaults(file)
  BY DEF Loaded, Validate
<1>2. cfg.rules = file.rules
  BY <1>1, DefaultsKeep
<1> QED BY <1>1, <1>2 DEF ValidateRules

LEMMA TypePreserved ==
    ASSUME TypeOK, Loaded, Next
    PROVE  TypeOK'
<1>1. ASSUME NEW contents \in {Absent, Garbled} \union Configs,
             NEW complete \in BOOLEAN, stage = "down", Changed(contents, complete)
      PROVE  TypeOK'
  BY <1>1 DEF TypeOK, Changed, NoVerdict, Verdicts, NoCall
<1>2. ASSUME NEW force \in BOOLEAN, Generate(force)
      PROVE  TypeOK'
  <2>1. PICK answer \in Answers : \E frame \in FramesFound(answer) :
            \/ Changed(FileOf(answer, frame), Complete(answer, frame))
            \/ \E contents \in Torn(FileOf(answer, frame)) : Changed(contents, FALSE)
    BY <1>2 DEF Generate
  <2>6. PICK frame \in FramesFound(answer) :
            \/ Changed(FileOf(answer, frame), Complete(answer, frame))
            \/ \E contents \in Torn(FileOf(answer, frame)) : Changed(contents, FALSE)
    BY <2>1
  <2>2. FileOf(answer, frame) \in {Garbled} \union Configs
    BY FrameType, WrittenType DEF FileOf
  <2>3. Complete(answer, frame) \in BOOLEAN
    BY DEF Complete
  <2>4. stage = "down"
    BY <1>2 DEF Generate
  <2>5. \A contents \in Torn(FileOf(answer, frame)) : contents \in {Garbled} \union Configs
    BY <2>2, TornType
  <2> QED BY <1>1, <2>6, <2>2, <2>3, <2>4, <2>5
<1>3. CASE OpenInEditor
  BY <1>1, <1>3, ConfigAssumption DEF OpenInEditor
<1>4. ASSUME NEW dry \in BOOLEAN, Run(dry)
      PROVE  TypeOK'
  BY <1>4 DEF TypeOK, Run, Stages, NoCall
<1>5. CASE Load
  <2>1. cfg' \in Configs
    BY <1>5, DefaultsType DEF TypeOK, Load
  <2>2. stage' \in Stages /\ verdict' \in [BOOLEAN -> Verdicts]
    BY <1>5 DEF TypeOK, Load, Judge, Stages, Verdicts
  <2> QED BY <1>5, <2>1, <2>2 DEF TypeOK, Load
<1>6. CASE BuildClient
  BY <1>6 DEF TypeOK, BuildClient, Stages, CredentialKeys
<1>7. CASE Wire
  <2>1. stage' \in Stages /\ verdict' \in [BOOLEAN -> Verdicts]
    BY <1>7 DEF TypeOK, Wire, Judge, Stages, Verdicts
  <2> QED BY <1>7, <2>1 DEF TypeOK, Wire
<1>8. CASE StartLoops
  <2>1. stage' \in Stages /\ verdict' \in [BOOLEAN -> Verdicts]
    BY <1>8 DEF TypeOK, StartLoops, Stages, Verdicts
  <2>2. call = NoCall /\ UNCHANGED <<file, dryRun, cfg, client, generated, call>>
    BY <1>8 DEF TypeOK, StartLoops
  <2> QED BY <2>1, <2>2 DEF TypeOK
<1>9. ASSUME NEW i \in DOMAIN cfg.rules, NEW j \in DOMAIN cfg.rules[i].actions, Execute(i, j)
      PROVE  TypeOK'
  <2> DEFINE action == cfg.rules[i].actions[j]
             event == cfg.rules[i].event
             noop == IsNoop
             shown == IF noop THEN {} ELSE Shown(action, event)
  <2>1. /\ i \in Nat /\ j \in Nat
        /\ action \in ActionConfigs
        /\ event \in EventTypes
    BY <1>9, CalledType, CalledEvent DEF Execute
  <2>2. shown \in SUBSET UNION {Data(t) : t \in EventTypes}
    BY <2>1, ShownType
  <2>3. PICK sent \in BOOLEAN, ok \in BOOLEAN :
            call' = [rule |-> i, action |-> j, event |-> event, sent |-> sent, ok |-> ok,
                     shown |-> shown]
    BY <1>9 DEF Execute
  <2> HIDE DEF event, shown
  <2>4. call' \in Calls
    BY <2>1, <2>2, <2>3 DEF Calls
  <2>5. call'.rule = i /\ call'.action = j
    BY <2>3
  <2> QED BY <1>9, <2>4, <2>5 DEF TypeOK, Execute
<1>10. CASE End
  <2>1. NoConfig \in Configs /\ {} \subseteq CredentialKeys
    BY NoConfigType
  <2>2. NoCall \in Calls
    BY DEF NoCall, Calls, EventTypes
  <2> QED BY <1>10, <2>1, <2>2 DEF TypeOK, End, Stages
<1> QED BY <1>2, <1>3, <1>4, <1>5, <1>6, <1>7, <1>8, <1>9, <1>10 DEF Next

-----------------------------------------------------------------------------
(* A generated file.                                                       *)

\* The template shows fields that this event has.
Fits(action, event) ==
    action.template.form = "fine" => action.template.reads \subseteq Data(event)

Good(rule) ==
    /\ rule.named
    /\ rule.event \in EventTypes
    /\ rule.actions # << >>
    /\ \A j \in DOMAIN rule.actions :
           /\ rule.actions[j].type # ""
           /\ Build(rule.actions[j])
           /\ Fits(rule.actions[j], rule.event)

AllGood(rules) == \A i \in DOMAIN rules : Good(rules[i])

LEMMA GoodAccepted ==
    ASSUME NEW rules, AllGood(rules)
    PROVE  ValidateRules(rules) /\ NewEngine(rules)
BY DEF AllGood, Good, ValidateRules, NewEngine

LEMMA GoodRule ==
    ASSUME NEW event \in EventTypes, NEW action \in ActionConfigs,
           action.type # "", Build(action), Fits(action, event)
    PROVE  Good(Rule(event, action))
<1> DEFINE actions == <<action>>
<1>1. actions # << >> /\ \A j \in DOMAIN actions : actions[j] = action
  BY Singleton
<1>2. /\ Rule(event, action).named
      /\ Rule(event, action).event = event
      /\ Rule(event, action).actions = actions
  BY DEF Rule
<1> HIDE DEF actions
<1> QED BY <1>1, <1>2 DEF Good

LEMMA ConcatGood ==
    ASSUME NEW s \in Seq(RuleConfigs), NEW t \in Seq(RuleConfigs), AllGood(s), AllGood(t)
    PROVE  AllGood(s \o t)
<1>1. \A i \in DOMAIN (s \o t) :
          \/ i \in DOMAIN s /\ (s \o t)[i] = s[i]
          \/ i - Len(s) \in DOMAIN t /\ (s \o t)[i] = t[i - Len(s)]
  OBVIOUS
<1> QED BY <1>1 DEF AllGood

LEMMA LogRulesGood == AllGood(LogRules)
<1> DEFINE a1 == [NoAction EXCEPT !.type = "log", !.template = LogTemplate]
           a2 == [NoAction EXCEPT !.type = "log"]
<1>1. a1.type = "log" /\ a1.template.form = "fine" /\ a1 \in ActionConfigs
  BY NoActionType, LogTemplateType DEF ActionConfigs, LogTemplate
<1>6. a2 \in ActionConfigs
  BY NoActionType DEF ActionConfigs
<1>2. a2.type = "log" /\ a2.template.form = ""
  BY DEF NoAction, NoTemplate
<1> HIDE DEF a1, a2
<1>3. Build(a1) /\ Build(a2)
  BY <1>1, <1>2 DEF Build, Factory, Parses
<1>4. LogRules = <<Rule("chore.completed", a1), Rule("reward.redeemed", a2)>>
  BY DEF LogRules, a1, a2
<1>7. Fits(a1, "chore.completed") /\ Fits(a2, "reward.redeemed")
  <2>1. a1.template = LogTemplate
    BY NoActionType DEF a1, ActionConfigs
  <2>2. LogTemplate.reads \subseteq Data("chore.completed")
    BY DEF LogTemplate, Data
  <2> QED BY <1>2, <2>1, <2>2 DEF Fits
<1>5. Good(Rule("chore.completed", a1)) /\ Good(Rule("reward.redeemed", a2))
  BY <1>1, <1>2, <1>3, <1>6, <1>7, GoodRule DEF EventTypes
<1> QED BY <1>4, <1>5 DEF AllGood

LEMMA ChatRulesGood ==
    ASSUME NEW type \in {"discord", "slack"}, NEW url \in Urls
    PROVE  AllGood(ChatRules(type, url))
<1>1. CASE url = ""
  <2>1. ChatRules(type, url) = << >>
    BY <1>1 DEF ChatRules
  <2> QED BY <2>1, Empty DEF AllGood
<1>2. CASE url # ""
  <2> DEFINE a == [NoAction EXCEPT !.type = type, !.webhook_url = url]
  <2>1. a.type = type /\ a.webhook_url = url /\ a.template.form = ""
    BY DEF NoAction, NoTemplate
  <2>5. a \in ActionConfigs
    BY NoActionType DEF ActionConfigs
  <2> HIDE DEF a
  <2>2. Build(a)
    BY <1>2, <2>1 DEF Build, Factory, NewChatAction, Parses
  <2>3. ChatRules(type, url) = <<Rule("chore.completed", a), Rule("reward.redeemed", a),
                                 Rule("chore.all_completed", a)>>
    BY <1>2 DEF ChatRules, a
  <2>4. /\ Good(Rule("chore.completed", a))
        /\ Good(Rule("reward.redeemed", a))
        /\ Good(Rule("chore.all_completed", a))
    BY <2>1, <2>2, <2>5, GoodRule DEF EventTypes, Fits
  <2> QED BY <2>3, <2>4 DEF AllGood
<1> QED BY <1>1, <1>2

\* What Load and NewEngine let pass.
Accepts(contents) ==
    /\ contents \in Configs
    /\ Validate(contents)
    /\ NewEngine(contents.rules)

LEMMA GeneratedAccepts ==
    ASSUME NEW answer \in Answers, NEW frame \in FramesFound(answer),
           Complete(answer, frame)
    PROVE  /\ Accepts(FileOf(answer, frame))
           /\ FileOf(answer, frame).event_buffer_size = 100
           /\ AllGood(FileOf(answer, frame).rules)
<1> DEFINE log == LogRules
           discord == ChatRules("discord", answer.discord)
           slack == ChatRules("slack", answer.slack)
           written == Written(answer, frame)
<1>1. /\ answer.interval # "notYAML"
      /\ MethodKeys(answer) \subseteq answer.given
      /\ frame # ""
      /\ answer.discord \in Urls
      /\ answer.slack \in Urls
  BY AnswersAssumption DEF Complete
<1>2. FileOf(answer, frame) = written /\ written \in Configs
  BY <1>1, FrameType, WrittenType DEF FileOf
<1>3. AllGood(log \o discord \o slack)
  <2>1. /\ log \in Seq(RuleConfigs) /\ discord \in Seq(RuleConfigs)
        /\ slack \in Seq(RuleConfigs)
    BY <1>1, LogRulesType, ChatRulesType
  <2>2. AllGood(log) /\ AllGood(discord) /\ AllGood(slack)
    BY <1>1, LogRulesGood, ChatRulesGood
  <2> HIDE DEF log, discord, slack
  <2>3. log \o discord \in Seq(RuleConfigs)
    BY <2>1, ConcatType
  <2> QED BY <2>1, <2>2, <2>3, ConcatGood
<1>4. /\ written.auth = MethodKeys(answer)
      /\ written.frame_id = frame
      /\ written.rules = log \o discord \o slack
      /\ written.event_buffer_size = 100
      /\ ~written.photo_sync.on
  BY <1>1 DEF Written, NoPhotos
<1> HIDE DEF written, log, discord, slack
<1>5. HasTokenAuth(written.auth) \/ HasRefreshAuth(written.auth)
  BY <1>4 DEF MethodKeys, HasTokenAuth, HasRefreshAuth
<1> QED
  BY <1>1, <1>2, <1>3, <1>4, <1>5, GoodAccepted DEF Accepts, Validate, ValidatePhotoSync

-----------------------------------------------------------------------------
(* The invariant.                                                          *)

Paired ==
    stage \in {"wiring", "starting", "running"} =>
        client \in {{"refresh_token", "device_fingerprint"}, {"user_id", "token"}}

Built == stage \in {"starting", "running"} => NewEngine(cfg.rules)

GeneratedFine == generated => Accepts(file) /\ file.event_buffer_size = 100

\* Both kinds of run judge a file alike, because neither looks at the flag.
Judged ==
    \A dry \in BOOLEAN : /\ verdict[dry] = "accepted" => Accepts(file)
                         /\ verdict[dry] = "rejected" => ~Accepts(file)

StartInv ==
    /\ TypeOK
    /\ Loaded
    /\ Paired
    /\ Built
    /\ PanicsOnlyForBuffer
    /\ GeneratedFine
    /\ Judged
    /\ FaultsFoundAtStart

LEMMA StartInvInit == Init => StartInv
<1> SUFFICES ASSUME Init PROVE StartInv
  OBVIOUS
<1>1. TypeOK
  <2>1. NoCall \in Calls
    BY DEF NoCall, Calls, EventTypes
  <2> QED
    BY <2>1, NoConfigType, ConfigAssumption DEF Init, TypeOK, Stages, Verdicts, NoVerdict
<1> QED
  BY <1>1 DEF Init, StartInv, Loaded, Paired, Built, PanicsOnlyForBuffer, GeneratedFine,
              Judged, NoVerdict, FaultsFoundAtStart, NoCall

\* The verdict of a file is forgotten with the file.
LEMMA ChangedKeepsInv ==
    ASSUME StartInv, stage = "down", NEW contents, NEW complete,
           Changed(contents, complete),
           complete => Accepts(contents) /\ contents.event_buffer_size = 100
    PROVE  /\ Loaded' /\ Paired' /\ Built' /\ PanicsOnlyForBuffer'
           /\ GeneratedFine' /\ Judged' /\ FaultsFoundAtStart'
<1>1. /\ stage' = "down" /\ call' = call /\ dryRun' = dryRun /\ file' = contents
      /\ generated' = complete /\ verdict' = NoVerdict
  BY DEF Changed
<1>2. Loaded' /\ Paired' /\ Built' /\ PanicsOnlyForBuffer'
  BY <1>1 DEF Loaded, Paired, Built, PanicsOnlyForBuffer
<1>3. GeneratedFine'
  BY <1>1 DEF GeneratedFine, Accepts
<1>4. Judged'
  BY <1>1 DEF Judged, NoVerdict
<1>5. call = NoCall
  BY DEF StartInv, TypeOK
<1>6. FaultsFoundAtStart'
  BY <1>1, <1>5 DEF FaultsFoundAtStart, NoCall
<1> QED BY <1>2, <1>3, <1>4, <1>6

LEMMA JudgeKeepsJudged ==
    ASSUME Judged, verdict \in [BOOLEAN -> Verdicts], dryRun \in BOOLEAN,
           NEW accepted \in BOOLEAN, NEW next, Judge(accepted, next), UNCHANGED file,
           ~accepted => ~Accepts(file)
    PROVE  Judged'
<1>1. Accepts(file)' = Accepts(file)
  BY DEF Accepts
<1>2. \A dry \in BOOLEAN :
          \/ verdict'[dry] = verdict[dry]
          \/ (verdict'[dry] = "rejected" /\ ~Accepts(file))
  BY DEF Judge
<1> QED BY <1>1, <1>2 DEF Judged

LEMMA LoadKeepsInv ==
    ASSUME StartInv, Load
    PROVE  Loaded' /\ Judged'
<1> DEFINE accepted == file \notin {Absent, Garbled} /\ Validate(file)
<1>1. /\ Judge(accepted, "connecting")
      /\ accepted \in BOOLEAN
      /\ cfg' = IF accepted THEN ApplyDefaults(file) ELSE cfg
      /\ UNCHANGED <<file, dryRun, client, generated, call>>
  BY DEF Load
<1>2. accepted => file \in Configs
  BY DEF StartInv, TypeOK
<1>3. ~accepted => ~Accepts(file)
  BY ConfigAssumption DEF Accepts
<1>4. Judged'
  BY <1>1, <1>3, JudgeKeepsJudged DEF StartInv, TypeOK
<1>5. Loaded'
  <2>1. CASE accepted
    BY <1>1, <1>2, <2>1 DEF Loaded, Validate, HasTokenAuth, HasRefreshAuth
  <2>2. CASE ~accepted
    BY <1>1, <2>2 DEF Loaded, Judge
  <2> QED BY <2>1, <2>2
<1> QED BY <1>4, <1>5

LEMMA ClientPaired ==
    ASSUME StartInv, BuildClient
    PROVE  Paired'
<1>1. file \in Configs /\ Validate(file) /\ cfg = ApplyDefaults(file)
  BY DEF StartInv, Loaded, BuildClient
<1>2. cfg.auth = file.auth
  BY <1>1, DefaultsKeep
<1>3. \/ {"user_id", "token"} \subseteq cfg.auth
      \/ {"refresh_token", "device_fingerprint"} \subseteq cfg.auth
  BY <1>1, <1>2 DEF Validate, HasTokenAuth, HasRefreshAuth
<1> QED BY <1>3 DEF BuildClient, Paired

LEMMA WireKeepsInv ==
    ASSUME StartInv, Wire
    PROVE  Loaded' /\ Paired' /\ Built' /\ PanicsOnlyForBuffer' /\ Judged'
<1>1. /\ file \in Configs /\ Validate(file) /\ cfg = ApplyDefaults(file)
      /\ UNCHANGED <<file, dryRun, cfg, client, generated, call>>
  BY DEF StartInv, Loaded, Wire
<1>2. cfg.rules = file.rules
  BY <1>1, DefaultsKeep
<1>3. Loaded'
  BY <1>1 DEF Loaded, Validate, HasTokenAuth, HasRefreshAuth
<1>4. Paired'
  BY DEF StartInv, Paired, Wire
<1>5. CASE cfg.event_buffer_size < 0
  <2>1. stage' = "panicked" /\ UNCHANGED verdict
    BY <1>5 DEF Wire
  <2>2. Judged'
    BY <1>1, <2>1 DEF StartInv, Judged, Accepts
  <2> QED BY <1>1, <1>3, <1>4, <1>5, <2>1, <2>2 DEF Built, PanicsOnlyForBuffer
<1>6. CASE ~(cfg.event_buffer_size < 0)
  <2>1. Judge(NewEngine(cfg.rules), "starting") /\ NewEngine(cfg.rules) \in BOOLEAN
    BY <1>6 DEF Wire, NewEngine
  <2>2. ~NewEngine(cfg.rules) => ~Accepts(file)
    BY <1>2 DEF Accepts
  <2>3. Judged'
    BY <1>1, <2>1, <2>2, JudgeKeepsJudged DEF StartInv, TypeOK
  <2>4. NewEngine(cfg.rules)' = NewEngine(cfg.rules)
    BY <1>1 DEF NewEngine, Build
  <2> QED BY <1>1, <1>3, <1>4, <2>1, <2>3, <2>4 DEF Judge, Built, PanicsOnlyForBuffer
<1> QED BY <1>5, <1>6

\* No interval is other than positive.
LEMMA PositiveDuration ==
    ASSUME NEW text, NEW default \in Nat \ {0}
    PROVE  ParseDurationWithDefault(text, default) > 0
<1>1. DurationOrDefault(text, default) \in Int
  BY DEF DurationOrDefault
<1> QED BY <1>1 DEF ParseDurationWithDefault

LEMMA StartKeepsInv ==
    ASSUME StartInv, StartLoops
    PROVE  Loaded' /\ Paired' /\ Built' /\ PanicsOnlyForBuffer' /\ Judged'
<1>1. /\ file \in Configs /\ Validate(file) /\ cfg = ApplyDefaults(file)
      /\ UNCHANGED <<file, dryRun, cfg, client, generated, call>>
  BY DEF StartInv, Loaded, StartLoops
<1>2. stage' = "running" /\ verdict' = [verdict EXCEPT ![dryRun] = "accepted"]
  BY PositiveDuration DEF StartLoops
<1>3. cfg.rules = file.rules
  BY <1>1, DefaultsKeep
<1>4. NewEngine(cfg.rules)
  BY DEF StartInv, Built, StartLoops
<1>5. Accepts(file)
  BY <1>1, <1>3, <1>4 DEF Accepts
<1>6. Accepts(file)'
  BY <1>1, <1>5 DEF Accepts
<1>7. Judged'
  <2>1. verdict \in [BOOLEAN -> Verdicts] /\ dryRun \in BOOLEAN /\ Judged
    BY DEF StartInv, TypeOK
  <2>2. \A dry \in BOOLEAN : verdict'[dry] = verdict[dry] \/ verdict'[dry] = "accepted"
    BY <1>2, <2>1
  <2> QED BY <1>5, <1>6, <2>1, <2>2 DEF Judged
<1>8. Loaded'
  BY <1>1 DEF Loaded, Validate, HasTokenAuth, HasRefreshAuth
<1>9. Paired'
  BY <1>1 DEF StartInv, Paired, StartLoops
<1>10. Built'
  BY <1>1, <1>4 DEF Built, NewEngine, Build
<1> QED BY <1>2, <1>7, <1>8, <1>9, <1>10 DEF PanicsOnlyForBuffer

LEMMA ExecuteKeepsInv ==
    ASSUME StartInv, NEW i \in DOMAIN cfg.rules,
           NEW j \in DOMAIN cfg.rules[i].actions, Execute(i, j)
    PROVE  FaultsFoundAtStart'
<1> DEFINE action == cfg.rules[i].actions[j]
           event == cfg.rules[i].event
           logged == action.type = "log" /\ Executes(action.template)
           shown == IF dryRun THEN {} ELSE Shown(action, event)
<1>1. PICK sent \in BOOLEAN, ok \in BOOLEAN :
          /\ sent <=> ~dryRun /\ Request(action)
          /\ ~sent => (ok <=> dryRun \/ logged)
          /\ call' = [rule |-> i, action |-> j, event |-> event, sent |-> sent, ok |-> ok,
                      shown |-> shown]
  BY DEF Execute, IsNoop
<1>2. /\ call'.rule = i /\ call'.action = j
      /\ call'.sent = sent /\ call'.ok = ok
  BY <1>1
<1>3. stage = "running" /\ UNCHANGED <<stage, dryRun, cfg>>
  BY DEF Execute
<1>5. Factory(action)
  BY <1>3 DEF StartInv, Built, NewEngine, Build
<1>6. action \in ActionConfigs
  BY CalledType DEF StartInv
<1>7. CalledAction' = action
  BY <1>2, <1>3 DEF CalledAction
<1>8. ASSUME ~sent, ~ok PROVE Unchecked(action)
  <2>1. ~Request(action) /\ ~logged
    BY <1>1, <1>8
  <2>2. /\ action.template.form \in {"", "broken", "failing", "fine"}
        /\ action.url \in Urls /\ action.webhook_url \in Urls
        /\ action.service \in {"", "plain", "domain.service"}
    BY <1>6 DEF ActionConfigs, Templates
  <2> HIDE DEF action
  <2> QED
    BY <1>5, <2>1, <2>2
       DEF Factory, Request, WebhookRequest, HomeAssistantRequest, ChatRequest,
           NewWebhookAction, NewHomeAssistantAction, NewChatAction, Unchecked, Executes,
           Urls, logged
<1>9. FaultsFoundAtStart'
  BY <1>2, <1>7, <1>8 DEF FaultsFoundAtStart
<1> QED BY <1>9

LEMMA StartInvPreserved == StartInv /\ [Next]_vars => StartInv'
<1> SUFFICES ASSUME StartInv, [Next]_vars PROVE StartInv'
  OBVIOUS
<1> DEFINE Rest == /\ Loaded /\ Paired /\ Built /\ PanicsOnlyForBuffer
                   /\ GeneratedFine /\ Judged /\ FaultsFoundAtStart
<1>1. CASE UNCHANGED vars
  <2>1. TypeOK'
    BY <1>1 DEF StartInv, TypeOK, vars
  <2>2. Loaded' /\ Paired' /\ Built' /\ PanicsOnlyForBuffer'
    BY <1>1 DEF StartInv, Loaded, Paired, Built, PanicsOnlyForBuffer, vars
  <2>3. GeneratedFine' /\ Judged'
    BY <1>1 DEF StartInv, GeneratedFine, Judged, Accepts, vars
  <2>4. FaultsFoundAtStart'
    BY <1>1 DEF StartInv, FaultsFoundAtStart, CalledAction, vars
  <2> QED BY <2>1, <2>2, <2>3, <2>4 DEF StartInv
<1>2. CASE Next
  <2>1. TypeOK'
    BY <1>2, TypePreserved DEF StartInv
  <2> SUFFICES Rest'
    BY <2>1 DEF StartInv
  <2>2. ASSUME NEW force \in BOOLEAN, Generate(force) PROVE Rest'
    <3>1. PICK answer \in Answers : \E frame \in FramesFound(answer) :
              \/ Changed(FileOf(answer, frame), Complete(answer, frame))
              \/ \E contents \in Torn(FileOf(answer, frame)) : Changed(contents, FALSE)
      BY <2>2 DEF Generate
    <3>2. PICK frame \in FramesFound(answer) :
              \/ Changed(FileOf(answer, frame), Complete(answer, frame))
              \/ \E contents \in Torn(FileOf(answer, frame)) : Changed(contents, FALSE)
      BY <3>1
    <3>3. stage = "down"
      BY <2>2 DEF Generate
    <3>4. CASE Changed(FileOf(answer, frame), Complete(answer, frame))
      <4>1. Complete(answer, frame) =>
                Accepts(FileOf(answer, frame)) /\ FileOf(answer, frame).event_buffer_size = 100
        BY GeneratedAccepts
      <4> QED BY <3>3, <3>4, <4>1, ChangedKeepsInv
    <3>5. CASE \E contents \in Torn(FileOf(answer, frame)) : Changed(contents, FALSE)
      BY <3>3, <3>5, ChangedKeepsInv
    <3> QED BY <3>2, <3>4, <3>5
  <2>3. CASE OpenInEditor
    <3>1. PICK contents \in {Garbled} \union UserConfigs : Changed(contents, FALSE)
      BY <2>3 DEF OpenInEditor
    <3> QED BY <2>3, <3>1, ChangedKeepsInv DEF OpenInEditor
  <2>4. ASSUME NEW dry \in BOOLEAN, Run(dry) PROVE Rest'
    <3>1. /\ stage = "down" /\ stage' = "loading" /\ dryRun' = dry
          /\ UNCHANGED <<file, cfg, client, generated, verdict, call>>
      BY <2>4 DEF Run
    <3>2. call = NoCall
      BY <3>1 DEF StartInv, TypeOK
    <3>3. Loaded' /\ Paired' /\ Built' /\ PanicsOnlyForBuffer'
      BY <3>1 DEF Loaded, Paired, Built, PanicsOnlyForBuffer
    <3>4. GeneratedFine' /\ Judged'
      BY <3>1 DEF StartInv, GeneratedFine, Judged, Accepts
    <3>5. FaultsFoundAtStart'
      BY <3>1, <3>2 DEF FaultsFoundAtStart, NoCall
    <3> QED BY <3>3, <3>4, <3>5
  <2>5. CASE Load \/ BuildClient \/ Wire \/ StartLoops
    <3>1. /\ call = NoCall
          /\ UNCHANGED <<file, dryRun, generated, call>>
      BY <2>5 DEF Load, BuildClient, Wire, StartLoops, StartInv, TypeOK
    <3>2. FaultsFoundAtStart'
      BY <3>1 DEF FaultsFoundAtStart, NoCall
    <3>3. GeneratedFine'
      BY <3>1 DEF StartInv, GeneratedFine, Accepts
    <3>4. CASE Load
      <4>1. stage' \in {"connecting", "failed"}
        BY <3>4 DEF Load, Judge
      <4> QED
        BY <3>2, <3>3, <3>4, <4>1, LoadKeepsInv DEF Paired, Built, PanicsOnlyForBuffer
    <3>5. CASE BuildClient
      <4>1. /\ stage = "connecting" /\ stage' \in {"wiring", "failed"}
            /\ UNCHANGED <<file, cfg, verdict>>
        BY <3>5 DEF BuildClient
      <4>2. Loaded' /\ Judged'
        BY <4>1 DEF StartInv, Loaded, Judged, Accepts, Validate, HasTokenAuth,
                    HasRefreshAuth
      <4> QED
        BY <3>2, <3>3, <3>5, <4>1, <4>2, ClientPaired DEF Built, PanicsOnlyForBuffer
    <3>6. CASE Wire
      BY <3>2, <3>3, <3>6, WireKeepsInv
    <3>7. CASE StartLoops
      BY <3>2, <3>3, <3>7, StartKeepsInv
    <3> QED BY <2>5, <3>4, <3>5, <3>6, <3>7
  <2>6. ASSUME NEW i \in DOMAIN cfg.rules, NEW j \in DOMAIN cfg.rules[i].actions,
               Execute(i, j)
        PROVE  Rest'
    <3>1. /\ UNCHANGED <<file, stage, dryRun, cfg, client, generated, verdict>>
          /\ stage = "running"
      BY <2>6 DEF Execute
    <3>2. Loaded' /\ Paired' /\ Built' /\ PanicsOnlyForBuffer'
      BY <3>1 DEF StartInv, Loaded, Paired, Built, PanicsOnlyForBuffer
    <3>3. GeneratedFine' /\ Judged'
      BY <3>1 DEF StartInv, GeneratedFine, Judged, Accepts
    <3> QED BY <2>6, <3>2, <3>3, ExecuteKeepsInv
  <2>7. CASE End
    <3>1. /\ stage' = "down" /\ call' = NoCall
          /\ UNCHANGED <<file, dryRun, generated, verdict>>
      BY <2>7 DEF End
    <3>2. Loaded' /\ Paired' /\ Built' /\ PanicsOnlyForBuffer'
      BY <3>1 DEF Loaded, Paired, Built, PanicsOnlyForBuffer
    <3>3. GeneratedFine' /\ Judged'
      BY <3>1 DEF StartInv, GeneratedFine, Judged, Accepts
    <3>4. FaultsFoundAtStart'
      BY <3>1 DEF FaultsFoundAtStart, NoCall
    <3> QED BY <3>2, <3>3, <3>4
  <2> HIDE DEF Rest
  <2> QED BY <1>2, <2>2, <2>3, <2>4, <2>5, <2>6, <2>7 DEF Next
<1> QED BY <1>1, <1>2

\* The invariant of a start, from which the results below follow.
THEOREM StartInvariant == Spec => []StartInv
BY StartInvInit, StartInvPreserved, PTL DEF Spec

-----------------------------------------------------------------------------
(* What follows from it.                                                   *)

\* Whatever was written or answered, the state has its types, and a call is for
\* an action of the configuration and an event the detector makes.
THEOREM StartupTypeCorrect == Spec => []TypeOK
<1>1. StartInv => TypeOK
  BY DEF StartInv
<1> QED BY <1>1, StartInvariant, PTL

\* What validate lets pass is enough for the client, the poller and the syncer.
THEOREM StartIsComplete == Spec => []StartedWithAll
<1>1. StartInv => StartedWithAll
  <2> SUFFICES ASSUME StartInv, stage \in {"wiring", "starting", "running"}
               PROVE  /\ client \in {{"refresh_token", "device_fingerprint"},
                                     {"user_id", "token"}}
                      /\ cfg.frame_id # ""
                      /\ cfg.photo_sync.on => /\ cfg.photo_sync.watch_folder
                                              /\ cfg.photo_sync.frame_id # ""
    BY DEF StartedWithAll
  <2>1. file \in Configs /\ Validate(file) /\ cfg = ApplyDefaults(file)
    BY DEF StartInv, Loaded
  <2>2. client \in {{"refresh_token", "device_fingerprint"}, {"user_id", "token"}}
    BY DEF StartInv, Paired
  <2>3. file.frame_id # "" /\ (file.photo_sync.on => file.photo_sync.watch_folder)
    BY <2>1 DEF Validate, ValidatePhotoSync
  <2> QED BY <2>1, <2>2, <2>3, DefaultsKeep
<1> QED BY <1>1, StartInvariant, PTL

\* Neither ticker can panic, for any text given as an interval.
THEOREM OnlyBufferPanics == Spec => []PanicsOnlyForBuffer
<1>1. StartInv => PanicsOnlyForBuffer
  BY DEF StartInv
<1> QED BY <1>1, StartInvariant, PTL

\* Complete answers make a file that is accepted, for any frames and answers.
THEOREM GeneratedIsAccepted == Spec => []GeneratedAccepted
<1>1. StartInv => GeneratedAccepted
  <2> SUFFICES ASSUME StartInv, generated
               PROVE  stage # "panicked" /\ \A dry \in BOOLEAN : verdict[dry] # "rejected"
    BY DEF GeneratedAccepted
  <2>1. Accepts(file) /\ file.event_buffer_size = 100
    BY DEF StartInv, GeneratedFine
  <2>2. \A dry \in BOOLEAN : verdict[dry] # "rejected"
    BY <2>1 DEF StartInv, Judged
  <2>3. stage # "panicked"
    <3> SUFFICES ASSUME stage = "panicked" PROVE FALSE
      OBVIOUS
    <3>1. file \in Configs /\ cfg = ApplyDefaults(file) /\ cfg.event_buffer_size < 0
      BY DEF StartInv, Loaded, PanicsOnlyForBuffer
    <3>2. file.event_buffer_size < 0
      BY <3>1, DefaultsKeep
    <3> QED BY <2>1, <3>2
  <2> QED BY <2>2, <2>3
<1> QED BY <1>1, StartInvariant, PTL

\* A dry run accepts a file exactly if a real one does.
THEOREM DryRunIsValidation == Spec => []DryRunPredicts
<1>1. StartInv => DryRunPredicts
  BY DEF StartInv, Judged, DryRunPredicts
<1> QED BY <1>1, StartInvariant, PTL

\* The factories find every fault of an action but four.
THEOREM OnlyFourFaultsLate == Spec => []FaultsFoundAtStart
<1>1. StartInv => FaultsFoundAtStart
  BY DEF StartInv
<1> QED BY <1>1, StartInvariant, PTL

-----------------------------------------------------------------------------
(* The messages.                                                           *)

\* What the generator writes fits its events.
FilledInv ==
    /\ generated => AllGood(file.rules)
    /\ MessagesFilled

LEMMA ShownFits ==
    ASSUME NEW action, NEW event \in EventTypes, Fits(action, event)
    PROVE  Shown(action, event) \subseteq Data(event)
<1>1. FormatDefaultMessage(event) \subseteq Data(event)
  BY DEF EventTypes, FormatDefaultMessage, Data
<1> QED BY <1>1 DEF Shown, Fits

LEMMA ExecuteFilled ==
    ASSUME StartInv, FilledInv, NEW i \in DOMAIN cfg.rules,
           NEW j \in DOMAIN cfg.rules[i].actions, Execute(i, j)
    PROVE  FilledInv'
<1> DEFINE action == cfg.rules[i].actions[j]
           event == cfg.rules[i].event
<1>1. PICK sent \in BOOLEAN, ok \in BOOLEAN :
          call' = [rule |-> i, action |-> j, event |-> event, sent |-> sent, ok |-> ok,
                   shown |-> IF dryRun THEN {} ELSE Shown(action, event)]
  BY DEF Execute, IsNoop
<1>2. /\ call'.event = event /\ call'.rule = i /\ call'.action = j
      /\ call'.shown \subseteq Shown(action, event)
  BY <1>1
<1>3. stage = "running" /\ UNCHANGED <<file, cfg, generated>>
  BY DEF Execute
<1>4. CalledAction' = action
  BY <1>2, <1>3 DEF CalledAction
<1>5. event \in EventTypes
  BY <1>3, CalledEvent DEF StartInv
<1>6. file.rules = cfg.rules
  BY <1>3, DefaultsKeep DEF StartInv, Loaded
<1>7. generated => Fits(action, event)
  BY <1>6 DEF FilledInv, AllGood, Good
<1>8. action.template.form = "" => Fits(action, event)
  BY DEF Fits
<1> HIDE DEF action, event
<1>9. MessagesFilled'
  BY <1>2, <1>3, <1>4, <1>5, <1>7, <1>8, ShownFits DEF MessagesFilled
<1> QED BY <1>3, <1>9 DEF FilledInv

LEMMA FilledNext == StartInv /\ FilledInv /\ [Next]_vars => FilledInv'
<1> SUFFICES ASSUME StartInv, FilledInv, [Next]_vars PROVE FilledInv'
  OBVIOUS
<1>1. ASSUME NEW contents, NEW complete, stage = "down", Changed(contents, complete),
             complete => AllGood(contents.rules)
      PROVE  FilledInv'
  <2>1. call = NoCall
    BY <1>1 DEF StartInv, TypeOK
  <2> QED BY <1>1, <2>1 DEF Changed, FilledInv, MessagesFilled
<1>2. ASSUME NEW force \in BOOLEAN, Generate(force) PROVE FilledInv'
  <2>1. PICK answer \in Answers : \E frame \in FramesFound(answer) :
            \/ Changed(FileOf(answer, frame), Complete(answer, frame))
            \/ \E contents \in Torn(FileOf(answer, frame)) : Changed(contents, FALSE)
    BY <1>2 DEF Generate
  <2>2. PICK frame \in FramesFound(answer) :
            \/ Changed(FileOf(answer, frame), Complete(answer, frame))
            \/ \E contents \in Torn(FileOf(answer, frame)) : Changed(contents, FALSE)
    BY <2>1
  <2>3. stage = "down"
    BY <1>2 DEF Generate
  <2>4. Complete(answer, frame) => AllGood(FileOf(answer, frame).rules)
    BY GeneratedAccepts
  <2> QED BY <1>1, <2>2, <2>3, <2>4
<1>3. CASE OpenInEditor
  BY <1>1, <1>3 DEF OpenInEditor
<1>4. CASE UNCHANGED <<file, generated, call>> /\ (call = NoCall \/ UNCHANGED cfg)
  BY <1>4 DEF FilledInv, MessagesFilled, CalledAction
<1>5. CASE Load \/ BuildClient \/ Wire \/ StartLoops \/ \E dry \in BOOLEAN : Run(dry)
  <2>1. stage # "running"
    BY <1>5 DEF Load, BuildClient, Wire, StartLoops, Run
  <2>2. call = NoCall
    BY <2>1 DEF StartInv, TypeOK
  <2> QED BY <1>4, <1>5, <2>2 DEF Load, BuildClient, Wire, StartLoops, Run
<1>6. CASE End
  BY <1>6 DEF End, FilledInv, MessagesFilled
<1>7. CASE UNCHANGED vars
  BY <1>4, <1>7 DEF vars
<1> QED BY <1>2, <1>3, <1>5, <1>6, <1>7, ExecuteFilled DEF Next

\* No default message and no generated one shows a field its event lacks, for
\* any answers to the generator and any configuration.
THEOREM NoFieldMissing == Spec => []MessagesFilled
<1>1. Init => FilledInv
  BY DEF Init, FilledInv, MessagesFilled
<1>2. FilledInv => MessagesFilled
  BY DEF FilledInv
<1> QED BY <1>1, <1>2, FilledNext, StartInvariant, PTL DEF Spec

=============================================================================
