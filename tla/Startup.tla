------------------------------ MODULE Startup ------------------------------
(***************************************************************************)
(* What a configuration goes through: written by the generator of          *)
(* config/generate.go or by hand, loaded and validated by config/config.go,*)
(* turned into a client, a server and rules by main.go with the factories  *)
(* under action/, and met again when an action is executed.  A text is     *)
(* represented by the answers to what the code asks of it, and a file is   *)
(* read once, so it changes only while no process runs.  generated,        *)
(* verdict and call are history variables.                                 *)
(***************************************************************************)
EXTENDS Integers, Sequences

CONSTANTS
    FrameIds,     \* texts for a frame id, the empty one among them
    Frames,       \* the frame ids of the account, as ListFrames lists them
    Answers,      \* what people answer to the generator's prompts
    UserConfigs,  \* what people write by hand
    Absent,       \* there is no configuration file
    Garbled       \* a file that is not YAML, or not that of a Config

EventTypes == {"chore.completed", "chore.uncompleted", "chore.all_completed",
               "reward.redeemed"}

\* The keys of Event.Data.
Data(event) ==
    CASE event \in {"chore.completed", "chore.uncompleted"} ->
             {"chore_id", "chore_title", "assignee_id", "assignee_name",
              "points", "due_date"}
      [] event = "chore.all_completed" ->
             {"assignee_id", "assignee_name", "date", "chore_count", "total_points"}
      [] event = "reward.redeemed" ->
             {"reward_id", "reward_title", "category_id", "child_name", "points",
              "emoji_icon"}

Durations == {"", "junk", "negative", "zero", "positive"}

\* http: an http or https URL with a host; other: any other text.
Urls == {"", "other", "http"}

\* message or body_template.  broken: does not parse; failing: parses and
\* cannot be executed; reads: the fields it shows.
Templates == [form : {"", "broken", "failing", "fine"},
              reads : SUBSET UNION {Data(t) : t \in EventTypes}]

NoTemplate == [form |-> "", reads |-> {}]

\* badRequest: a method, header, service, webhook_id or token that is no part
\* of a request net/http accepts.
ActionConfigs ==
    [type : {"", "log", "webhook", "homeassistant", "discord", "slack", "other"},
     url : Urls, webhook_url : Urls, template : Templates,
     service : {"", "plain", "domain.service"}, webhook_id : BOOLEAN,
     badRequest : BOOLEAN]

NoAction == [type |-> "", url |-> "", webhook_url |-> "", template |-> NoTemplate,
             service |-> "", webhook_id |-> FALSE, badRequest |-> FALSE]

RuleConfigs == [named : BOOLEAN, event : EventTypes \union {"", "other"},
                actions : Seq(ActionConfigs)]

PhotoConfigs == [on : BOOLEAN, watch_folder : BOOLEAN, frame_id : FrameIds,
                 sync_interval : Durations]

NoPhotos == [on |-> FALSE, watch_folder |-> FALSE, frame_id |-> "",
             sync_interval |-> ""]

CredentialKeys == {"email", "password", "user_id", "token", "refresh_token",
                   "device_fingerprint"}

\* auth: the credentials that are given.
Configs == [auth : SUBSET CredentialKeys, frame_id : FrameIds, interval : Durations,
            event_buffer_size : Int, rules : Seq(RuleConfigs),
            photo_sync : PhotoConfigs]

NoConfig == [auth |-> {}, frame_id |-> "", interval |-> "",
             event_buffer_size |-> 0, rules |-> << >>, photo_sync |-> NoPhotos]

ASSUME ConfigAssumption ==
    /\ "" \in FrameIds
    /\ Frames \in Seq(FrameIds \ {""})
    /\ UserConfigs \subseteq Configs
    /\ Absent \notin Configs /\ Garbled \notin Configs

\* given: the credentials that are not left blank; choice: what Sscanf makes
\* of the answer when there are several frames, 0 for none.
ASSUME AnswersAssumption ==
    Answers \subseteq
        [method : {"token", "refresh"}, given : SUBSET CredentialKeys,
         choice : Int, frame_id : FrameIds, interval : Durations \union {"notYAML"},
         discord : Urls, slack : Urls]

VARIABLES
    file,       \* the configuration file
    stage,      \* how far main has come; "down": no process
    dryRun,     \* the flag --dry-run
    cfg,        \* the configuration loaded
    client,     \* the credentials the API client was made from
    generated,  \* the file is what the generator made of complete answers
    verdict,    \* with and without --dry-run: what became of this file
    call        \* the last Execute of an action

vars == <<file, stage, dryRun, cfg, client, generated, verdict, call>>

Stages == {"down", "loading", "connecting", "wiring", "starting", "running",
           "failed", "panicked"}

Verdicts == {"none", "accepted", "rejected"}

\* rule, action: the positions in cfg; event: what the action was called for,
\* which is an event the detector makes.
\* shown: the fields of the event that the message or body shows.
Calls == [rule : Nat, action : Nat, event : EventTypes, sent : BOOLEAN,
          ok : BOOLEAN, shown : SUBSET UNION {Data(t) : t \in EventTypes}]

NoCall == [rule |-> 0, action |-> 0, event |-> "chore.completed",
           sent |-> FALSE, ok |-> TRUE, shown |-> {}]

TypeOK ==
    /\ file \in {Absent, Garbled} \union Configs
    /\ stage \in Stages
    /\ dryRun \in BOOLEAN
    /\ cfg \in Configs
    /\ client \subseteq CredentialKeys
    /\ generated \in BOOLEAN
    /\ verdict \in [BOOLEAN -> Verdicts]
    /\ call \in Calls
    /\ call # NoCall => /\ stage = "running"
                        /\ call.rule \in DOMAIN cfg.rules
                        /\ call.action \in DOMAIN cfg.rules[call.rule].actions

NoVerdict == [dry \in BOOLEAN |-> "none"]

Init ==
    /\ file \in {Absent, Garbled} \union UserConfigs
    /\ stage = "down"
    /\ dryRun = FALSE
    /\ cfg = NoConfig
    /\ client = {}
    /\ generated = FALSE
    /\ verdict = NoVerdict
    /\ call = NoCall

-----------------------------------------------------------------------------
(* config/generate.go.                                                     *)

\* The keys of the method's auth block; what was left blank stays empty.
MethodKeys(answer) ==
    IF answer.method = "token" THEN {"user_id", "token"}
    ELSE {"refresh_token", "device_fingerprint"}

\* discoverFrame with an account of these frames: the only one, or the chosen.
DiscoverFrame(answer, frames) ==
    IF Len(frames) > 1 /\ answer.choice \in DOMAIN frames
    THEN frames[answer.choice]
    ELSE frames[1]

\* Client or ListFrames failed, or there are no frames: asked for instead.
FramesFound(answer) ==
    {answer.frame_id} \union
        IF Frames = << >> THEN {} ELSE {DiscoverFrame(answer, Frames)}

Rule(event, action) == [named |-> TRUE, event |-> event, actions |-> <<action>>]

\* Mutant: one of the messages is used for another event.
LogTemplateOfKids == [form |-> "fine", reads |-> {"child_name", "chore_title"}]

LogTemplate == [form |-> "fine", reads |-> {"assignee_name", "chore_title"}]

LogRules ==
    <<Rule("chore.completed", [NoAction EXCEPT !.type = "log",
                                               !.template = LogTemplate]),
      Rule("reward.redeemed", [NoAction EXCEPT !.type = "log"])>>

\* Mutant: the URL goes under the key that the webhook action uses.
ChatRulesWithUrl(type, url) ==
    LET action == [NoAction EXCEPT !.type = type, !.url = url]
    IN  IF url = "" THEN << >>
        ELSE <<Rule("chore.completed", action), Rule("reward.redeemed", action),
               Rule("chore.all_completed", action)>>

\* The three rules for a chat service, if its URL was given.
ChatRules(type, url) ==
    LET action == [NoAction EXCEPT !.type = type, !.webhook_url = url]
    IN  IF url = "" THEN << >>
        ELSE <<Rule("chore.completed", action), Rule("reward.redeemed", action),
               Rule("chore.all_completed", action)>>

\* A blank interval is answered with the default.  The rule for Home Assistant
\* is written as a comment.
Written(answer, frame) ==
    [auth |-> answer.given \intersect MethodKeys(answer),
     frame_id |-> frame,
     interval |-> IF answer.interval = "" THEN "positive" ELSE answer.interval,
     event_buffer_size |-> 100,
     rules |-> LogRules \o ChatRules("discord", answer.discord)
                        \o ChatRules("slack", answer.slack),
     photo_sync |-> NoPhotos]

\* The interval is written without quotes and may not be YAML.
FileOf(answer, frame) ==
    IF answer.interval = "notYAML" THEN Garbled ELSE Written(answer, frame)

Complete(answer, frame) ==
    /\ MethodKeys(answer) \subseteq answer.given
    /\ frame # ""
    /\ answer.interval # "notYAML"

\* WriteFile empties the file and may fail: the file is then a beginning of the
\* text.  It ends before the rules, among the credentials, in the interval or
\* in the buffer size...
TornHeads(c) ==
    {[NoConfig EXCEPT !.auth = keys] :
        keys \in {{}, c.auth \ {"token", "device_fingerprint"}, c.auth}}
    \union {[NoConfig EXCEPT !.auth = c.auth, !.frame_id = c.frame_id, !.interval = d] :
               d \in Durations}
    \union {[c EXCEPT !.rules = << >>, !.event_buffer_size = n] : n \in {0, 1, 10}}

\* ... in a rule, before or in its name, its event or its action's type, or
\* before its action's configuration...
TornRules(rule) ==
    {[named |-> FALSE, event |-> "", actions |-> << >>]}
    \union {[rule EXCEPT !.event = e, !.actions = << >>] : e \in {"", "other", rule.event}}
    \union {[rule EXCEPT !.actions = <<[NoAction EXCEPT !.type = t]>>] :
               t \in {"", "other"} \union {rule.actions[j].type : j \in DOMAIN rule.actions}}

\* ... after a rule, or in a quoted text, which is not YAML.
Torn(contents) ==
    {Garbled} \union
        IF contents = Garbled THEN {}
        ELSE TornHeads(contents) \union
             UNION {LET first == SubSeq(contents.rules, 1, n)
                    IN  {[contents EXCEPT !.rules = rules] :
                            rules \in {first} \union
                                {Append(first, torn) :
                                    torn \in TornRules(contents.rules[n + 1])}} :
                       n \in 0..(Len(contents.rules) - 1)}

Changed(contents, complete) ==
    /\ file' = contents
    /\ generated' = complete
    /\ verdict' = NoVerdict
    /\ UNCHANGED <<stage, dryRun, cfg, client, call>>

\* --generate-config, with --force or without a file.
Generate(force) ==
    /\ stage = "down"
    /\ force \/ file = Absent
    /\ \E answer \in Answers : \E frame \in FramesFound(answer) :
           \/ Changed(FileOf(answer, frame), Complete(answer, frame))
           \/ \E contents \in Torn(FileOf(answer, frame)) : Changed(contents, FALSE)

\* The file exists: --generate-config opens it in the editor.
OpenInEditor ==
    /\ stage = "down"
    /\ file # Absent
    /\ \E contents \in {Garbled} \union UserConfigs : Changed(contents, FALSE)

-----------------------------------------------------------------------------
(* config/config.go.                                                       *)

HasTokenAuth(auth) == {"user_id", "token"} \subseteq auth

\* Mutant: half of the credentials is enough.
HasEitherRefreshAuth(auth) == {"refresh_token", "device_fingerprint"} \intersect auth # {}

HasRefreshAuth(auth) == {"refresh_token", "device_fingerprint"} \subseteq auth

\* Mutant: an event type that does not exist is not noticed.
ValidateRulesForAnyEvent(rules) ==
    \A i \in DOMAIN rules :
        /\ rules[i].named
        /\ rules[i].event # ""
        /\ rules[i].actions # << >>
        /\ \A j \in DOMAIN rules[i].actions : rules[i].actions[j].type # ""

ValidateRules(rules) ==
    \A i \in DOMAIN rules :
        /\ rules[i].named
        /\ rules[i].event \in EventTypes
        /\ rules[i].actions # << >>
        /\ \A j \in DOMAIN rules[i].actions : rules[i].actions[j].type # ""

ValidatePhotoSync(photo) == photo.on => photo.watch_folder

\* email and password only change the wording of the error.
Validate(c) ==
    /\ HasTokenAuth(c.auth) \/ HasRefreshAuth(c.auth)
    /\ c.frame_id # ""
    /\ ValidatePhotoSync(c.photo_sync)
    /\ ValidateRules(c.rules)

ApplyDefaults(c) ==
    [c EXCEPT
        !.event_buffer_size = IF @ = 0 THEN 100 ELSE @,
        !.photo_sync.frame_id = IF c.photo_sync.on /\ @ = "" THEN c.frame_id ELSE @]

\* confkit: the default stands in for what is empty or not a duration.
DurationOrDefault(text, default) ==
    CASE text = "negative" -> -1
      [] text = "zero" -> 0
      [] text = "positive" -> 5
      [] OTHER -> default

\* Mutant: a duration is taken as it is.
ParseDurationUnchecked(text, default) == DurationOrDefault(text, default)

ParseDurationWithDefault(text, default) ==
    IF DurationOrDefault(text, default) <= 0 THEN default
    ELSE DurationOrDefault(text, default)

-----------------------------------------------------------------------------
(* The factories and NewEngine.                                            *)

Parses(template) == template.form # "broken"

\* Mutant: a webhook takes any URL that is not empty.
WebhookWithAnyUrl(action) ==
    /\ action.url # ""
    /\ Parses(action.template)

NewWebhookAction(action) ==
    /\ action.url = "http"
    /\ Parses(action.template)

NewHomeAssistantAction(action) ==
    /\ action.url = "http"
    /\ action.service # "" \/ action.webhook_id

NewChatAction(action) ==
    /\ action.webhook_url # ""
    /\ Parses(action.template)

\* The factory of the type exists and takes the configuration.
Factory(action) ==
    \/ action.type = "log" /\ Parses(action.template)
    \/ action.type = "webhook" /\ NewWebhookAction(action)
    \/ action.type = "homeassistant" /\ NewHomeAssistantAction(action)
    \/ action.type \in {"discord", "slack"} /\ NewChatAction(action)

\* Mutant: a dry run does not call the factory.
BuildUnlessDry(action) == dryRun \/ Factory(action)

\* WrapDryRun calls the factory too.
Build(action) == Factory(action)

NewEngine(rules) ==
    \A i \in DOMAIN rules :
        \A j \in DOMAIN rules[i].actions : Build(rules[i].actions[j])

-----------------------------------------------------------------------------
(* main.                                                                   *)

Run(dry) ==
    /\ stage = "down"
    /\ stage' = "loading"
    /\ dryRun' = dry
    /\ UNCHANGED <<file, cfg, client, generated, verdict, call>>

\* The stage after a check of the configuration.
Judge(accepted, next) ==
    /\ stage' = IF accepted THEN next ELSE "failed"
    /\ verdict' = IF accepted THEN verdict
                  ELSE [verdict EXCEPT ![dryRun] = "rejected"]

Load ==
    /\ stage = "loading"
    /\ LET accepted == file \notin {Absent, Garbled} /\ Validate(file)
       IN  /\ Judge(accepted, "connecting")
           /\ cfg' = IF accepted THEN ApplyDefaults(file) ELSE cfg
    /\ UNCHANGED <<file, dryRun, client, generated, call>>

\* buildClient, which the API may refuse.
BuildClient ==
    /\ stage = "connecting"
    /\ client' = cfg.auth \intersect
           IF {"refresh_token", "device_fingerprint"} \subseteq cfg.auth
           THEN {"refresh_token", "device_fingerprint"}
           ELSE {"user_id", "token"}
    /\ stage' \in {"wiring", "failed"}
    /\ UNCHANGED <<file, dryRun, cfg, generated, verdict, call>>

\* server.New makes the ring buffer, which panics for a negative size.
Wire ==
    /\ stage = "wiring"
    /\ IF cfg.event_buffer_size < 0
       THEN stage' = "panicked" /\ UNCHANGED verdict
       ELSE Judge(NewEngine(cfg.rules), "starting")
    /\ UNCHANGED <<file, dryRun, cfg, client, generated, call>>

\* Both loops make a ticker, which panics unless its interval is positive.
StartLoops ==
    /\ stage = "starting"
    /\ LET intervals ==
               {ParseDurationWithDefault(cfg.interval, 30)} \union
               IF cfg.photo_sync.on
               THEN {ParseDurationWithDefault(cfg.photo_sync.sync_interval, 60)}
               ELSE {}
       IN  IF \A d \in intervals : d > 0
           THEN /\ stage' = "running"
                /\ verdict' = [verdict EXCEPT ![dryRun] = "accepted"]
           ELSE stage' = "panicked" /\ UNCHANGED verdict
    /\ UNCHANGED <<file, dryRun, cfg, client, generated, call>>

\* Main returns after a signal, or has exited already.
End ==
    /\ stage \in {"running", "failed", "panicked"}
    /\ stage' = "down"
    /\ cfg' = NoConfig
    /\ client' = {}
    /\ call' = NoCall
    /\ UNCHANGED <<file, dryRun, generated, verdict>>

-----------------------------------------------------------------------------
(* Execute.                                                                *)

Executes(template) == template.form # "failing"

\* The request can be built from the configuration and is a HTTP request.
WebhookRequest(action) ==
    Executes(action.template) /\ ~action.badRequest /\ action.url = "http"

\* callWebhook if there is a webhook_id, else callService.
HomeAssistantRequest(action) ==
    /\ action.url = "http" /\ ~action.badRequest
    /\ action.webhook_id \/ action.service = "domain.service"

ChatRequest(action) ==
    Executes(action.template) /\ action.webhook_url = "http"

Request(action) ==
    \/ action.type = "webhook" /\ WebhookRequest(action)
    \/ action.type = "homeassistant" /\ HomeAssistantRequest(action)
    \/ action.type \in {"discord", "slack"} /\ ChatRequest(action)

\* buildFactories wraps every factory.
IsNoop == dryRun

FormatDefaultMessage(event) ==
    CASE event \in {"chore.completed", "chore.uncompleted"} ->
             {"assignee_name", "chore_title"}
      [] event = "chore.all_completed" ->
             {"assignee_name", "chore_count", "total_points"}
      [] event = "reward.redeemed" -> {"child_name", "reward_title", "points"}

\* A log entry or webhook without a template takes the event as it is.
Shown(action, event) ==
    CASE action.type = "homeassistant" -> {}
      [] action.template.form = "fine" -> action.template.reads
      [] action.type \in {"discord", "slack"} /\ action.template.form = "" ->
             FormatDefaultMessage(event)
      [] OTHER -> {}

\* HandleEvent calls an action of a rule for the event; the far end of a
\* request may refuse it.
Execute(i, j) ==
    LET action == cfg.rules[i].actions[j]
        event == cfg.rules[i].event
        noop == IsNoop
        logged == action.type = "log" /\ Executes(action.template)
    IN  /\ stage = "running"
        /\ \E sent, ok \in BOOLEAN :
               /\ sent <=> ~noop /\ Request(action)
               /\ ~sent => (ok <=> noop \/ logged)
               /\ call' = [rule |-> i, action |-> j, event |-> event,
                           sent |-> sent, ok |-> ok,
                           shown |-> IF noop THEN {} ELSE Shown(action, event)]
        /\ UNCHANGED <<file, stage, dryRun, cfg, client, generated, verdict>>

Next ==
    \/ \E force \in BOOLEAN : Generate(force)
    \/ OpenInEditor
    \/ \E dry \in BOOLEAN : Run(dry)
    \/ Load
    \/ BuildClient
    \/ Wire
    \/ StartLoops
    \/ \E i \in DOMAIN cfg.rules : \E j \in DOMAIN cfg.rules[i].actions : Execute(i, j)
    \/ End

Spec == Init /\ [][Next]_vars

-----------------------------------------------------------------------------
(* Properties.                                                             *)

\* What validate lets pass is enough for what follows: whichever of the two
\* pairs buildClient picks is complete, the poller has a frame, and the photo
\* syncer has a folder and, given or inherited, a frame.
StartedWithAll ==
    stage \in {"wiring", "starting", "running"} =>
        /\ client \in {{"refresh_token", "device_fingerprint"}, {"user_id", "token"}}
        /\ cfg.frame_id # ""
        /\ cfg.photo_sync.on => cfg.photo_sync.watch_folder /\ cfg.photo_sync.frame_id # ""

\* No text for an interval, however wrong, makes a ticker panic in the polling
\* or the syncing goroutine: only a negative event_buffer_size ends a start so.
PanicsOnlyForBuffer == stage = "panicked" => cfg.event_buffer_size < 0

\* A file that the generator has written completely, from answers that leave
\* no credential and no frame blank, is accepted by the validation and by the
\* factories of its actions, as long as nobody edits it.
GeneratedAccepted ==
    generated => stage # "panicked" /\ \A dry \in BOOLEAN : verdict[dry] # "rejected"

\* --dry-run is to "validate config" (main.go): the same file is never accepted
\* with the flag and rejected without it, or the other way round.
DryRunPredicts ==
    \A dry \in BOOLEAN : ~(verdict[dry] = "accepted" /\ verdict[~dry] = "rejected")

CalledAction == cfg.rules[call.rule].actions[call.action]

\* The faults of an action that no factory looks for.
Unchecked(action) ==
    \/ action.template.form = "failing"
    \/ action.type \in {"webhook", "homeassistant"} /\ action.badRequest
    \/ action.type = "homeassistant" /\ action.service = "plain"
    \/ action.type \in {"discord", "slack"} /\ action.webhook_url = "other"

\* A call that fails before any request leaves fails for every event, although
\* the bridge has started: this happens for no other faults than these four.
FaultsFoundAtStart ==
    (call # NoCall /\ ~call.sent /\ ~call.ok) => Unchecked(CalledAction)

\* The default messages and the generator's template show only fields that
\* the detector gives to the events they are used for.
MessagesFilled ==
    (call # NoCall /\ (generated \/ CalledAction.template.form = "")) =>
        call.shown \subseteq Data(call.event)

=============================================================================
