----------------------------- MODULE MCStartup -----------------------------
(***************************************************************************)
(* Configurations and answers for TLC.  The code looks at one part of a    *)
(* configuration at a time, so each part is varied with the others kept.   *)
(***************************************************************************)
EXTENDS Startup, TLC

TwoFrames == <<"frame1", "frame2">>

Fine == [form |-> "fine", reads |-> {"assignee_name", "date"}]

SomeTemplates == {NoTemplate, Fine, [Fine EXCEPT !.form = "broken"],
                  [Fine EXCEPT !.form = "failing"]}

\* Each type with every value of the keys it reads, and types without factory.
SomeActions ==
    {[NoAction EXCEPT !.type = t] : t \in {"", "other"}}
    \union {[NoAction EXCEPT !.type = "log", !.template = m] : m \in SomeTemplates}
    \union {[NoAction EXCEPT !.type = "webhook", !.url = u, !.template = m,
                             !.badRequest = b] :
               u \in Urls, m \in SomeTemplates, b \in BOOLEAN}
    \union {[NoAction EXCEPT !.type = "homeassistant", !.url = u, !.service = s,
                             !.webhook_id = w, !.badRequest = b] :
               u \in Urls, s \in {"", "plain", "domain.service"}, w, b \in BOOLEAN}
    \union {[NoAction EXCEPT !.type = t, !.webhook_url = u, !.template = m] :
               t \in {"discord", "slack"}, u \in Urls, m \in SomeTemplates}

LogAction == [NoAction EXCEPT !.type = "log"]

LogActions == {a \in SomeActions : a.type \in {"", "other", "log"}}

\* Every action for every event; two actions of a rule and two rules; and what
\* validateRules refuses.
SomeRules ==
    {<<Rule(e, a)>> : e \in EventTypes, a \in SomeActions}
    \union {<<[Rule("reward.redeemed", LogAction) EXCEPT !.actions = <<LogAction, a>>]>> :
               a \in LogActions}
    \union {<<Rule("chore.completed", LogAction), Rule("chore.completed", a)>> :
               a \in LogActions}
    \union {<<Rule(e, LogAction)>> : e \in {"", "other"}}
    \union {<<[Rule("chore.completed", LogAction) EXCEPT !.named = FALSE]>>,
            <<[Rule("chore.completed", LogAction) EXCEPT !.actions = << >>]>>,
            << >>}

Plain == [NoConfig EXCEPT !.auth = {"user_id", "token"}, !.frame_id = "frame1"]

SomePhotos ==
    {NoPhotos} \union
    [on : {TRUE}, watch_folder : BOOLEAN, frame_id : {"", "frame2"},
     sync_interval : Durations]

SomeConfigs ==
    {[Plain EXCEPT !.auth = a, !.frame_id = f] :
        a \in SUBSET CredentialKeys, f \in {"", "frame1"}}
    \union {[Plain EXCEPT !.interval = d, !.event_buffer_size = n, !.photo_sync = p] :
               d \in Durations, n \in {-1, 0, 1}, p \in SomePhotos}
    \union {[Plain EXCEPT !.rules = r] : r \in SomeRules}

AllKeys == [method |-> "token", given |-> CredentialKeys, choice |-> 0,
            frame_id |-> "frame1", interval |-> "", discord |-> "", slack |-> ""]

SomeAnswers ==
    {[AllKeys EXCEPT !.method = m, !.given = g, !.frame_id = f] :
        m \in {"token", "refresh"},
        g \in {CredentialKeys, {"token", "refresh_token"}}, f \in {"", "frame1"}}
    \union {[AllKeys EXCEPT !.choice = n] : n \in -1..3}
    \union {[AllKeys EXCEPT !.interval = d] : d \in Durations \union {"notYAML"}}
    \union {[AllKeys EXCEPT !.discord = u, !.slack = v] : u \in Urls, v \in Urls}

=============================================================================
