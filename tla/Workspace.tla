------------------------------- MODULE Workspace -------------------------------
(* The workspace of the legacy extension: rules, groups, sequence mocks and      *)
(* assertions in chrome.storage.local, the background worker that keeps the      *)
(* browser's rules in step with them, the side panels (one may be a window of    *)
(* its own) that edit them from the lists they have read, and a page whose       *)
(* content script publishes them to the mock bridge.                             *)
(*                                                                               *)
(* Nobody locks the storage: every context learns of a change by an onChanged    *)
(* event, and saves whole lists.  An action is what a context does between two   *)
(* awaits; a save is applied when it is asked for, because no later step of its  *)
(* context depends on when that is.                                              *)
EXTENDS RuleEditing

CONSTANTS
    Panels,           \* side panels
    Scenes,           \* what a behaviour starts from and may contain: [fresh: whether
                      \* the extension is being installed, page: whether a page opens,
                      \* panels: the panels that may open, views: the views the user
                      \* turns to, edits, restarts: how many]
    NewIds,           \* the ids generateId returns, one for each edit
    TouchedRules,     \* rules that are selected and toggled
    TouchedGroups,    \* groups that are edited
    RuleInputs,       \* what is typed into the rule editor: some of its fields
    MockInputs,       \* the same for the mock editor
    Files,            \* rule files to import
    Filters,          \* filters of the lists of rules
    Profiles,         \* error profiles that are clicked
    PageUrl           \* the URL of the page

ASSUME ScenesAssumption ==
    \A s \in Scenes : /\ s.edits \in 0..Len(NewIds) /\ s.restarts \in Nat
                       /\ s.panels \subseteq Panels
                       /\ s.views \subseteq {"rules", "mocks", "settings"}

VARIABLES
    stored,      \* chrome.storage.local: keys to values
    worker,      \* the background worker
    browser,     \* the rules of declarativeNetRequest
    panels,      \* the side panels
    news,        \* onChanged events on their way to each panel, oldest first
    page,        \* the content script and the bridge of the page
    left         \* the scene, with the edits and restarts that may still come

vars == <<stored, worker, browser, panels, news, page, left>>

PanelKeys == {"rules", "ruleGroups", "conditionalMocks", "responseAssertions"}
Keys == PanelKeys \cup {"ruleValidation"}

(* parseRules drops what the panel's guard refuses; the other lists are sound.   *)
Parsed(key, value) ==
    IF value = Nothing THEN <<>>
    ELSE IF key = "rules" THEN Kept(isStoredRule, value) ELSE value

NoLists == [key \in PanelKeys |-> <<>>]
NoForm == populateEditor(Rule("", "block", FALSE, 0, "", 0, {}, NoFields))
NoMockForm == populateMockEditor(Rule("", "mock-response", FALSE, 0, "", 0, {}, NoFields))
NoTask == [op |-> "none", profile |-> "", rules |-> <<>>]

Closed == [pc |-> "closed", view |-> "rules", lists |-> NoLists, selected |-> NoSelection,
           form |-> NoForm, mock |-> NoSelection, mockForm |-> NoMockForm, task |-> NoTask]
NoPage == [pc |-> "absent", publishing |-> 0, rules |-> Nothing, bridge |-> Nothing,
           scripts |-> <<>>]
Idle == [pc |-> "idle", install |-> "done", queued |-> 0, changes |-> 0, rules |-> Nothing,
         groups |-> Nothing]

Seeded ==
    [key \in Keys |->
        CASE key = "rules" -> DEFAULT_RULES
          [] key = "ruleGroups" -> DEFAULT_RULE_GROUPS
          [] key = "ruleValidation" ->
                buildRuleValidation(loadRulesForRuntime(DEFAULT_RULES, DEFAULT_RULE_GROUPS),
                                    BrowserRules(DEFAULT_RULES, DEFAULT_RULE_GROUPS))
          [] OTHER -> Nothing]

Init ==
    \E scene \in Scenes :
        /\ stored = IF scene.fresh THEN [key \in Keys |-> Nothing] ELSE Seeded
        /\ worker = [Idle EXCEPT !.install = IF scene.fresh THEN "read groups" ELSE "done"]
        /\ browser = IF scene.fresh THEN <<>> ELSE BrowserRules(DEFAULT_RULES, DEFAULT_RULE_GROUPS)
        /\ panels = [p \in Panels |-> Closed]
        /\ news = [p \in Panels |-> <<>>]
        /\ page = [NoPage EXCEPT !.pc = IF scene.page THEN "closed" ELSE "absent"]
        /\ left = scene

-------------------------------------------------------------------------------
(* chrome.storage.  An event lists the keys whose value has changed.             *)

Listening(p) == panels[p].pc \in {"open", "drawn"}

(* storage.local.set, and the fields of a context that a step assigns: those that *)
(* are named have new values.                                                    *)
Updated(old, values) ==
    [key \in DOMAIN old |-> IF key \in DOMAIN values THEN values[key] ELSE old[key]]

Hears(changes, keys) == DOMAIN changes \cap keys # {}

(* Faulty: the content script does not look at the sequence mocks.               *)
PageHearsOfRules(changes) == page.pc \in {"injected", "bridged"} /\ Hears(changes, {"rules"})

PageHears(changes) ==
    page.pc \in {"injected", "bridged"} /\ Hears(changes, {"rules", "conditionalMocks"})

WorkerHears(changes) == Hears(changes, {"rules", "ruleGroups"})

(* The storage after a save, with the events it sends.  After the last edit the  *)
(* panels are not followed any more.                                             *)
Save(values) ==
    LET changes == [key \in { k \in DOMAIN values : values[k] # stored[k] } |-> values[key]]
        told == [key \in DOMAIN changes \cap PanelKeys |-> changes[key]]
    IN  /\ stored' = Updated(stored, values)
        /\ news' = [p \in Panels |->
                CASE left'.edits = 0 -> <<>>
                  [] left'.edits > 0 /\ Listening(p) /\ DOMAIN told # {} -> Append(news[p], told)
                  [] OTHER -> news[p]]
        /\ page' = [page EXCEPT !.publishing = IF PageHears(changes) THEN @ + 1 ELSE @]

Told(values) ==
    IF WorkerHears([key \in { k \in DOMAIN values : values[k] # stored[k] } |-> values[key]])
    THEN 1 ELSE 0

-------------------------------------------------------------------------------
(* The background worker: installation, then one synchronisation at a time.      *)

(* Faulty: a change that arrives during a synchronisation asks for no other.     *)
QueueSyncUnlessBusy(w) == [w EXCEPT !.queued = IF w.pc = "idle" THEN @ + 1 ELSE @]

QueueSync(w) == [w EXCEPT !.queued = @ + 1]

SeedRead(step, write, next, key) ==
    /\ worker.install = step
    /\ worker' = [worker EXCEPT !.install = IF stored[key] = Nothing THEN write ELSE next]
    /\ UNCHANGED <<stored, browser, panels, news, page, left>>

SeedWrite(step, next, key, value) ==
    /\ worker.install = step
    /\ worker' = [worker EXCEPT !.install = next, !.changes = @ + Told([k \in {key} |-> value])]
    /\ UNCHANGED <<browser, panels, left>>
    /\ Save([k \in {key} |-> value])

SeedGroups ==
    \/ SeedRead("read groups", "write groups", "read rules", "ruleGroups")
    \/ SeedWrite("write groups", "read rules", "ruleGroups", DEFAULT_RULE_GROUPS)

SeedRules ==
    \/ SeedRead("read rules", "write rules", "sync", "rules")
    \/ SeedWrite("write rules", "sync", "rules", DEFAULT_RULES)

SyncAfterInstall ==
    /\ worker.install = "sync"
    /\ worker' = [QueueSync(worker) EXCEPT !.install = "done"]
    /\ UNCHANGED <<stored, browser, panels, news, page, left>>

HearChange ==
    /\ worker.changes > 0
    /\ worker' = [QueueSync(worker) EXCEPT !.changes = @ - 1]
    /\ UNCHANGED <<stored, browser, panels, news, page, left>>

(* The two reads are asked for together and answered in order.                   *)
StartSync ==
    /\ worker.pc = "idle" /\ worker.queued > 0
    /\ worker' = [worker EXCEPT !.pc = "groups", !.rules = stored["rules"]]
    /\ UNCHANGED <<stored, browser, panels, news, page, left>>

ReadGroups ==
    /\ worker.pc = "groups"
    /\ worker' = [worker EXCEPT !.pc = "update", !.groups = stored["ruleGroups"]]
    /\ UNCHANGED <<stored, browser, panels, news, page, left>>

Finished(w) == [w EXCEPT !.pc = "idle", !.queued = @ - 1, !.rules = Nothing, !.groups = Nothing]

(* Faulty: nothing catches the rejection, so no later link of the chain runs.    *)
AfterRefusalUncaught(w) == [Finished(w) EXCEPT !.pc = "rejected"]

AfterRefusal(w) == Finished(w)

(* Only this chain writes the browser's rules, so reading the ids to remove is   *)
(* one step with the update.                                                     *)
UpdateBrowser ==
    /\ worker.pc = "update"
    /\ LET rules == BrowserRules(worker.rules, worker.groups)
       IN  IF BrowserRefuses(rules)
           THEN worker' = AfterRefusal(worker) /\ UNCHANGED browser
           ELSE browser' = rules /\ worker' = [worker EXCEPT !.pc = "report"]
    /\ UNCHANGED <<stored, panels, news, page, left>>

SaveValidation ==
    /\ worker.pc = "report"
    /\ stored' = [stored EXCEPT !["ruleValidation"] =
            buildRuleValidation(loadRulesForRuntime(worker.rules, worker.groups), browser)]
    /\ worker' = Finished(worker)
    /\ UNCHANGED <<browser, panels, news, page, left>>

(* The browser ends and starts again: its rules and the storage stay, everything *)
(* in memory is gone, and onStartup asks for a synchronisation.                  *)
Restart ==
    /\ left.restarts > 0
    /\ left' = [left EXCEPT !.restarts = @ - 1]
    /\ worker' = QueueSync(Idle)
    /\ panels' = [p \in Panels |-> Closed]
    /\ news' = [p \in Panels |-> <<>>]
    /\ page' = NoPage
    /\ UNCHANGED <<stored, browser>>

Worker ==
    \/ SeedGroups \/ SeedRules \/ SyncAfterInstall
    \/ HearChange \/ StartSync \/ ReadGroups \/ UpdateBrowser \/ SaveValidation

-------------------------------------------------------------------------------
(* A side panel.  Its buttons work from the moment it opens, and until the first *)
(* frame they know no lists.                                                     *)

Set(p, values) ==
    /\ panels' = [panels EXCEPT ![p] = Updated(@, values)]
    /\ UNCHANGED <<stored, worker, browser, news, page, left>>

Open(p) ==
    /\ panels[p].pc = "closed" /\ p \in left.panels
    /\ \E view \in left.views : Set(p, [pc |-> "loading", view |-> view])

LoadAppState(p) ==
    /\ panels[p].pc = "loading"
    /\ Set(p, [pc |-> "loaded", lists |-> [key \in PanelKeys |-> Parsed(key, stored[key])]])

(* Only now does the panel hear of changes.                                      *)
Listen(p) == panels[p].pc = "loaded" /\ Set(p, [pc |-> "open"])

Hear(p) ==
    /\ news[p] # <<>>
    /\ news' = [news EXCEPT ![p] = Tail(@)]
    /\ panels' = [panels EXCEPT ![p].lists =
            Updated(@, [key \in DOMAIN Head(news[p]) |-> Parsed(key, Head(news[p])[key])])]
    /\ UNCHANGED <<stored, worker, browser, page, left>>

(* A frame: the view the user is in, or turns to, is drawn from the lists, and   *)
(* its editor takes the values of the selected rule, whatever was typed into it. *)
(* An editor out of view needs no values: it gets them when it is turned to.     *)
Draw(p, view, local) ==
    /\ Listening(p)
    /\ view \in left.views
    /\ panels[p].pc = "drawn" \/ panels[p].view = view
    /\ Set(p, Updated([panels[p] EXCEPT !.pc = "drawn", !.view = view, !.form = NoForm,
                                        !.mockForm = NoMockForm], local))

ShowRules(p, filter, wanted) ==
    LET listed == applyRuleFilters(panels[p].lists["rules"], filter)
        selected == Selected(listed, wanted)
    IN  /\ wanted = panels[p].selected \/ wanted \in IdsOf(listed)
        /\ Draw(p, "rules", [selected |-> selected,
                             form |-> IF selected = NoSelection THEN panels[p].form
                                      ELSE populateEditor(Find(listed, selected))])

ShowMocks(p, filter, wanted) ==
    LET listed == applyMockFilters(panels[p].lists["rules"], filter)
        selected == Selected(listed, wanted)
    IN  /\ wanted = panels[p].mock \/ wanted \in IdsOf(listed)
        /\ Draw(p, "mocks", [mock |-> selected,
                             mockForm |-> IF selected = NoSelection THEN panels[p].mockForm
                                          ELSE populateMockEditor(Find(listed, selected))])

Show(p) ==
    \/ \E f \in Filters, id \in TouchedRules \cup {panels[p].selected} : ShowRules(p, f, id)
    \/ \E f \in Filters, id \in TouchedRules \cup {panels[p].mock} : ShowMocks(p, f, id)
    \/ Draw(p, "settings", NoFields)

Known(p) == IF panels[p].pc = "drawn" THEN panels[p].lists ELSE NoLists
Id == NewIds[left.edits]
Now == 100 - left.edits

Commit(p, values, local) ==
    /\ panels[p].pc # "closed"
    /\ left' = [left EXCEPT !.edits = @ - 1]
    /\ Save(values)
    /\ worker' = [worker EXCEPT !.changes = @ + Told(values)]
    /\ panels' = IF left'.edits = 0 THEN [q \in Panels |-> Closed]
                 ELSE [panels EXCEPT ![p] = Updated(@, local)]
    /\ UNCHANGED browser

SaveList(p, key, list) == Commit(p, [k \in {key} |-> list], NoFields)

(* The view of rules.                                                            *)
RulesOf(p) == Known(p)["rules"]

ToggleRule(p, id) ==
    /\ id \in IdsOf(RulesOf(p))
    /\ SaveList(p, "rules", Toggle(RulesOf(p), id))

CreateRule(p) ==
    Commit(p, [rules |-> <<createDefaultRule(Id, Now)>> \o RulesOf(p)], [selected |-> Id])

DuplicateRule(p) ==
    \E next \in Duplicate(RulesOf(p), panels[p].selected, Id) :
        Commit(p, [rules |-> next], [selected |-> Id])

DeleteRule(p) ==
    \E next \in Delete(RulesOf(p), panels[p].selected) :
        Commit(p, [rules |-> next],
               [selected |-> IF next = <<>> THEN NoSelection ELSE next[1].id])

ImportRules(p, file) ==
    \E next \in Import(RulesOf(p), file) : SaveList(p, "rules", next)

SubmitRule(p, input) ==
    \E next \in SaveRule(RulesOf(p), panels[p].selected, input @@ panels[p].form) :
        Commit(p, [rules |-> next], [form |-> input @@ panels[p].form])

EditRules(p) == panels[p].view = "rules" /\
    \/ \E id \in TouchedRules : ToggleRule(p, id)
    \/ CreateRule(p) \/ DuplicateRule(p) \/ DeleteRule(p)
    \/ \E file \in Files : ImportRules(p, file)
    \/ \E input \in RuleInputs : SubmitRule(p, input)

(* Groups; a rename saves the list with another name in it.                      *)
GroupsOf(p) == Known(p)["ruleGroups"]

EditGroup(p, id) ==
    /\ id \in IdsOf(GroupsOf(p))
    /\ \/ SaveList(p, "ruleGroups", Toggle(GroupsOf(p), id))
       \/ SaveList(p, "ruleGroups", GroupsOf(p))
       \/ \E step \in {-1, 1} : \E next \in MoveGroup(GroupsOf(p), id, step) :
              SaveList(p, "ruleGroups", next)
       \/ \E next \in DeleteGroup(RulesOf(p), GroupsOf(p), id) : SaveList(p, "ruleGroups", next)

AddGroup(p) == SaveList(p, "ruleGroups", CreateGroup(GroupsOf(p), Id))

EditGroups(p) ==
    /\ panels[p].view = "rules"
    /\ AddGroup(p) \/ \E id \in TouchedGroups : EditGroup(p, id)

(* The view of mocks.  Applying a template to a selected mock only fills the     *)
(* form.                                                                         *)
SubmitMock(p, input) ==
    \E next \in SaveMock(RulesOf(p), panels[p].mock, input @@ panels[p].mockForm) :
        Commit(p, [rules |-> next], [mockForm |-> input @@ panels[p].mockForm])

FillTemplate(p, template) ==
    /\ panels[p].pc # "closed" /\ panels[p].mock # NoSelection
    /\ Set(p, [mockForm |-> applyTemplate(panels[p].mockForm, template)])

CreateFromTemplate(p, template) ==
    /\ panels[p].mock = NoSelection
    /\ Commit(p, [rules |-> <<createMockRuleFromTemplate(template, Id, Now)>> \o RulesOf(p)],
              [mock |-> Id])

AddSequenceMock(p) ==
    \E next \in AddSequence(Known(p)["conditionalMocks"], Id, {"/api"},
                            <<[status |-> 200], [status |-> NotANumber]>>) :
        SaveList(p, "conditionalMocks", next)

(* Toggling and deleting an entry of a list of sequence mocks or of assertions.  *)
EditEntry(p, key) ==
    LET list == Known(p)[key]
    IN  \E id \in IdsOf(list) :
            \/ SaveList(p, key, Toggle(list, id))
            \/ SaveList(p, key, Without(list, {id}))

EditMocks(p) == panels[p].view = "mocks" /\
    \/ \E id \in TouchedRules : ToggleRule(p, id)
    \/ \E input \in MockInputs : SubmitMock(p, input)
    \/ \E t \in MOCK_TEMPLATES : t.id = "slow-success" /\ (FillTemplate(p, t) \/ CreateFromTemplate(p, t))
    \/ AddSequenceMock(p)
    \/ EditEntry(p, "conditionalMocks")

(* The settings.  A profile is switched with the rules read after the click, and *)
(* the workspace is reset by a second click, the first only arming the button.   *)
AddResponseAssertion(p) ==
    \E next \in AddAssertion(Known(p)["responseAssertions"], Id, "status", "200", "") :
        SaveList(p, "responseAssertions", next)

ClickProfile(p, profile) ==
    /\ panels[p].pc = "drawn" /\ panels[p].task = NoTask
    /\ Set(p, [task |-> [op |-> IF profile \in getActiveProfileIds(RulesOf(p))
                                THEN "deactivate" ELSE "activate",
                         profile |-> profile, rules |-> Parsed("rules", stored["rules"])]])

SaveProfile(p) ==
    LET task == panels[p].task
    IN  /\ task # NoTask
        /\ Commit(p, [rules |-> IF task.op = "activate"
                                THEN activateProfile(task.rules, task.profile, Now)
                                ELSE deactivateProfile(task.rules, task.profile)],
                  [task |-> NoTask])

ResetWorkspace(p) == Commit(p, [key \in Keys |-> Nothing], NoFields)

EditSettings(p) == panels[p].view = "settings" /\
    \/ AddResponseAssertion(p)
    \/ EditEntry(p, "responseAssertions")
    \/ \E profile \in Profiles : ClickProfile(p, profile)
    \/ ResetWorkspace(p)

Panel(p) == left.edits > 0 /\
    \/ Open(p) \/ LoadAppState(p) \/ Listen(p) \/ Hear(p) \/ Show(p)
    \/ EditRules(p) \/ EditGroups(p) \/ EditMocks(p) \/ EditSettings(p)
    \/ SaveProfile(p)

-------------------------------------------------------------------------------
(* The page.  The content script adds the bridge as a script and publishes at    *)
(* once; a message that comes before the bridge runs is heard by nobody.         *)

OnPage(values) ==
    /\ page' = Updated(page, values)
    /\ UNCHANGED <<stored, worker, browser, panels, news, left>>

OpenPage ==
    /\ page.pc = "closed"
    /\ OnPage([pc |-> "injected", publishing |-> 1])

(* The bridge runs; when the tab is complete the worker injects the scripts of   *)
(* the rules it then reads.  Nothing here depends on which comes first.          *)
CompleteTab ==
    /\ page.pc = "injected"
    /\ OnPage([pc |-> "bridged",
               scripts |-> IF ~isInjectableUrl(PageUrl) THEN <<>>
                           ELSE Injections(loadRulesForRuntime(stored["rules"], stored["ruleGroups"]),
                                           PageUrl)])

(* publishRules: the reads of one call are answered before those of the next.    *)
ReadRulesToPublish ==
    /\ page.publishing > 0 /\ page.rules = Nothing
    /\ OnPage([rules |-> [at |-> IF stored["rules"] = Nothing THEN <<>>
                                 ELSE Kept(isContentRule, stored["rules"])]])

PublishRules ==
    /\ page.rules # Nothing
    /\ OnPage([publishing |-> page.publishing - 1, rules |-> Nothing,
               bridge |-> IF page.pc # "bridged" THEN page.bridge
                          ELSE [rules |-> page.rules.at,
                                mocks |-> Parsed("conditionalMocks", stored["conditionalMocks"])]])

Page == CompleteTab \/ ReadRulesToPublish \/ PublishRules

-------------------------------------------------------------------------------
Next ==
    \/ Worker
    \/ Restart
    \/ \E p \in Panels : Panel(p)
    \/ OpenPage
    \/ Page

Spec == Init /\ [][Next]_vars

(* The event loop of the worker runs what is due: WF_vars(Worker), with ENABLED   *)
(* Worker written out, which TLC would compute from the whole of each step.       *)
WorkerIsDue ==
    \/ worker.install # "done" \/ worker.changes > 0
    \/ worker.pc \in {"groups", "update", "report"}
    \/ worker.pc = "idle" /\ worker.queued > 0

FairSpec == Spec /\ ([]<>~WorkerIsDue \/ []<><<Worker>>_vars)

-------------------------------------------------------------------------------
(* Properties.                                                                   *)

WorkerIsQuiet ==
    /\ worker.pc = "idle" /\ worker.install = "done"
    /\ worker.queued = 0 /\ worker.changes = 0

CurrentRules == BrowserRules(stored["rules"], stored["ruleGroups"])

(* Whenever the worker has nothing left to do, the browser applies exactly the   *)
(* rules of the storage, by the same groups and in the same order, and the panel *)
(* is shown the report on them; unless the browser refuses one of them, when all *)
(* of them wait.  However saves, events, reads and restarts interleave, the last *)
(* change is never the one that was missed.                                      *)
QuietBrowserIsCurrent ==
    WorkerIsQuiet /\ ~BrowserRefuses(CurrentRules) =>
        /\ browser = CurrentRules
        /\ stored["ruleValidation"] \in
              {Nothing, buildRuleValidation(
                            loadRulesForRuntime(stored["rules"], stored["ruleGroups"]), browser)}

(* A list the browser refuses holds up no list after it: every synchronisation   *)
(* that was asked for comes to its end, so in the end the worker rests, and, with *)
(* QuietBrowserIsCurrent, the browser has the stored rules.                       *)
WorkerComesToRest == <>[]WorkerIsQuiet

(* A bridge that has heard one publication has heard the last: when nothing is   *)
(* on its way, it has the stored rules and sequence mocks that its guards accept.*)
QuietBridgeIsCurrent ==
    page.publishing = 0 /\ page.bridge # Nothing =>
        page.bridge = [rules |-> IF stored["rules"] = Nothing THEN <<>>
                                 ELSE Kept(isContentRule, stored["rules"]),
                       mocks |-> Parsed("conditionalMocks", stored["conditionalMocks"])]

(* The list of groups is in the order of their priorities, which differ.  The    *)
(* deletion of a group numbers the others by their place in the list, so in a    *)
(* list out of order it would silently reorder what the user had arranged.       *)
GroupsStayOrdered ==
    LET groups == readRuleGroups(stored["ruleGroups"])
    IN  \A i, j \in DOMAIN groups : i < j => groups[i].priority < groups[j].priority

(* The profile "Network Failure", which "Blocks all API calls", makes the        *)
(* browser block them once it is stored and the worker is quiet.                 *)
NetworkFailureProfileBlocks ==
    WorkerIsQuiet /\ "network-failure" \in getActiveProfileIds(loadRules(stored["rules"])) =>
        \E r \in RangeOf(browser) : r.action.type = "block" /\ r.url = PROFILE_RULE_URL_PATTERN

(* What the panel lists in an order, the browser applies in that order.          *)
ListOrderIsBrowserOrder ==
    WorkerIsQuiet =>
        LET rules == renderGroupedRules(Parsed("rules", stored["rules"]),
                                        loadRuleGroups(stored["ruleGroups"]))
            at(r) == { d \in RangeOf(browser) : d.action = ActionOf(r) /\ d.url = r.url }
        IN  \A i, j \in DOMAIN rules : i < j =>
                \A a \in at(rules[i]), b \in at(rules[j]) : a.priority >= b.priority
===============================================================================
