------------------------------ MODULE MCWorkspace ------------------------------
(* Four scenes: one edit while the extension is installed, two edits of mocks    *)
(* beside an open page, two edits anywhere with a restart of the browser, and    *)
(* two edits of rules and groups from two panels, each from the lists it knows.  *)
EXTENDS Workspace

MCMethods == {"GET", "POST"}
MCUpper == [m \in MCMethods |-> m]

AllViews == {"rules", "mocks", "settings"}

Scene(fresh, hasPage, opened, views, edits, restarts) ==
    [fresh |-> fresh, page |-> hasPage, panels |-> opened, views |-> views, edits |-> edits,
     restarts |-> restarts]

MCScenes ==
    {Scene(TRUE, FALSE, {"panel"}, AllViews, 1, 0),
     Scene(FALSE, TRUE, {"panel"}, {"mocks"}, 2, 0),
     Scene(FALSE, FALSE, {"panel"}, AllViews, 2, 1),
     Scene(FALSE, FALSE, {"panel", "window"}, {"rules"}, 2, 0)}

MCNewIds == <<"new-1", "new-2">>

MCFilters == {[type |-> "all", status |-> "all", search |-> {}]}

Header(name) == [payload |-> [operations |-> <<[header |-> name, operation |-> "set", value |-> "v"]>>]]

MCRuleInputs ==
    {Header("x bad"), [priority |-> NotANumber, groupId |-> ""], [payload |-> NotAnObject],
     [type |-> "insert-script", url |-> {}, payload |-> [code |-> "script"]]}

MCMockInputs == {[enabled |-> FALSE, delayMs |-> 0], [status |-> 999]}

NoCreatedAt == [Rule("imp-1", "block", TRUE, 5, "", 1, {"/api"}, NoFields)
                    EXCEPT !.odd = [createdAt |-> "undefined"]]
ArrayCondition == [Rule("imp-2", "block", TRUE, 5, "", 1, {}, NoFields)
                    EXCEPT !.odd = [condition |-> "array"]]
MCFiles == {<<NoCreatedAt, ArrayCondition, DEFAULT_RULES[1]>>}
===============================================================================
