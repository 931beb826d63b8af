---------------------------- MODULE ScriptEditor ----------------------------
(***************************************************************************)
(* The script page of the web client (hmi/testToolApp, ScriptComponent and *)
(* ScriptService) against the service of module Scripts.  Each click sends *)
(* a request without waiting for earlier ones; answers come back in any    *)
(* order and are applied to whatever the page shows by then.  Other        *)
(* clients may reload the repository at any time.                          *)
(***************************************************************************)
EXTENDS Scripts

CONSTANTS
  NoScript,    \* selectedScript is undefined
  MaxRequests  \* bound: requests over the whole behaviour

ASSUME EditorAssumption == NoScript \notin Names /\ MaxRequests \in Nat

VARIABLES
  loaded,          \* the page has been opened
  shown,           \* ScriptComponent.scripts
  selectedScript,  \* ScriptComponent.selectedScript
  content,         \* ScriptComponent.content; <<>> is undefined or empty
  requests,        \* requests sent so far
  missing,         \* history: the last text asked for did not arrive
  hasty            \* history: a selection while a script was being fetched, or a
                   \* save while one was being fetched or missing

pageVars == <<loaded, shown, selectedScript, content, missing, hasty>>
vars == <<serverVars, pageVars, requests>>

Init ==
  /\ ServerInit
  /\ loaded = FALSE
  /\ shown = {}
  /\ selectedScript = NoScript
  /\ content = <<>>
  /\ requests = 0
  /\ missing = FALSE /\ hasty = FALSE

Fetching == \E w \in Workers : op[w].kind = "get"

Send(w, kind, n, text) ==
  /\ requests < MaxRequests
  /\ requests' = requests + 1
  /\ Serve(w, kind, n, text)

-----------------------------------------------------------------------------
ngOnInit(w) ==
  /\ ~loaded
  /\ Send(w, "list", NotFound, <<>>)
  /\ loaded' = TRUE
  /\ UNCHANGED <<shown, selectedScript, content, missing, hasty>>

\* Mutant: the editor keeps its content if it has one.
onSelect_KeepContent(w, n) ==
  /\ n \in shown
  /\ IF content = <<>> THEN Send(w, "get", n, <<>>)
     ELSE UNCHANGED <<serverVars, requests>>
  /\ selectedScript' = n
  /\ hasty' = (hasty \/ Fetching)
  /\ UNCHANGED <<loaded, shown, content, missing>>

\* The selection changes at once, the content when the answer arrives.
onSelect(w, n) ==
  /\ n \in shown
  /\ Send(w, "get", n, <<>>)
  /\ selectedScript' = n
  /\ hasty' = (hasty \/ Fetching)
  /\ UNCHANGED <<loaded, shown, content, missing>>

\* The user changes the text in the editor ([(ngModel)]="content").
edit ==
  /\ selectedScript # NoScript /\ content # <<>>
  /\ \E v \in 1 .. MaxVersion :
       /\ content[1][1] \in Names /\ v = content[1][2] + 1
       /\ content' = Whole(<<content[1][1], v>>)
  /\ UNCHANGED <<serverVars, requests, loaded, shown, selectedScript, missing, hasty>>

\* Save is offered while there is content: updateScript(selectedScript, content).
updateScript(w) ==
  /\ selectedScript # NoScript /\ content # <<>>
  /\ Send(w, "update", selectedScript, content)
  /\ hasty' = (hasty \/ Fetching \/ missing)
  /\ UNCHANGED <<loaded, shown, selectedScript, content, missing>>

\* Run: POST /api/jobs with the name of the script; the TestRunner opens the
\* file once its job is scheduled.
newJob(w) ==
  /\ selectedScript # NoScript
  /\ Send(w, "run", selectedScript, <<>>)
  /\ UNCHANGED pageVars

\* Reload Scripts from Repo, on this page or by any other client.
cloneRepo(w) ==
  /\ Send(w, "clone", NotFound, <<>>)
  /\ UNCHANGED pageVars

\* Mutant: the message of a list that failed is shown as an entry.
next_ErrorShown(w) ==
  /\ Done(w)
  /\ Answer(w)
  /\ shown' = IF op[w].kind = "list" THEN IF op[w].status = 200 THEN op[w].todo ELSE {NotFound}
              ELSE shown
  /\ content' = IF op[w].kind = "get" THEN op[w].text ELSE content
  /\ missing' = (missing /\ op[w].kind # "get")
  /\ UNCHANGED <<repo, dir, scripts, data, posted, mixed, latest, requests>>
  /\ UNCHANGED <<loaded, selectedScript, hasty>>

\* subscribe(): a list or a text replaces what the page had; a list that is
\* answered with 500 leaves it, and the answers of Save, Run and Reload are
\* ignored.
next(w) ==
  /\ Done(w)
  /\ Answer(w)
  /\ shown' = IF op[w].kind = "list" /\ op[w].status = 200 THEN op[w].todo ELSE shown
  /\ content' = IF op[w].kind = "get" THEN op[w].text ELSE content
  /\ missing' = (missing /\ op[w].kind # "get")
  /\ UNCHANGED <<repo, dir, scripts, data, posted, mixed, latest, requests>>
  /\ UNCHANGED <<loaded, selectedScript, hasty>>

\* The answer is lost on the way.  Nothing handles the error: the page keeps
\* its list, and next to the name of the new selection the text of the old.
error(w) ==
  /\ Done(w) /\ op[w].kind \in {"list", "get"}
  /\ Answer(w)
  /\ missing' = (missing \/ op[w].kind = "get")
  /\ UNCHANGED <<repo, dir, scripts, data, posted, mixed, latest, requests>>
  /\ UNCHANGED <<loaded, shown, selectedScript, content, hasty>>

Next ==
  \/ edit
  \/ \E w \in Workers :
       \/ ngOnInit(w) \/ updateScript(w) \/ newJob(w) \/ cloneRepo(w)
       \/ next(w) \/ error(w)
       \/ \E n \in Names : onSelect(w, n)
       \/ ServerStep(w) /\ UNCHANGED <<pageVars, requests>>

Spec == Init /\ [][Next]_vars

-----------------------------------------------------------------------------
(* Properties *)

\* The types of the files, of the requests in progress and of the page.
TypeOK ==
  /\ ServerTypeOK
  /\ loaded \in BOOLEAN
  /\ shown \subseteq Names
  /\ selectedScript \in Names \cup {NoScript}
  /\ content \in Seq(Texts)
  /\ requests \in 0 .. MaxRequests
  /\ missing \in BOOLEAN /\ hasty \in BOOLEAN

\* No script is overwritten with the text of another one as long as the user
\* waits for a selected script to arrive before the next selection or save, and
\* does not save under the new name when it has not arrived: Save sends the
\* name from the list and the text from an earlier answer.
SaveKeepsApart ==
  ~hasty =>
    \A n \in Names : \A text \in posted[n] :
      \A i \in DOMAIN text : text[i][1] \in {n, NotFound}
=============================================================================
