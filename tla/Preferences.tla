----------------------------- MODULE Preferences -----------------------------
(***************************************************************************)
(* The preferences store and the settings page: what the server keeps,     *)
(* what the page last read, the edits staged on top of it, and the look of *)
(* the document, which follows the edits before they are saved.            *)
(*                                                                         *)
(* A preference is a key with a small number for its value; "theme" stands *)
(* for the ones applied to the document.                                   *)
(***************************************************************************)
EXTENDS Naturals, FiniteSets

CONSTANTS
    Values,       \* bound: values of a preference, 0 its default
    MaxCalls,     \* bound: requests
    MaxElsewhere  \* bound: changes made on another device

VARIABLES
    server,    \* the row of the account
    saved,     \* _saved
    dirty,     \* _dirty: the staged value, or Clean
    loaded,
    loads,     \* GETs under way: asked, or the answer that travels
    save,      \* the PATCH under way: not asked, its diff, or the answer that travels
    look,      \* the theme of the document
    reset,     \* the last step discarded the edits on request
    calls, elsewhere

prefVars == <<server, saved, dirty, loaded, loads, save, look, reset, calls, elsewhere>>

PrefKeys == {"theme", "other"}
Clean    == 9
Prefs    == [PrefKeys -> Values]
Nothing  == [k \in PrefKeys |-> Clean]
Diffs    == [PrefKeys -> Values \cup {Clean}]
Idle     == [at |-> "idle", body |-> Nothing]

Merged(base, over) == [k \in PrefKeys |-> IF over[k] = Clean THEN base[k] ELSE over[k]]
IsDirty == dirty # Nothing

PrefTypeOK ==
    /\ server \in Prefs /\ saved \in Prefs /\ dirty \in Diffs
    /\ {loaded, reset} \subseteq BOOLEAN /\ look \in Values
    /\ \A i \in 1..2 : loads[i].at \in {"idle", "asked", "answered"} /\ loads[i].body \in Diffs
    /\ save.at \in {"idle", "asked", "answered"} /\ save.body \in Diffs
    /\ calls \in 0..MaxCalls /\ elsewhere \in 0..MaxElsewhere

PrefInit ==
    /\ server \in Prefs
    /\ saved = [k \in PrefKeys |-> 0] /\ dirty = Nothing /\ loaded = FALSE
    /\ loads = [i \in 1..2 |-> Idle] /\ save = Idle
    /\ look = 0 /\ reset = FALSE /\ calls = 0 /\ elsewhere = 0

ElsewhereSaves(k, v) ==
    /\ elsewhere < MaxElsewhere /\ elsewhere' = elsewhere + 1
    /\ server[k] # v /\ server' = [server EXCEPT ![k] = v]
    /\ reset' = FALSE
    /\ UNCHANGED <<saved, dirty, loaded, loads, save, look, calls>>

\* load(), by the application at sign-in and by the settings page while not loaded
Load(i) ==
    /\ loads[i] = Idle /\ (i = 2 => ~loaded)
    /\ calls < MaxCalls /\ calls' = calls + 1
    /\ loads' = [loads EXCEPT ![i].at = "asked"]
    /\ reset' = FALSE
    /\ UNCHANGED <<server, saved, dirty, loaded, save, look, elsewhere>>

LoadServed(i) ==
    /\ loads[i].at = "asked"
    /\ loads' = [loads EXCEPT ![i] = [at |-> "answered", body |-> server]]
    /\ reset' = FALSE
    /\ UNCHANGED <<server, saved, dirty, loaded, save, look, calls, elsewhere>>

\* an answer becomes _saved, whatever was staged meanwhile
Adopts(prefs) ==
    /\ saved' = prefs /\ dirty' = Nothing /\ look' = prefs["theme"]
    /\ reset' = FALSE

Loaded(i) ==
    /\ loads[i].at = "answered"
    /\ Adopts(loads[i].body)
    /\ loaded' = TRUE
    /\ loads' = [loads EXCEPT ![i] = Idle]
    /\ UNCHANGED <<server, save, calls, elsewhere>>

LoadFails(i) ==
    /\ loads[i].at # "idle"
    /\ loads' = [loads EXCEPT ![i] = Idle]
    /\ reset' = FALSE
    /\ UNCHANGED <<server, saved, dirty, loaded, save, look, calls, elsewhere>>

\* mutant: a value set back to the saved one stays staged
setLocalDraftKeeps(k, v) ==
    /\ v # Merged(saved, dirty)[k]
    /\ dirty' = [dirty EXCEPT ![k] = v]
    /\ look' = IF k = "theme" THEN v ELSE look
    /\ reset' = FALSE
    /\ UNCHANGED <<server, saved, loaded, loads, save, calls, elsewhere>>

setLocalDraft(k, v) ==
    /\ v # Merged(saved, dirty)[k]
    /\ dirty' = [dirty EXCEPT ![k] = IF v = saved[k] THEN Clean ELSE v]
    /\ look' = IF k = "theme" THEN v ELSE look
    /\ reset' = FALSE
    /\ UNCHANGED <<server, saved, loaded, loads, save, calls, elsewhere>>

\* Reset, disabled during a save
Reset ==
    /\ IsDirty /\ save = Idle
    /\ dirty' = Nothing /\ look' = saved["theme"] /\ reset' = TRUE
    /\ UNCHANGED <<server, saved, loaded, loads, save, calls, elsewhere>>

Save ==
    /\ IsDirty /\ save = Idle
    /\ calls < MaxCalls /\ calls' = calls + 1
    /\ save' = [at |-> "asked", body |-> dirty]
    /\ reset' = FALSE
    /\ UNCHANGED <<server, saved, dirty, loaded, loads, look, elsewhere>>

SaveServed ==
    /\ save.at = "asked"
    /\ server' = Merged(server, save.body)
    /\ save' = [at |-> "answered", body |-> server']
    /\ reset' = FALSE
    /\ UNCHANGED <<saved, dirty, loaded, loads, look, calls, elsewhere>>

Saved ==
    /\ save.at = "answered"
    /\ Adopts(save.body)
    /\ save' = Idle
    /\ UNCHANGED <<server, loaded, loads, calls, elsewhere>>

\* the error is shown beside Save; the edits stay staged
SaveFails ==
    /\ save.at # "idle"
    /\ save' = Idle /\ reset' = FALSE
    /\ UNCHANGED <<server, saved, dirty, loaded, loads, look, calls, elsewhere>>

PrefNext ==
    \/ \E k \in PrefKeys, v \in Values : ElsewhereSaves(k, v) \/ setLocalDraft(k, v)
    \/ \E i \in 1..2 : Load(i) \/ LoadServed(i) \/ Loaded(i) \/ LoadFails(i)
    \/ Reset \/ Save \/ SaveServed \/ Saved \/ SaveFails

PrefSpec == PrefInit /\ [][PrefNext]_prefVars

-----------------------------------------------------------------------------
\* Save is offered exactly when the form differs from what was last read: an edit taken back,
\* before or after answers arrived, is no edit.
StagedDiffers == \A k \in PrefKeys : dirty[k] # saved[k]

\* The document looks like the form, through previews, resets, answers and failures.
LookFollowsForm == look = Merged(saved, dirty)["theme"]

PrefSafe == StagedDiffers /\ LookFollowsForm

\* preferences.js: _dirty holds "local edits that haven't been PATCH'd yet".  An edit leaves it
\* because it was taken back, discarded with Reset, or is what the store now has as saved.
EditsAreKept ==
    [][\A k \in PrefKeys : dirty[k] # Clean /\ dirty'[k] = Clean
          => reset' \/ saved'[k] = dirty[k] \/ saved' = saved]_prefVars

\* At rest, with no change made elsewhere, the store has what the server has.
QuietStoreIsServers ==
    loaded /\ save = Idle /\ (\A i \in 1..2 : loads[i] = Idle) /\ elsewhere = 0 => saved = server
=============================================================================
