----------------------------- MODULE PeerNames ------------------------------
(***************************************************************************)
(* The names a user gives to peers: services/peerNames.ts keeps them in    *)
(* one localStorage entry and in a cache that each browser tab loads once; *)
(* hooks/usePeerName.ts gives every component a copy that follows the      *)
(* events of its own tab; PeerNameEditor.tsx sets a name.                  *)
(*                                                                         *)
(* No component calls removeName or clearAll, and the editor saves no      *)
(* empty name: a name is only ever set or replaced.                        *)
(***************************************************************************)
CONSTANTS
    Tabs,     \* the browser tabs
    Peers,    \* the peers on their pages
    Names,    \* names a user may type
    NoName,   \* no name, or an empty input
    Off       \* a component that is not mounted, an editor that is closed

ASSUME NamesAssumption == NoName \notin Names /\ Off \notin Names \union {NoName}

MaybeName == Names \union {NoName}

VARIABLES
    stored,   \* stored[p]: the name in localStorage
    ready,    \* tabs whose cache is initialized
    cache,    \* cache[t][p]
    copy,     \* copy[t][p]: friendlyName of the hooks for p mounted in tab t
    input,    \* input[t][p]: text of p's editor in tab t
    given,    \* history: given[p]: the name the user gave to p last
    behind,   \* history: tabs that loaded or saved before another one saved, or failed to load
    lost,     \* history: peers whose name a tab that was behind may have undone
    unsaved   \* history: peers whose name localStorage refused

vars == <<stored, ready, cache, copy, input, given, behind, lost, unsaved>>

Nameless == [p \in Peers |-> NoName]
Unmounted == [p \in Peers |-> Off]

Init ==
    /\ stored = Nameless
    /\ ready = {}
    /\ cache = [t \in Tabs |-> Nameless]
    /\ copy = [t \in Tabs |-> Unmounted]
    /\ input = [t \in Tabs |-> Unmounted]
    /\ given = Nameless
    /\ behind = {} /\ lost = {} /\ unsaved = {}

\* init, at the first getName or setName of the tab; if the entry cannot be read or parsed
\* the cache stays empty, and the tab is initialized all the same.
Load(t) ==
    /\ ready' = ready \union {t}
    /\ \/ t \in ready /\ UNCHANGED <<cache, behind>>
       \/ t \notin ready /\ cache' = [cache EXCEPT ![t] = stored] /\ UNCHANGED behind
       \/ t \notin ready /\ UNCHANGED cache /\ behind' = behind \union {t}

\* A component for p mounts: getName, and it listens to the tab's events from then on.
Mount(t, p) ==
    /\ copy[t][p] = Off
    /\ Load(t)
    /\ copy' = [copy EXCEPT ![t][p] = cache'[t][p]]
    /\ UNCHANGED <<stored, input, given, lost, unsaved>>

\* A page puts another peer into a mounted component (PeerDetail, when the answer for p
\* came while q was loading): the hook turns to q, and an open editor keeps its text.
Switch(t, p, q) ==
    /\ copy[t][p] # Off /\ copy[t][q] = Off
    /\ copy' = [copy EXCEPT ![t][p] = Off, ![t][q] = cache[t][q]]
    /\ input' = [input EXCEPT ![t][p] = Off, ![t][q] = input[t][p]]
    /\ UNCHANGED <<stored, ready, cache, given, behind, lost, unsaved>>

Unmount(t, p) ==
    /\ copy[t][p] # Off
    /\ copy' = [copy EXCEPT ![t][p] = Off]
    /\ input' = [input EXCEPT ![t][p] = Off]
    /\ UNCHANGED <<stored, ready, cache, given, behind, lost, unsaved>>

\* handleEdit: the input starts from the name that is shown.
Edit(t, p) ==
    /\ copy[t][p] # Off /\ input[t][p] = Off
    /\ input' = [input EXCEPT ![t][p] = copy[t][p]]
    /\ UNCHANGED <<stored, ready, cache, copy, given, behind, lost, unsaved>>

Type(t, p, text) ==
    /\ input[t][p] # Off
    /\ input' = [input EXCEPT ![t][p] = text]
    /\ UNCHANGED <<stored, ready, cache, copy, given, behind, lost, unsaved>>

\* handleCancel, or handleSave with an empty or unchanged text.
Close(t, p) ==
    /\ input[t][p] # Off
    /\ input' = [input EXCEPT ![t][p] = Off]
    /\ UNCHANGED <<stored, ready, cache, copy, given, behind, lost, unsaved>>

\* The event peer-name-changed reaches the tab's components for p, and no other tab.
NoEvent(t, p, name) == copy     \* mutant: the event is not dispatched
AfterEvent(t, p, name) == [copy EXCEPT ![t][p] = IF @ = Off THEN Off ELSE name]

\* mutant: only the new name is written
OneName(t, p, name) == [Nameless EXCEPT ![p] = name]
WithName(t, p, name) == [cache[t] EXCEPT ![p] = name]

\* save: the tab's whole cache replaces the entry, or localStorage refuses it and the
\* error is only logged.
Write(t, p) ==
    \/ /\ stored' = cache'[t]
       /\ behind' = ready \ {t}
       /\ lost' = (IF t \in behind THEN Peers ELSE lost) \ {p}
       /\ unsaved' = unsaved \ {p}
    \/ /\ unsaved' = unsaved \union {p}
       /\ UNCHANGED <<stored, behind, lost>>

\* handleSave with a new text: setName, and the editor closes.  The tab has mounted a
\* component: init has nothing left to do.
Save(t, p) ==
    /\ input[t][p] \in Names
    /\ input[t][p] # copy[t][p]
    /\ cache' = [cache EXCEPT ![t] = WithName(t, p, input[t][p])]
    /\ copy' = AfterEvent(t, p, input[t][p])
    /\ input' = [input EXCEPT ![t][p] = Off]
    /\ given' = [given EXCEPT ![p] = input[t][p]]
    /\ Write(t, p)
    /\ UNCHANGED ready

\* The tab is reloaded, or closed and opened again.
Reload(t) ==
    /\ ready' = ready \ {t}
    /\ cache' = [cache EXCEPT ![t] = Nameless]
    /\ copy' = [copy EXCEPT ![t] = Unmounted]
    /\ input' = [input EXCEPT ![t] = Unmounted]
    /\ behind' = behind \ {t}
    /\ UNCHANGED <<stored, given, lost, unsaved>>

Next ==
    \E t \in Tabs :
      \/ Reload(t)
      \/ \E p \in Peers :
           \/ Mount(t, p)
           \/ Unmount(t, p)
           \/ \E q \in Peers : Switch(t, p, q)
           \/ Edit(t, p)
           \/ \E text \in MaybeName : Type(t, p, text)
           \/ Close(t, p)
           \/ Save(t, p)

Spec == Init /\ [][Next]_vars

-----------------------------------------------------------------------------
(* Properties.                                                             *)

\* Every variable stays in its range, components are mounted in tabs that have loaded the
\* names, and only mounted components have an editor open.
TypeOK ==
    /\ stored \in [Peers -> MaybeName]
    /\ ready \subseteq Tabs
    /\ cache \in [Tabs -> [Peers -> MaybeName]]
    /\ copy \in [Tabs -> [Peers -> MaybeName \union {Off}]]
    /\ input \in [Tabs -> [Peers -> MaybeName \union {Off}]]
    /\ given \in [Peers -> MaybeName]
    /\ behind \subseteq ready
    /\ lost \subseteq Peers
    /\ unsaved \subseteq Peers
    /\ \A t \in Tabs, p \in Peers :
         /\ copy[t][p] # Off => t \in ready
         /\ input[t][p] # Off => copy[t][p] # Off

\* The name saved last for a peer is the stored one, unless localStorage refused it or a
\* tab saved that had failed to load the entry, or had loaded it before another tab saved:
\* one tab that reads and writes its localStorage loses no name.
NamesKept == \A p \in Peers \ (lost \union unsaved) : stored[p] = given[p]

\* All components of a tab show what the tab's cache holds, and the cache of a tab that
\* is not behind holds the stored names: only another tab, a failed load or a refused
\* name parts them.
TabsAgree ==
    \A t \in Tabs, p \in Peers :
        /\ copy[t][p] # Off => copy[t][p] = cache[t][p]
        /\ t \in ready \ behind /\ p \notin unsaved => cache[t][p] = stored[p]

=============================================================================
