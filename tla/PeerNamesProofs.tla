-------------------------- MODULE PeerNamesProofs ---------------------------
(***************************************************************************)
(* Proofs about PeerNames for every set of tabs, peers and names.          *)
(***************************************************************************)
EXTENDS PeerNames, TLAPS

USE NamesAssumption DEF NamesAssumption

\* The inductive invariant: a tab that is not behind saves what is stored, and what is
\* stored is what the user gave, so that a save takes nothing back.
IInv == TypeOK /\ TabsAgree /\ NamesKept

-----------------------------------------------------------------------------
(* Lemmas.                                                                 *)

\* After init a tab works with a name for every peer; what it had loaded before stays, and
\* it agrees with what is stored unless the tab is behind, as one whose load fails is, or
\* a name was refused.
LEMMA LoadedNames ==
    ASSUME IInv, NEW t \in Tabs, Load(t)
    PROVE  /\ cache' \in [Tabs -> [Peers -> MaybeName]]
           /\ t \in ready => cache' = cache
           /\ \A u \in Tabs \ {t} : cache'[u] = cache[u] /\ (u \in behind' <=> u \in behind)
           /\ ready' = ready \union {t} /\ behind' \subseteq ready'
           /\ t \notin behind' => \A p \in Peers \ unsaved : cache'[t][p] = stored[p]
BY DEF IInv, TypeOK, TabsAgree, Load

\* Components are mounted in tabs that have loaded the names, show the tab's name, and
\* are there if their editor is open.
LEMMA MountedComponents ==
    ASSUME IInv, NEW t \in Tabs, NEW p \in Peers
    PROVE  /\ copy[t][p] # Off => t \in ready /\ copy[t][p] = cache[t][p]
           /\ input[t][p] # Off => copy[t][p] # Off
<1>1. copy[t][p] # Off => t \in ready
      BY DEF IInv, TypeOK
<1>2. input[t][p] # Off => copy[t][p] # Off
      BY DEF IInv, TypeOK
<1>3. copy[t][p] # Off => copy[t][p] = cache[t][p]
      BY DEF IInv, TabsAgree
<1> QED BY <1>1, <1>2, <1>3

\* setName changes the tab's name of one peer.
LEMMA WithNameIs ==
    ASSUME IInv, NEW t \in Tabs, NEW p \in Peers, NEW name \in Names
    PROVE  /\ WithName(t, p, name) \in [Peers -> MaybeName]
           /\ WithName(t, p, name)[p] = name
           /\ \A q \in Peers \ {p} : WithName(t, p, name)[q] = cache[t][q]
BY DEF IInv, TypeOK, WithName, MaybeName

-----------------------------------------------------------------------------
(* Each action keeps the invariant.                                        *)

LEMMA MountKeeps ==
    ASSUME IInv, NEW t \in Tabs, NEW p \in Peers, Mount(t, p)
    PROVE  IInv'
<1>1. /\ cache' \in [Tabs -> [Peers -> MaybeName]]
      /\ t \in ready => cache' = cache
      /\ \A u \in Tabs \ {t} : cache'[u] = cache[u] /\ (u \in behind' <=> u \in behind)
      /\ ready' = ready \union {t} /\ behind' \subseteq ready'
      /\ t \notin behind' => \A q \in Peers \ unsaved : cache'[t][q] = stored[q]
      BY LoadedNames DEF Mount
<1>2. /\ copy' \in [Tabs -> [Peers -> MaybeName \union {Off}]]
      /\ copy'[t][p] = cache'[t][p]
      /\ \A u \in Tabs, q \in Peers : u # t \/ q # p => copy'[u][q] = copy[u][q]
  <2> DEFINE name == cache'[t][p]
  <2>1. name \in MaybeName \union {Off}
        BY <1>1
  <2>2. copy' = [copy EXCEPT ![t][p] = name] /\ copy \in [Tabs -> [Peers -> MaybeName \union {Off}]]
        BY DEF Mount, IInv, TypeOK
  <2> HIDE DEF name
  <2>3. /\ copy' \in [Tabs -> [Peers -> MaybeName \union {Off}]]
        /\ copy'[t][p] = name
        /\ \A u \in Tabs, q \in Peers : u # t \/ q # p => copy'[u][q] = copy[u][q]
        BY <2>1, <2>2
  <2> QED BY <2>3 DEF name
<1>3. UNCHANGED <<stored, input, given, lost, unsaved>>
      BY DEF Mount
<1>4. copy'[t][p] # Off
      BY <1>1, <1>2 DEF MaybeName
<1>5. TypeOK'
  <2>1. ASSUME NEW u \in Tabs, NEW q \in Peers
        PROVE  /\ copy'[u][q] # Off => u \in ready'
               /\ input'[u][q] # Off => copy'[u][q] # Off
        BY <1>1, <1>2, <1>3, <1>4, MountedComponents
  <2> QED BY <1>1, <1>2, <1>3, <2>1 DEF IInv, TypeOK
<1>6. TabsAgree'
  <2>1. ASSUME NEW u \in Tabs, NEW q \in Peers, copy'[u][q] # Off
        PROVE  copy'[u][q] = cache'[u][q]
    <3>1. CASE u = t /\ q = p
          BY <1>2, <3>1
    <3>2. CASE u = t /\ q # p
          BY <1>1, <1>2, <2>1, <3>2, MountedComponents
    <3>3. CASE u # t
          BY <1>1, <1>2, <2>1, <3>3, MountedComponents
    <3> QED BY <3>1, <3>2, <3>3
  <2>2. ASSUME NEW u \in Tabs, NEW q \in Peers, u \in ready' \ behind', q \notin unsaved'
        PROVE  cache'[u][q] = stored'[q]
    <3>1. CASE u = t
          BY <1>1, <1>3, <2>2, <3>1
    <3>2. CASE u # t
          BY <1>1, <1>3, <2>2, <3>2 DEF IInv, TabsAgree
    <3> QED BY <3>1, <3>2
  <2> QED BY <2>1, <2>2 DEF TabsAgree
<1>7. NamesKept'
      BY <1>3 DEF IInv, NamesKept
<1> QED BY <1>5, <1>6, <1>7 DEF IInv

\* A component turns to another peer: it shows what the tab's cache holds for that one.
LEMMA SwitchKeeps ==
    ASSUME IInv, NEW t \in Tabs, NEW p \in Peers, NEW q \in Peers, Switch(t, p, q)
    PROVE  IInv'
<1>1. UNCHANGED <<stored, ready, cache, given, behind, lost, unsaved>>
      BY DEF Switch
<1>2. p # q /\ t \in ready
      BY MountedComponents DEF Switch
<1>3. cache[t][q] \in MaybeName
      BY DEF IInv, TypeOK
<1>4. /\ copy' \in [Tabs -> [Peers -> MaybeName \union {Off}]]
      /\ copy'[t][p] = Off /\ copy'[t][q] = cache[t][q]
      /\ \A u \in Tabs, r \in Peers : u # t \/ r \notin {p, q} => copy'[u][r] = copy[u][r]
      BY <1>2, <1>3 DEF IInv, TypeOK, Switch
<1>5. /\ input' \in [Tabs -> [Peers -> MaybeName \union {Off}]]
      /\ input'[t][p] = Off
      /\ \A u \in Tabs, r \in Peers : u # t \/ r \notin {p, q} => input'[u][r] = input[u][r]
      BY <1>2 DEF IInv, TypeOK, Switch
<1>6. copy'[t][q] # Off
      BY <1>3, <1>4 DEF MaybeName
<1>7. ASSUME NEW u \in Tabs, NEW r \in Peers
      PROVE  /\ copy'[u][r] # Off => u \in ready /\ copy'[u][r] = cache[u][r]
             /\ input'[u][r] # Off => copy'[u][r] # Off
  <2>1. CASE u # t \/ r \notin {p, q}
        BY <1>4, <1>5, <2>1, MountedComponents
  <2>2. CASE u = t /\ r = p
        BY <1>4, <1>5, <2>2
  <2>3. CASE u = t /\ r = q
        BY <1>2, <1>4, <1>6, <2>3
  <2> QED BY <2>1, <2>2, <2>3
<1>8. TypeOK'
      BY <1>1, <1>4, <1>5, <1>7 DEF IInv, TypeOK
<1>9. TabsAgree' /\ NamesKept'
      BY <1>1, <1>7 DEF IInv, TabsAgree, NamesKept
<1> QED BY <1>8, <1>9 DEF IInv

LEMMA UnmountKeeps ==
    ASSUME IInv, NEW t \in Tabs, NEW p \in Peers, Unmount(t, p)
    PROVE  IInv'
<1>1. TypeOK'
      BY DEF IInv, TypeOK, Unmount
<1>2. TabsAgree'
      BY DEF IInv, TypeOK, TabsAgree, Unmount
<1>3. NamesKept'
      BY DEF IInv, NamesKept, Unmount
<1> QED BY <1>1, <1>2, <1>3 DEF IInv

\* The editor's input is no part of what the tabs agree on.
LEMMA EditorKeeps ==
    ASSUME IInv, NEW t \in Tabs, NEW p \in Peers,
           Edit(t, p) \/ Close(t, p) \/ \E text \in MaybeName : Type(t, p, text)
    PROVE  IInv'
<1>1. /\ input' \in [Tabs -> [Peers -> MaybeName \union {Off}]]
      /\ \A u \in Tabs, q \in Peers : input'[u][q] # Off => copy[u][q] # Off
  <2>1. CASE Edit(t, p)
        BY <2>1 DEF IInv, TypeOK, Edit
  <2>2. CASE Close(t, p)
        BY <2>2 DEF IInv, TypeOK, Close
  <2>3. CASE \E text \in MaybeName : Type(t, p, text)
        BY <2>3 DEF IInv, TypeOK, Type
  <2> QED BY <2>1, <2>2, <2>3
<1>2. UNCHANGED <<stored, ready, cache, copy, given, behind, lost, unsaved>>
      BY DEF Edit, Close, Type
<1>3. TypeOK'
      BY <1>1, <1>2 DEF IInv, TypeOK
<1> QED BY <1>2, <1>3 DEF IInv, TabsAgree, NamesKept

\* A name is saved: the one step that writes the entry all tabs share.
LEMMA SaveKeeps ==
    ASSUME IInv, NEW t \in Tabs, NEW p \in Peers, Save(t, p)
    PROVE  IInv'
<1> DEFINE name == input[t][p]
<1>1. name \in Names /\ copy[t][p] # Off /\ t \in ready
  <2>1. name \in Names
        BY DEF Save
  <2>2. name # Off
        BY <2>1
  <2> QED BY <2>1, <2>2, MountedComponents
<1>2. t \notin behind => \A q \in Peers \ unsaved : cache[t][q] = stored[q]
      BY <1>1 DEF IInv, TypeOK, TabsAgree
<1>3. /\ WithName(t, p, name) \in [Peers -> MaybeName]
      /\ WithName(t, p, name)[p] = name
      /\ \A q \in Peers \ {p} : WithName(t, p, name)[q] = cache[t][q]
      BY <1>1, WithNameIs
<1>4. /\ cache'[t] = WithName(t, p, name)
      /\ cache' \in [Tabs -> [Peers -> MaybeName]]
      /\ \A u \in Tabs \ {t} : cache'[u] = cache[u]
  <2>1. cache' = [cache EXCEPT ![t] = WithName(t, p, name)]
        BY DEF Save
  <2> QED BY <1>3, <2>1 DEF IInv, TypeOK
<1>5. /\ copy' \in [Tabs -> [Peers -> MaybeName \union {Off}]]
      /\ copy'[t][p] = name
      /\ \A u \in Tabs, q \in Peers : u # t \/ q # p => copy'[u][q] = copy[u][q]
      BY <1>1 DEF IInv, TypeOK, Save, AfterEvent, MaybeName
<1>6. /\ ready' = ready
      /\ input' \in [Tabs -> [Peers -> MaybeName \union {Off}]]
      /\ \A u \in Tabs, q \in Peers : input'[u][q] # Off => input[u][q] # Off
      BY <1>1 DEF IInv, TypeOK, Save
<1>7. /\ given' \in [Peers -> MaybeName]
      /\ given'[p] = name
      /\ \A q \in Peers \ {p} : given'[q] = given[q]
      BY <1>1 DEF IInv, TypeOK, Save, MaybeName
<1>8. \/ /\ stored' = cache'[t]
         /\ behind' = ready \ {t}
         /\ lost' = (IF t \in behind THEN Peers ELSE lost) \ {p}
         /\ unsaved' = unsaved \ {p}
      \/ /\ unsaved' = unsaved \union {p}
         /\ UNCHANGED <<stored, behind, lost>>
      BY DEF Save, Write
<1>9. TypeOK'
  <2>1. stored' \in [Peers -> MaybeName] /\ behind' \subseteq ready' /\ lost' \subseteq Peers /\ unsaved' \subseteq Peers
        BY <1>3, <1>4, <1>6, <1>8 DEF IInv, TypeOK
  <2>2. ready' \subseteq Tabs
        BY <1>6 DEF IInv, TypeOK
  <2>3. ASSUME NEW u \in Tabs, NEW q \in Peers
        PROVE  /\ copy'[u][q] # Off => u \in ready'
               /\ input'[u][q] # Off => copy'[u][q] # Off
        BY <1>1, <1>5, <1>6, MountedComponents
  <2> QED BY <1>4, <1>5, <1>6, <1>7, <2>1, <2>2, <2>3 DEF TypeOK
<1>10. TabsAgree'
  <2>1. ASSUME NEW u \in Tabs, NEW q \in Peers, copy'[u][q] # Off
        PROVE  copy'[u][q] = cache'[u][q]
    <3>1. CASE u = t /\ q = p
          BY <1>3, <1>4, <1>5, <3>1
    <3>2. CASE u = t /\ q # p
          BY <1>3, <1>4, <1>5, <2>1, <3>2 DEF IInv, TabsAgree
    <3>3. CASE u # t
          BY <1>4, <1>5, <2>1, <3>3 DEF IInv, TabsAgree
    <3> QED BY <3>1, <3>2, <3>3
  <2>2. ASSUME NEW u \in Tabs, NEW q \in Peers, u \in ready' \ behind', q \notin unsaved'
        PROVE  cache'[u][q] = stored'[q]
    <3>1. CASE stored' = cache'[t] /\ behind' = ready \ {t}
          BY <1>6, <2>2, <3>1
    <3>2. CASE unsaved' = unsaved \union {p} /\ UNCHANGED <<stored, behind, lost>>
      <4>1. q # p /\ q \notin unsaved /\ u \in ready \ behind
            BY <1>6, <2>2, <3>2
      <4>2. cache[u][q] = stored[q]
            BY <4>1 DEF IInv, TabsAgree
      <4> QED BY <1>3, <1>4, <3>2, <4>1, <4>2
    <3> QED BY <1>8, <3>1, <3>2
  <2> QED BY <2>1, <2>2 DEF TabsAgree
<1>11. NamesKept'
  <2>1. ASSUME NEW q \in Peers \ (lost' \union unsaved')
        PROVE  stored'[q] = given'[q]
    <3>1. CASE /\ stored' = cache'[t]
               /\ lost' = (IF t \in behind THEN Peers ELSE lost) \ {p}
               /\ unsaved' = unsaved \ {p}
      <4>1. CASE q = p
            BY <1>3, <1>4, <1>7, <3>1, <4>1
      <4>2. CASE q # p
        <5>1. t \notin behind /\ q \notin lost /\ q \notin unsaved
              BY <2>1, <3>1, <4>2
        <5>2. stored[q] = given[q] /\ cache[t][q] = stored[q]
              BY <1>2, <5>1 DEF IInv, NamesKept
        <5> QED BY <1>3, <1>4, <1>7, <3>1, <4>2, <5>2
      <4> QED BY <4>1, <4>2
    <3>2. CASE unsaved' = unsaved \union {p} /\ UNCHANGED <<stored, behind, lost>>
          BY <1>7, <2>1, <3>2 DEF IInv, NamesKept
    <3> QED BY <1>8, <3>1, <3>2
  <2> QED BY <2>1 DEF NamesKept
<1> QED BY <1>9, <1>10, <1>11 DEF IInv

LEMMA ReloadKeeps ==
    ASSUME IInv, NEW t \in Tabs, Reload(t)
    PROVE  IInv'
<1>1. TypeOK'
      BY DEF IInv, TypeOK, Reload, Nameless, Unmounted, MaybeName
<1>2. TabsAgree'
      BY DEF IInv, TypeOK, TabsAgree, Reload, Unmounted
<1>3. NamesKept'
      BY DEF IInv, NamesKept, Reload
<1> QED BY <1>1, <1>2, <1>3 DEF IInv

-----------------------------------------------------------------------------
(* Theorems.                                                               *)

\* The invariant holds in every behaviour (peerNames.ts:7-52, usePeerName.ts:7-29).
THEOREM PeerNamesInvariant == Spec => []IInv
<1>1. Init => IInv
      BY DEF Init, IInv, TypeOK, TabsAgree, NamesKept, Nameless, Unmounted, MaybeName
<1>2. IInv /\ [Next]_vars => IInv'
  <2> SUFFICES ASSUME IInv, [Next]_vars PROVE IInv'
      OBVIOUS
  <2>1. CASE UNCHANGED vars
        BY <2>1 DEF vars, IInv, TypeOK, TabsAgree, NamesKept
  <2>2. CASE Next
    <3>1. PICK t \in Tabs :
            \/ Reload(t)
            \/ \E p \in Peers :
                 \/ Mount(t, p)
                 \/ Unmount(t, p)
                 \/ \E q \in Peers : Switch(t, p, q)
                 \/ Edit(t, p)
                 \/ \E text \in MaybeName : Type(t, p, text)
                 \/ Close(t, p)
                 \/ Save(t, p)
          BY <2>2 DEF Next
    <3>2. CASE Reload(t)
          BY <3>2, ReloadKeeps
    <3>3. ASSUME NEW p \in Peers,
                 \/ Mount(t, p)
                 \/ Unmount(t, p)
                 \/ \E q \in Peers : Switch(t, p, q)
                 \/ Edit(t, p)
                 \/ \E text \in MaybeName : Type(t, p, text)
                 \/ Close(t, p)
                 \/ Save(t, p)
          PROVE  IInv'
          BY <3>3, MountKeeps, UnmountKeeps, SwitchKeeps, EditorKeeps, SaveKeeps
    <3> QED BY <3>1, <3>2, <3>3
  <2> QED BY <2>1, <2>2
<1> QED BY <1>1, <1>2, PTL DEF Spec

\* The variables keep their types; components are mounted in tabs that have loaded the
\* names, and only mounted components have an editor open.
THEOREM PeerNamesTypeCorrect == Spec => []TypeOK
<1>1. IInv => TypeOK
      BY DEF IInv
<1> QED BY <1>1, PeerNamesInvariant, PTL

\* The name saved last for a peer is the stored one, unless a tab that was behind, or had
\* failed to load, saved or localStorage refused it (peerNames.ts:7-52).
THEOREM PeerNamesNamesKept == Spec => []NamesKept
<1>1. IInv => NamesKept
      BY DEF IInv
<1> QED BY <1>1, PeerNamesInvariant, PTL

\* The components of a tab show the tab's cache, and the cache of a tab that has loaded the
\* names and is not behind is what is stored, but for refused names (peerNames.ts:24-52, usePeerName.ts:7-29).
THEOREM PeerNamesTabsAgree == Spec => []TabsAgree
<1>1. IInv => TabsAgree
      BY DEF IInv
<1> QED BY <1>1, PeerNamesInvariant, PTL

=============================================================================
