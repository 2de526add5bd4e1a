-------------------------- MODULE EdgeCatalogProofs --------------------------
(***************************************************************************)
(* A downloaded catalog is whole and a verified sale is priced as one       *)
(* published catalog, for any products, prices, page sizes and terminals.   *)
(*                                                                         *)
(* Two facts carry it: a page cuts the list after its cursor at the cursor  *)
(* it hands out, and every snapshot, page and partial catalog is a part of  *)
(* the one catalog that its version names.                                 *)
(***************************************************************************)
EXTENDS EdgeCatalog, Sums, FiniteSetTheorems, WellFoundedInduction, TLAPS

-----------------------------------------------------------------------------
(* What a page contains *)

LEMMA CatalogFields ==
    ASSUME NEW c \in Catalog
    PROVE  /\ DOMAIN c \in SUBSET Product /\ c \in [DOMAIN c -> Price]
           /\ DOMAIN c \subseteq Nat \ {0} /\ IsFiniteSet(DOMAIN c)
<1>1. PICK S \in SUBSET Product : c \in [S -> Price]
  BY DEF Catalog
<1>2. DOMAIN c = S /\ IsFiniteSet(S)
  BY <1>1, CatalogAssumption, FS_Subset
<1> QED BY <1>1, <1>2, CatalogAssumption

After(c, cursor) == {p \in DOMAIN c : p > cursor}

\* The rows of a page are those up to the cursor it hands out, or all that are
\* left when it hands out none.
LEMMA PageCuts ==
    ASSUME NEW c \in Catalog, NEW cursor \in Nat
    PROVE  LET rows == Rows(c, cursor)
               next == NextCursor(rows)
           IN /\ rows \subseteq After(c, cursor)
              /\ next = NoCursor => rows = After(c, cursor)
              /\ next # NoCursor =>
                    next \in rows /\ \A p \in After(c, cursor) : p \in rows <=> p <= next
<1> DEFINE after == After(c, cursor)
           rows == Rows(c, cursor)
           Down(p) == {q \in after : q <= p}
<1>1. after \in SUBSET Nat /\ after \subseteq Product /\ IsFiniteSet(after) /\ 0 \notin after
  BY CatalogFields, FS_Subset DEF After
<1>2. rows = {p \in after : Cardinality(Down(p)) <= Limit}
  BY DEF Rows, After
<1>3. rows \in SUBSET after /\ IsFiniteSet(rows) /\ Cardinality(rows) \in Nat
  BY <1>1, <1>2, FS_Subset, FS_CardinalityType
<1>4. ASSUME NEW p \in after
      PROVE  IsFiniteSet(Down(p)) /\ Cardinality(Down(p)) \in Nat
  BY <1>1, FS_Subset, FS_CardinalityType
<1>5. ASSUME NEW p \in after, NEW q \in after, p <= q
      PROVE  Cardinality(Down(p)) <= Cardinality(Down(q))
  <2>1. Down(p) \in SUBSET Down(q)
    BY <1>1, <1>5
  <2> QED BY <2>1, <1>4, FS_Subset
<1>6. ASSUME NEW m \in rows, \A n \in rows : n <= m
      PROVE  rows = Down(m)
  <2>1. Cardinality(Down(m)) <= Limit
    BY <1>2
  <2>2. ASSUME NEW p \in Down(m) PROVE p \in rows
    <3>1. p \in after /\ p <= m /\ m \in after
      BY <1>3
    <3>2. Cardinality(Down(p)) <= Cardinality(Down(m))
      BY <3>1, <1>5
    <3>3. Cardinality(Down(p)) <= Limit
      <4> HIDE DEF Down
      <4> QED BY <3>1, <3>2, <2>1, <1>4, CatalogAssumption
    <3> QED BY <3>1, <3>3, <1>2
  <2>3. rows \subseteq Down(m)
    BY <1>3, <1>6
  <2> QED BY <2>2, <2>3
<1>7. Cardinality(rows) <= Limit
  <2>1. CASE rows = {}
    BY <2>1, FS_EmptySet, CatalogAssumption
  <2>2. CASE rows # {}
    <3>1. PICK m \in rows : \A n \in rows : n <= m
      BY <2>2, <1>1, <1>3, Extremes
    <3>2. rows = Down(m)
      BY <3>1, <1>6
    <3> QED BY <3>2, <3>1, <1>2
  <2> QED BY <2>1, <2>2
<1>8. CASE Cardinality(rows) = Limit
  <2>1. rows # {}
    BY <1>8, FS_EmptySet, CatalogAssumption
  <2>2. \E m \in rows : \A n \in rows : m >= n
    <3>1. PICK m \in rows : \A n \in rows : n <= m
      BY <2>1, <1>1, <1>3, Extremes
    <3>2. \A n \in rows : n \in Nat /\ m \in Nat
      BY <1>1, <1>3
    <3> QED BY <3>1, <3>2
  <2>3. Max(rows) \in rows /\ \A n \in rows : Max(rows) >= n
    BY <2>2 DEF Max
  <2>4. \A n \in rows : n <= Max(rows)
    BY <2>3, <1>1, <1>3
  <2>5. rows = Down(Max(rows))
    BY <2>3, <2>4, <1>6
  <2>6. NextCursor(rows) = Max(rows) /\ Max(rows) # NoCursor
    BY <1>8, <2>3, <1>1, <1>3 DEF NextCursor, NoCursor
  <2> QED BY <2>3, <2>5, <2>6, <1>3
<1>9. CASE Cardinality(rows) # Limit
  <2>1. NextCursor(rows) = NoCursor
    BY <1>9 DEF NextCursor
  <2>2. SUFFICES ASSUME after \ rows # {} PROVE FALSE
    BY <2>1, <1>3
  <2>3. after \ rows \in SUBSET Nat /\ IsFiniteSet(after \ rows)
    BY <1>1, FS_Subset
  <2>4. PICK p \in after \ rows : \A q \in after \ rows : p <= q
    BY <2>2, <2>3, Extremes
  <2>5. Cardinality(Down(p)) > Limit
    <3>1. p \in after /\ ~(Cardinality(Down(p)) <= Limit)
      BY <2>4, <1>2
    <3>2. Cardinality(Down(p)) \in Nat
      BY <3>1, <1>4
    <3> HIDE DEF Down
    <3> QED BY <3>1, <3>2, CatalogAssumption
  <2>6. rows = Down(p) \ {p}
    <3>1. ASSUME NEW q \in Down(p) \ {p} PROVE q \in rows
      <4>1. q \in after /\ q <= p /\ q # p /\ q \in Nat /\ p \in Nat
        BY <1>1, <2>4
      <4> QED BY <4>1, <2>4
    <3>2. ASSUME NEW q \in rows PROVE q \in Down(p) \ {p}
      <4>1. q \in after /\ q # p /\ q \in Nat /\ p \in Nat
        BY <1>1, <1>3, <2>4
      <4>2. ASSUME p <= q PROVE FALSE
        <5>1. Cardinality(Down(p)) <= Cardinality(Down(q))
          BY <4>1, <4>2, <2>4, <1>5
        <5>2. Cardinality(Down(q)) <= Limit
          BY <1>2
        <5> QED BY <5>1, <5>2, <2>5, <1>4, <4>1, <2>4, CatalogAssumption
      <4> QED BY <4>1, <4>2
    <3> QED BY <3>1, <3>2
  <2>7. Cardinality(rows) = Cardinality(Down(p)) - 1
    <3>1. p \in Down(p) /\ IsFiniteSet(Down(p))
      BY <2>4, <1>1, <1>4
    <3> QED BY <3>1, <2>6, FS_RemoveElement
  <2> QED BY <2>7, <2>5, <1>7, <1>9, <1>3, <1>4, <2>4, CatalogAssumption
<1> QED BY <1>3, <1>8, <1>9

-----------------------------------------------------------------------------
(* The invariant *)

\* A part of a catalog.
Part(c, S) == [p \in S |-> c[p]]

UpTo(c, n) == Part(c, {p \in DOMAIN c : p <= n})

\* Each version names one catalog, and the last names the catalog there is.
Versions ==
    /\ [version |-> Named(version), offers |-> offers] \in published
    /\ \A c \in published : c.version <= Named(version)
    /\ \A c, d \in published : c.version = d.version => c = d

\* A request reads the catalog its version names, for the page that its
\* terminal goes on with.
Requests ==
    \A t \in Terminal : asked[t] # None =>
        /\ [version |-> Named(asked[t].version), offers |-> asked[t].offers] \in published
        /\ asked[t].cursor = download[t].cursor

PageOf(g, c) == g = Page(c.version, c.offers, g.cursor)

PagesAreParts == \A g \in pages : \E c \in published : PageOf(g, c)

\* A partial catalog is what its version lists up to its cursor.
PartialOf(d, c) == c.version = d.version /\ d.items = UpTo(c.offers, d.cursor)

DownloadsAreParts ==
    \A t \in Terminal :
        \/ download[t] = Fresh
        \/ download[t].cursor # NoCursor /\ \E c \in published : PartialOf(download[t], c)

IInv ==
    TypeOK /\ Versions /\ Requests /\ PagesAreParts /\ DownloadsAreParts /\ HeldCatalogIsWhole

LEMMA CatalogParts ==
    ASSUME NEW c \in Catalog, NEW S \in SUBSET DOMAIN c
    PROVE  Part(c, S) \in Catalog
<1>1. Part(c, S) \in [S -> Price] /\ S \in SUBSET Product
  BY CatalogFields DEF Part
<1> QED BY <1>1 DEF Catalog

LEMMA EmptyIsCatalog == Empty \in Catalog
<1>1. Empty \in [{} -> Price] /\ {} \in SUBSET Product
  BY DEF Empty
<1> QED BY <1>1 DEF Catalog

LEMMA PageFields ==
    ASSUME NEW c \in [version : 1 .. MaxVersion, offers : Catalog], NEW cursor \in Cursor
    PROVE  LET g == Page(c.version, c.offers, cursor)
               rows == Rows(c.offers, cursor)
           IN /\ g \in [version : 1 .. MaxVersion, cursor : Cursor, next : Cursor, items : Catalog]
              /\ g.version = c.version /\ g.cursor = cursor
              /\ g.next = NextCursor(rows)
              /\ g.items = Part(c.offers, rows)
              /\ rows \subseteq DOMAIN c.offers
<1> DEFINE rows == Rows(c.offers, cursor)
<1>1. cursor \in Nat /\ c.offers \in Catalog
  BY CatalogAssumption DEF Cursor, NoCursor
<1>2. rows \subseteq DOMAIN c.offers
  BY DEF Rows
<1>3. Part(c.offers, rows) \in Catalog
  BY <1>1, <1>2, CatalogParts
<1>4. NextCursor(rows) \in Cursor
  <2>1. NextCursor(rows) # NoCursor => NextCursor(rows) \in rows
    BY <1>1, PageCuts
  <2> QED BY <2>1, <1>1, <1>2, CatalogFields DEF Cursor
<1> HIDE DEF rows
<1>5. Page(c.version, c.offers, cursor) =
         [version |-> c.version, cursor |-> cursor, next |-> NextCursor(rows),
          items |-> Part(c.offers, rows)]
  BY DEF Page, Part, rows
<1> QED BY <1>2, <1>3, <1>4, <1>5 DEF rows

-----------------------------------------------------------------------------
(* The steps *)

LEMMA InitHolds == Init => IInv
<1> SUFFICES ASSUME Init PROVE IInv
  OBVIOUS
<1>1. offers \in Catalog
  BY CatalogAssumption DEF Init
<1>2. version \in {0, 1} /\ Named(version) = 1
  BY DEF Init, Named
<1>3. TypeOK
  <2>1. published \subseteq [version : 1 .. MaxVersion, offers : Catalog]
    BY <1>1, CatalogAssumption DEF Init
  <2>2. version \in 0 .. MaxVersion /\ faults \in 0 .. MaxFaults
    BY <1>2, CatalogAssumption DEF Init
  <2>3. Fresh \in [version : 0 .. MaxVersion, cursor : Cursor, items : Catalog]
    BY EmptyIsCatalog, CatalogAssumption DEF Fresh, Cursor
  <2> QED BY <1>1, <2>1, <2>2, <2>3 DEF Init, TypeOK
<1>4. Versions
  BY <1>2 DEF Init, Versions
<1>5. Requests /\ PagesAreParts /\ DownloadsAreParts /\ HeldCatalogIsWhole
  BY DEF Init, Requests, PagesAreParts, DownloadsAreParts, HeldCatalogIsWhole
<1> QED BY <1>3, <1>4, <1>5 DEF IInv

Download == [version : 0 .. MaxVersion, cursor : Cursor, items : Catalog]
Numbered == [version : 1 .. MaxVersion, offers : Catalog]

\* A page of a published catalog extends a partial catalog to a longer part of
\* the same catalog, completes it, or makes the terminal start again.
LEMMA Received ==
    ASSUME IInv, NEW t \in Terminal, NEW c \in published, NEW page,
           page = Page(c.version, c.offers, download[t].cursor), Receive(t, page)
    PROVE  /\ download' \in [Terminal -> Download]
           /\ held' \in [Terminal -> {None} \cup Numbered]
           /\ \A u \in Terminal : u # t => download'[u] = download[u] /\ held'[u] = held[u]
           /\ \/ download'[t] = Fresh
              \/ download'[t].cursor # NoCursor /\ PartialOf(download'[t], c)
           /\ held'[t] = held[t] \/ held'[t] = c
<1> DEFINE d == download[t]
           rows == Rows(c.offers, d.cursor)
           next == NextCursor(rows)
           items == [p \in DOMAIN d.items \cup DOMAIN page.items |->
                        IF p \in DOMAIN page.items THEN page.items[p] ELSE d.items[p]]
           restarted == page.cursor # NoCursor /\ page.version # d.version
           complete == ~restarted /\ page.next = NoCursor
           longer == [version |-> page.version, cursor |-> page.next, items |-> items]
<1>1. c \in Numbered /\ d \in Download /\ d.cursor \in Cursor /\ d.cursor \in Nat
  BY CatalogAssumption DEF IInv, TypeOK, Numbered, Download, Cursor, NoCursor
<1>2. /\ page.version = c.version /\ page.cursor = d.cursor /\ page.next = next
      /\ page.items = Part(c.offers, rows) /\ rows \subseteq DOMAIN c.offers
      /\ page.next \in Cursor
  <2>1. page \in [version : 1 .. MaxVersion, cursor : Cursor, next : Cursor, items : Catalog]
    BY <1>1, PageFields DEF Numbered
  <2> QED BY <2>1, <1>1, PageFields DEF Numbered
<1>3. /\ rows \subseteq After(c.offers, d.cursor)
      /\ next = NoCursor => rows = After(c.offers, d.cursor)
      /\ next # NoCursor =>
            /\ next \in rows
            /\ \A p \in After(c.offers, d.cursor) : p \in rows <=> p <= next
  BY <1>1, PageCuts DEF Numbered
<1>4. c.offers \in Catalog /\ DOMAIN c.offers \subseteq Nat \ {0}
      /\ c.offers = Part(c.offers, DOMAIN c.offers)
  BY <1>1, CatalogFields DEF Numbered, Part
<1>5. /\ download' = [download EXCEPT ![t] = IF restarted \/ complete THEN Fresh ELSE longer]
      /\ held' = IF complete
                 THEN [held EXCEPT ![t] = [version |-> page.version, offers |-> items]]
                 ELSE held
  BY DEF Receive
<1>6. /\ download \in [Terminal -> Download] /\ held \in [Terminal -> {None} \cup Numbered]
      /\ Fresh \in Download
  <2>1. Fresh \in Download
    BY EmptyIsCatalog, CatalogAssumption DEF Fresh, Download, Cursor
  <2> QED BY <2>1 DEF IInv, TypeOK, Download, Numbered
\* What the terminal has before the page.
<1>7. ASSUME ~restarted
      PROVE  d.items = Part(c.offers, {p \in DOMAIN c.offers : p <= d.cursor})
  <2>1. CASE d = Fresh
    <3>1. {p \in DOMAIN c.offers : p <= d.cursor} = {}
      BY <2>1, <1>4 DEF Fresh, NoCursor
    <3> QED BY <2>1, <3>1 DEF Fresh, Empty, Part
  <2>2. CASE d # Fresh
    <3>1. PICK b \in published : PartialOf(d, b)
      BY <2>2 DEF IInv, DownloadsAreParts
    <3>2. d.cursor # NoCursor
      BY <2>2 DEF IInv, DownloadsAreParts
    <3>3. b.version = c.version
      BY <3>1, <3>2, <1>7, <1>2 DEF PartialOf
    <3>4. b = c
      BY <3>3 DEF IInv, Versions
    <3> QED BY <3>1, <3>4 DEF PartialOf, UpTo
  <2> QED BY <2>1, <2>2
\* What it has with the page.
<1>8. ASSUME ~restarted
      PROVE  items = Part(c.offers, {p \in DOMAIN c.offers : p <= d.cursor} \cup rows)
  <2>1. d.items = Part(c.offers, {p \in DOMAIN c.offers : p <= d.cursor})
    BY <1>8, <1>7
  <2> HIDE DEF rows
  <2> QED BY <2>1, <1>2 DEF Part
<1>9. ASSUME ~restarted, page.next = NoCursor
      PROVE  [version |-> page.version, offers |-> items] = c
  <2>1. {p \in DOMAIN c.offers : p <= d.cursor} \cup rows = DOMAIN c.offers
    <3>1. rows = After(c.offers, d.cursor)
      BY <1>9, <1>2, <1>3
    <3>2. \A p \in DOMAIN c.offers : p <= d.cursor \/ p > d.cursor
      BY <1>1, <1>4
    <3> QED BY <3>1, <3>2 DEF After
  <2>2. items = c.offers
    BY <2>1, <1>8, <1>9, <1>4
  <2> HIDE DEF items
  <2> QED BY <2>2, <1>1, <1>2 DEF Numbered
<1>10. ASSUME ~restarted, page.next # NoCursor
       PROVE  longer \in Download /\ longer.cursor # NoCursor /\ PartialOf(longer, c)
  <2>1. {p \in DOMAIN c.offers : p <= d.cursor} \cup rows = {p \in DOMAIN c.offers : p <= next}
    <3>1. next \in DOMAIN c.offers /\ next > d.cursor /\ next \in Nat
      BY <1>10, <1>2, <1>3, <1>4 DEF After
    <3>2. ASSUME NEW p \in DOMAIN c.offers
          PROVE  p <= d.cursor \/ p \in rows <=> p <= next
      <4>1. p \in Nat /\ d.cursor \in Nat
        BY <1>1, <1>4
      <4>2. p > d.cursor => (p \in rows <=> p <= next)
        BY <1>10, <1>2, <1>3 DEF After
      <4>3. p \in rows => p > d.cursor
        BY <1>3 DEF After
      <4> HIDE DEF rows, next
      <4> QED BY <3>1, <4>1, <4>2, <4>3
    <3> QED BY <3>2, <1>2
  <2>2. items = UpTo(c.offers, page.next)
    BY <2>1, <1>8, <1>10, <1>2 DEF UpTo
  <2>3. UpTo(c.offers, page.next) \in Catalog
    BY <1>4, CatalogParts DEF UpTo
  <2> HIDE DEF items
  <2> QED BY <2>2, <2>3, <1>10, <1>1, <1>2 DEF Download, PartialOf, Numbered
<1> HIDE DEF longer, restarted, items
<1>11. CASE restarted
  BY <1>11, <1>5, <1>6
<1>12. CASE ~restarted /\ page.next = NoCursor
  BY <1>12, <1>1, <1>5, <1>6, <1>9
<1>13. CASE ~restarted /\ page.next # NoCursor
  BY <1>13, <1>5, <1>6, <1>10
<1> QED BY <1>11, <1>12, <1>13

\* A terminal gets a page of a published catalog.
LEMMA Answered ==
    ASSUME IInv, NEW t \in Terminal, asked[t] # None, NEW c \in published, NEW page,
           page = Page(c.version, c.offers, asked[t].cursor), Answer(t, page),
           pages' = pages \/ pages' = pages \cup {page}
    PROVE  IInv'
<1>1. download[t].cursor = asked[t].cursor
  BY DEF IInv, Requests
<1>2. /\ download' \in [Terminal -> Download]
      /\ held' \in [Terminal -> {None} \cup Numbered]
      /\ \A u \in Terminal : u # t => download'[u] = download[u] /\ held'[u] = held[u]
      /\ \/ download'[t] = Fresh
         \/ download'[t].cursor # NoCursor /\ PartialOf(download'[t], c)
      /\ held'[t] = held[t] \/ held'[t] = c
  BY <1>1, Received DEF Answer
<1>3. /\ UNCHANGED <<offers, version, published, faults>>
      /\ asked' = [asked EXCEPT ![t] = None]
  BY DEF Answer, database
<1>4. c \in Numbered /\ asked[t].cursor \in Cursor
  BY DEF IInv, TypeOK, Numbered
<1>5. /\ page \in [version : 1 .. MaxVersion, cursor : Cursor, next : Cursor, items : Catalog]
      /\ page.cursor = asked[t].cursor
  BY <1>4, PageFields DEF Numbered
<1>6. TypeOK'
  <2>1. asked' \in [Terminal ->
           {None} \cup [version : 0 .. MaxVersion, offers : Catalog, cursor : Cursor]]
    BY <1>3 DEF IInv, TypeOK
  <2>2. pages' \subseteq [version : 1 .. MaxVersion, cursor : Cursor, next : Cursor, items : Catalog]
    BY <1>5 DEF IInv, TypeOK
  <2> QED BY <2>1, <2>2, <1>2, <1>3 DEF IInv, TypeOK, Download, Numbered
<1>7. Versions'
  BY <1>3 DEF IInv, Versions, Named
<1>8. Requests'
  <2>1. ASSUME NEW u \in Terminal, asked'[u] # None
        PROVE  /\ u # t /\ asked'[u] = asked[u] /\ download'[u] = download[u]
    BY <2>1, <1>2, <1>3 DEF IInv, TypeOK
  <2> QED BY <2>1, <1>3 DEF IInv, Requests, Named
<1>9. PagesAreParts'
  <2>1. PageOf(page, c)
    BY <1>5 DEF PageOf
  <2> QED BY <2>1, <1>3 DEF IInv, PagesAreParts, PageOf
<1>10. DownloadsAreParts'
  BY <1>2, <1>3 DEF IInv, DownloadsAreParts, PartialOf
<1>11. HeldCatalogIsWhole'
  <2>1. ASSUME NEW u \in Terminal, held'[u] # None PROVE held'[u] \in published
    BY <2>1, <1>2 DEF IInv, HeldCatalogIsWhole
  <2> QED BY <2>1, <1>3 DEF HeldCatalogIsWhole
<1> QED BY <1>6, <1>7, <1>8, <1>9, <1>10, <1>11 DEF IInv

LEMMA EdgeKeeps ==
    ASSUME IInv, NEW t \in Terminal, ServeFromEdge(t) PROVE IInv'
<1>1. PICK page \in pages : /\ page.version = Named(asked[t].version)
                            /\ page.cursor = asked[t].cursor
                            /\ Answer(t, page)
  BY DEF ServeFromEdge
<1>2. PICK c \in published : PageOf(page, c)
  BY DEF IInv, PagesAreParts
<1> QED BY <1>1, <1>2, Answered DEF ServeFromEdge, PageOf

LEMMA HyperdriveKeeps ==
    ASSUME IInv, NEW t \in Terminal, ServeFromHyperdrive(t) PROVE IInv'
<1>1. PICK result \in published : Accepted(t, result) /\ Serve(t, result.offers)
  BY DEF ServeFromHyperdrive
<1>2. result.version = Named(asked[t].version)
  <2>1. result.version \in 1 .. MaxVersion
    BY DEF IInv, TypeOK
  <2> QED BY <2>1, <1>1, CatalogAssumption DEF Accepted, Named
<1> QED BY <1>1, <1>2, Answered DEF ServeFromHyperdrive, Serve

LEMMA DirectKeeps ==
    ASSUME IInv, NEW t \in Terminal, ServeDirect(t) PROVE IInv'
<1>1. [version |-> Named(asked[t].version), offers |-> asked[t].offers] \in published
  BY DEF IInv, Requests, ServeDirect
<1> QED BY <1>1, Answered DEF ServeDirect, Serve, Snapshot

LEMMA FailKeeps ==
    ASSUME IInv, NEW t \in Terminal, Fail(t) PROVE IInv'
<1> DEFINE c == [version |-> Named(asked[t].version), offers |-> asked[t].offers]
           page == Page(c.version, c.offers, asked[t].cursor)
<1>1. /\ c \in published
      /\ UNCHANGED <<offers, version, published, download, held>>
      /\ asked' = [asked EXCEPT ![t] = None]
      /\ asked[t] # None
  BY DEF IInv, Requests, Fail, database, terminals
<1>2. pages' = pages \/ pages' = pages \cup {page}
  BY DEF Fail, Snapshot
<1>3. /\ page \in [version : 1 .. MaxVersion, cursor : Cursor, next : Cursor, items : Catalog]
      /\ page.cursor = asked[t].cursor
  <2>1. c \in [version : 1 .. MaxVersion, offers : Catalog] /\ asked[t].cursor \in Cursor
    BY <1>1 DEF IInv, TypeOK
  <2> HIDE DEF c
  <2> QED BY <2>1, PageFields
<1>4. TypeOK'
  <2>1. asked' \in [Terminal ->
           {None} \cup [version : 0 .. MaxVersion, offers : Catalog, cursor : Cursor]]
    BY <1>1 DEF IInv, TypeOK
  <2>2. faults' \in 0 .. MaxFaults
    BY CatalogAssumption DEF IInv, TypeOK, Fail
  <2>3. pages' \subseteq [version : 1 .. MaxVersion, cursor : Cursor, next : Cursor, items : Catalog]
    BY <1>2, <1>3 DEF IInv, TypeOK
  <2> QED BY <2>1, <2>2, <2>3, <1>1 DEF IInv, TypeOK
<1>5. Versions'
  BY <1>1 DEF IInv, Versions, Named
<1>6. Requests'
  <2>1. ASSUME NEW u \in Terminal, asked'[u] # None PROVE u # t /\ asked'[u] = asked[u]
    BY <2>1, <1>1 DEF IInv, TypeOK
  <2> QED BY <2>1, <1>1 DEF IInv, Requests, Named
<1>7. PagesAreParts'
  <2>1. PageOf(page, c)
    BY <1>3 DEF PageOf
  <2> HIDE DEF page, c
  <2> QED BY <2>1, <1>1, <1>2 DEF IInv, PagesAreParts, PageOf
<1>8. DownloadsAreParts' /\ HeldCatalogIsWhole'
  BY <1>1 DEF IInv, DownloadsAreParts, PartialOf, HeldCatalogIsWhole
<1> QED BY <1>4, <1>5, <1>6, <1>7, <1>8 DEF IInv

LEMMA AskKeeps ==
    ASSUME IInv, NEW t \in Terminal, Ask(t) PROVE IInv'
<1>1. /\ UNCHANGED <<offers, version, published, pages, download, held, faults>>
      /\ asked' = [asked EXCEPT ![t] =
            [version |-> version, offers |-> offers, cursor |-> download[t].cursor]]
  BY DEF Ask, database, terminals
<1>2. TypeOK'
  BY <1>1 DEF IInv, TypeOK
<1>3. Requests'
  <2>1. ASSUME NEW u \in Terminal, asked'[u] # None
        PROVE  /\ [version |-> Named(asked'[u].version), offers |-> asked'[u].offers] \in published
               /\ asked'[u].cursor = download[u].cursor
    <3>1. CASE u = t
      BY <3>1, <1>1 DEF IInv, TypeOK, Versions
    <3>2. CASE u # t
      BY <3>2, <2>1, <1>1 DEF IInv, TypeOK, Requests
    <3> QED BY <3>1, <3>2
  <2> QED BY <2>1, <1>1 DEF Requests, Named
<1>4. Versions' /\ PagesAreParts' /\ DownloadsAreParts' /\ HeldCatalogIsWhole'
  BY <1>1 DEF IInv, Versions, Named, PagesAreParts, PageOf, DownloadsAreParts, PartialOf,
     HeldCatalogIsWhole
<1> QED BY <1>2, <1>3, <1>4 DEF IInv

\* A transaction gives the catalog it leaves a version of its own.
LEMMA PublishKeeps == ASSUME IInv, Publish PROVE IInv'
<1>0. PICK written \in (SUBSET Product) \ {{}} : \E row \in [written -> Price \cup {None}] :
         LET after == (DOMAIN offers \ written) \cup {p \in written : row[p] # None}
             v == Bumped(version) + Cardinality(written) - 1
         IN /\ v <= MaxVersion
            /\ offers' = [p \in after |-> IF p \in written THEN row[p] ELSE offers[p]]
            /\ version' = v
            /\ published' = published \cup {[version |-> v, offers |-> offers']}
            /\ UNCHANGED <<pages, asked, terminals, faults>>
  BY DEF Publish
<1>1. PICK row \in [written -> Price \cup {None}] :
         LET after == (DOMAIN offers \ written) \cup {p \in written : row[p] # None}
             v == Bumped(version) + Cardinality(written) - 1
         IN /\ v <= MaxVersion
            /\ offers' = [p \in after |-> IF p \in written THEN row[p] ELSE offers[p]]
            /\ version' = v
            /\ published' = published \cup {[version |-> v, offers |-> offers']}
            /\ UNCHANGED <<pages, asked, terminals, faults>>
  BY <1>0
<1> DEFINE after == (DOMAIN offers \ written) \cup {p \in written : row[p] # None}
           new == [version |-> version', offers |-> offers']
<1>2. offers' \in Catalog
  <2>1. offers \in [DOMAIN offers -> Price] /\ DOMAIN offers \in SUBSET Product
    BY CatalogFields DEF IInv, TypeOK
  <2>2. offers' \in [after -> Price] /\ after \in SUBSET Product
    BY <1>1, <2>1
  <2> QED BY <2>2 DEF Catalog
<1>3. version' \in 2 .. MaxVersion /\ version' > Named(version) /\ Named(version)' = version'
  <2>1. Cardinality(written) \in Nat /\ Cardinality(written) > 0
    <3>0. written \in SUBSET Product /\ written # {}
      BY <1>0
    <3>1. IsFiniteSet(written) /\ written # {}
      BY <3>0, CatalogAssumption, FS_Subset
    <3>2. Cardinality(written) \in Nat
      BY <3>1, FS_CardinalityType
    <3>3. Cardinality(written) # 0
      BY <3>1, FS_EmptySet
    <3> QED BY <3>2, <3>3
  <2>2. version \in Nat
    BY CatalogAssumption DEF IInv, TypeOK
  <2>3. version' = Bumped(version) + Cardinality(written) - 1 /\ version' <= MaxVersion
    BY <1>1
  <2> QED BY <2>1, <2>2, <2>3, CatalogAssumption DEF Bumped, Named
<1>4. /\ published' = published \cup {new}
      /\ UNCHANGED <<pages, asked, download, held, faults>>
  BY <1>1 DEF terminals
<1> HIDE DEF new
<1>5. new \in [version : 1 .. MaxVersion, offers : Catalog] /\ new.version = version'
  BY <1>2, <1>3 DEF new
<1>6. TypeOK'
  BY <1>2, <1>3, <1>4, <1>5 DEF IInv, TypeOK
<1>7. Versions'
  <2>1. \A c \in published : c.version \in Nat /\ c.version <= Named(version) /\ Named(version) \in Nat
    BY CatalogAssumption DEF IInv, TypeOK, Versions, Named
  <2>2. \A c \in published : c.version < version'
    BY <2>1, <1>3
  <2>3. \A c, d \in published' : c.version = d.version => c = d
    BY <2>1, <2>2, <1>3, <1>4, <1>5 DEF IInv, Versions
  <2>4. \A c \in published' : c.version <= Named(version)'
    BY <2>1, <2>2, <1>3, <1>4, <1>5
  <2>5. [version |-> Named(version)', offers |-> offers'] \in published'
    BY <1>3, <1>4 DEF new
  <2> QED BY <2>3, <2>4, <2>5 DEF Versions
<1>8. Requests' /\ PagesAreParts' /\ DownloadsAreParts' /\ HeldCatalogIsWhole'
  BY <1>4 DEF IInv, Requests, Named, PagesAreParts, PageOf, DownloadsAreParts, PartialOf,
     HeldCatalogIsWhole
<1> QED BY <1>6, <1>7, <1>8 DEF IInv

LEMMA Invariance == Spec => []IInv
<1>1. IInv /\ [Next]_vars => IInv'
  <2> SUFFICES ASSUME IInv, [Next]_vars PROVE IInv'
    OBVIOUS
  <2>1. CASE Publish
    BY <2>1, PublishKeeps
  <2>2. ASSUME NEW t \in Terminal, Ask(t) \/ Handle(t) \/ Fail(t) PROVE IInv'
    BY <2>2, AskKeeps, EdgeKeeps, HyperdriveKeeps, DirectKeeps, FailKeeps DEF Handle
  <2>3. CASE UNCHANGED vars
    BY <2>3 DEF vars, database, terminals, IInv, TypeOK, Versions, Named, Requests, PagesAreParts,
       PageOf, DownloadsAreParts, PartialOf, HeldCatalogIsWhole
  <2> QED BY <2>1, <2>2, <2>3 DEF Next
<1> QED BY InitHolds, <1>1, PTL DEF Spec

-----------------------------------------------------------------------------
(* The theorems *)

\* The database, the pages and what the terminals hold keep their types: every
\* page is signed under a version from 1 up (index.ts:147-151).
THEOREM CatalogTypes == Spec => []TypeOK
<1>1. IInv => TypeOK
  BY DEF IInv
<1> QED BY <1>1, Invariance, PTL

\* A catalog that a terminal has downloaded to the end is a published one,
\* whichever cache each page came from and whatever was published meanwhile.
THEOREM HeldCatalogs == Spec => []HeldCatalogIsWhole
<1>1. IInv => HeldCatalogIsWhole
  BY DEF IInv
<1> QED BY <1>1, Invariance, PTL

\* A sale that verifySalePrices lets through is priced as the one catalog that
\* its version names, whichever proofs the terminal picked.
THEOREM VerifiedSales == Spec => []VerifiedSaleIsListed
<1>1. ASSUME IInv, NEW lines \in Carts, NEW v \in 1 .. MaxVersion, NEW proofs \in SUBSET Proofs,
             Verified(v, lines, proofs)
      PROVE  \E c \in published : c.version = v /\ \A p \in DOMAIN lines :
                p \in DOMAIN c.offers /\ c.offers[p] = lines[p]
  <2>1. ASSUME NEW f \in proofs
        PROVE  \E c \in published : /\ c.version = v /\ f.product \in DOMAIN c.offers
                                    /\ c.offers[f.product] = f.price
    <3>1. PICK g \in pages : \E p \in DOMAIN g.items :
             f = [version |-> g.version, product |-> p, price |-> g.items[p]]
      BY DEF Proofs
    <3>2. PICK c \in published : PageOf(g, c)
      BY <1>1 DEF IInv, PagesAreParts
    <3>3. c \in [version : 1 .. MaxVersion, offers : Catalog] /\ g.cursor \in Cursor
      BY <1>1 DEF IInv, TypeOK
    <3>4. /\ g.version = c.version
          /\ g.items = Part(c.offers, Rows(c.offers, g.cursor))
          /\ Rows(c.offers, g.cursor) \subseteq DOMAIN c.offers
      BY <3>2, <3>3, PageFields DEF PageOf
    <3>5. f.version = v
      BY <1>1 DEF Verified
    <3> QED BY <3>1, <3>4, <3>5 DEF Part
  <2>2. PICK f \in proofs : TRUE
    BY <1>1 DEF Verified
  <2>3. PICK c \in published : c.version = v
    BY <2>1, <2>2
  <2>4. ASSUME NEW p \in DOMAIN lines
        PROVE  p \in DOMAIN c.offers /\ c.offers[p] = lines[p]
    <3>1. PICK g \in proofs : g.product = p /\ lines[p] = g.price
      BY <1>1 DEF Verified
    <3>2. PICK d \in published : /\ d.version = v /\ p \in DOMAIN d.offers
                                 /\ d.offers[p] = g.price
      BY <3>1, <2>1
    <3>3. d = c
      BY <3>2, <2>3, <1>1 DEF IInv, Versions
    <3> QED BY <3>1, <3>2, <3>3
  <2> QED BY <2>3, <2>4
<1>2. IInv => VerifiedSaleIsListed
  BY <1>1 DEF VerifiedSaleIsListed
<1> QED BY <1>2, Invariance, PTL

==============================================================================
