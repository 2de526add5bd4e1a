---------------------------- MODULE EdgeCatalog ----------------------------
(***************************************************************************)
(* The signed catalog of the edge (prodx-pos-edge-sync): one tenant's       *)
(* products and catalog version in PostgreSQL, handleCatalog of             *)
(* src/index.ts with its two caches, verifySalePrices of                    *)
(* src/catalog-crypto.ts, and terminals that download the catalog page by   *)
(* page as README.md asks them to (lines 28 and 147).                       *)
(*                                                                         *)
(* A page may come from the edge cache, which holds any page answered       *)
(* before and may miss; from HYPERDRIVE_CACHED, which may answer with the   *)
(* result the statement had at any earlier time and may fail; or from the   *)
(* snapshot of HYPERDRIVE_DIRECT that the version was read from.            *)
(* A signature is that nobody but the Worker makes a proof; the 24 hours it *)
(* lasts, names and codes of products and tax rates (as the price) are left *)
(* out.                                                                    *)
(***************************************************************************)
EXTENDS Integers, FiniteSets, FiniteSetsExt

CONSTANTS
    Product,     \* product ids, in the order of the pages: positive numbers
    Price,
    Openings,    \* the catalogs a tenant may start with
    Limit,       \* rows of a page
    Terminal,
    MaxVersion,  \* bound: catalog versions
    MaxFaults,   \* bound: answers lost and requests failed
    None

Catalog == UNION {[S -> Price] : S \in SUBSET Product}

ASSUME CatalogAssumption ==
    /\ Product \subseteq Nat \ {0} /\ IsFiniteSet(Product)
    /\ Openings \subseteq Catalog
    /\ Limit \in Nat \ {0}
    /\ MaxVersion \in Nat \ {0} /\ MaxFaults \in Nat
    /\ None \notin Price

VARIABLES
    offers,     \* products: the price of each active one
    version,    \* tenant_catalog_versions: the version, 0 while there is no row
    published,  \* history: the catalog of each version
    pages,      \* every page signed so far; the edge cache holds some of them
    asked,      \* a terminal's request, with the snapshot its transaction reads
    download,   \* a terminal's partial catalog and the cursor it goes on from
    held,       \* the last catalog a terminal downloaded to the end
    faults

database == <<offers, version, published>>
terminals == <<download, held>>
vars == <<database, pages, asked, terminals, faults>>

\* The cursor null: before the first page, and after the last.
NoCursor == 0

Cursor == Product \cup {NoCursor}

\* Mutant: no version is assumed for a tenant without a row.
NamedAsStored(v) == v

\* A tenant without a version row reads as version 1.
Named(v) == IF v = 0 THEN 1 ELSE v

\* The first Limit active products after the cursor.
Rows(catalog, cursor) ==
    LET after == {p \in DOMAIN catalog : p > cursor}
    IN {p \in after : Cardinality({q \in after : q <= p}) <= Limit}

\* Mutant: the cursor is given only when more rows than the limit were read.
NextCursorBeyond(rows) == IF Cardinality(rows) > Limit THEN Max(rows) ELSE NoCursor

NextCursor(rows) == IF Cardinality(rows) = Limit THEN Max(rows) ELSE NoCursor

\* A signed page: the rows as read, under the version they are signed for.
Page(v, catalog, cursor) ==
    LET rows == Rows(catalog, cursor)
    IN [version |-> v, cursor |-> cursor, next |-> NextCursor(rows),
        items |-> [p \in rows |-> catalog[p]]]

Empty == [p \in {} |-> None]
Fresh == [version |-> 0, cursor |-> NoCursor, items |-> Empty]

TypeOK ==
    /\ offers \in Catalog
    /\ version \in 0 .. MaxVersion
    /\ published \subseteq [version : 1 .. MaxVersion, offers : Catalog]
    /\ pages \subseteq [version : 1 .. MaxVersion, cursor : Cursor, next : Cursor, items : Catalog]
    /\ asked \in [Terminal ->
          {None} \cup [version : 0 .. MaxVersion, offers : Catalog, cursor : Cursor]]
    /\ download \in [Terminal -> [version : 0 .. MaxVersion, cursor : Cursor, items : Catalog]]
    /\ held \in [Terminal -> {None} \cup [version : 1 .. MaxVersion, offers : Catalog]]
    /\ faults \in 0 .. MaxFaults

-----------------------------------------------------------------------------

\* The migration gives a version to the tenants that have products.
Init ==
    /\ offers \in Openings
    /\ version = IF DOMAIN offers = {} THEN 0 ELSE 1
    /\ published = {[version |-> 1, offers |-> offers]}
    /\ pages = {}
    /\ asked = [t \in Terminal |-> None]
    /\ download = [t \in Terminal |-> Fresh]
    /\ held = [t \in Terminal |-> None]
    /\ faults = 0

\* The version after one more row is written: 2 when the version row is new.
Bumped(v) == IF v = 0 THEN 2 ELSE v + 1

\* One transaction writes some rows: products are added, priced anew, or taken
\* off the list.  The trigger counts each row in the same transaction.
Publish ==
    \E written \in (SUBSET Product) \ {{}}:
       \E row \in [written -> Price \cup {None}]:
          LET after == (DOMAIN offers \ written) \cup {p \in written : row[p] # None}
              v == Bumped(version) + Cardinality(written) - 1
          IN /\ v <= MaxVersion
             /\ offers' = [p \in after |-> IF p \in written THEN row[p] ELSE offers[p]]
             /\ version' = v
             /\ published' = published \cup {[version |-> v, offers |-> offers']}
             /\ UNCHANGED <<pages, asked, terminals, faults>>

-----------------------------------------------------------------------------

\* A terminal asks for the page after its cursor; the REPEATABLE READ
\* transaction takes its snapshot and reads the version from it.
Ask(t) ==
    /\ asked[t] = None
    /\ asked' = [asked EXCEPT ![t] =
          [version |-> version, offers |-> offers, cursor |-> download[t].cursor]]
    /\ UNCHANGED <<database, pages, terminals, faults>>

\* The terminal appends the page; a page of another version makes it discard
\* what it has and start again.  The last page completes the catalog.
Receive(t, page) ==
    LET d == download[t]
        items == [p \in DOMAIN d.items \cup DOMAIN page.items |->
                     IF p \in DOMAIN page.items THEN page.items[p] ELSE d.items[p]]
        restarted == page.cursor # NoCursor /\ page.version # d.version
        complete == ~restarted /\ page.next = NoCursor
    IN /\ download' = [download EXCEPT ![t] =
             IF restarted \/ complete THEN Fresh
             ELSE [version |-> page.version, cursor |-> page.next, items |-> items]]
       /\ held' = IF complete
                  THEN [held EXCEPT ![t] = [version |-> page.version, offers |-> items]]
                  ELSE held

Answer(t, page) ==
    /\ Receive(t, page)
    /\ asked' = [asked EXCEPT ![t] = None]
    /\ UNCHANGED <<database, faults>>

\* A page of the edge cache answers under the version its key carries.
ServeFromEdge(t) ==
    /\ asked[t] # None
    /\ \E page \in pages:
          /\ page.version = Named(asked[t].version)
          /\ page.cursor = asked[t].cursor
          /\ Answer(t, page)
    /\ UNCHANGED pages

\* A fresh page is answered and put into the edge cache.
Serve(t, catalog) ==
    LET page == Page(Named(asked[t].version), catalog, asked[t].cursor)
    IN /\ pages' = pages \cup {page}
       /\ Answer(t, page)

\* Mutant: a cached result is taken whatever its version.
AcceptedAny(t, result) == TRUE

\* The rows of a result of the cached statement that the Worker accepts: those
\* that come with the version of the snapshot.  Without a version row the
\* statement has no result.
Accepted(t, result) == result.version = asked[t].version

ServeFromHyperdrive(t) ==
    /\ asked[t] # None
    /\ \E result \in published: Accepted(t, result) /\ Serve(t, result.offers)

\* Mutant: READ COMMITTED, the page is read anew.
SnapshotNow(t) == offers

\* What the direct statement reads: the snapshot.
Snapshot(t) == asked[t].offers

\* Mutant: a cached result of another version ends the request.
ServeDirectNever(t) ==
    /\ asked[t] # None
    /\ asked' = [asked EXCEPT ![t] = None]
    /\ UNCHANGED <<database, pages, terminals, faults>>

\* Every other outcome of the cached statement falls back to the snapshot.  A
\* catalog with rows and no version is refused.
ServeDirect(t) ==
    /\ asked[t] # None
    /\ asked[t].version # 0 \/ Rows(Snapshot(t), asked[t].cursor) = {}
    /\ Serve(t, Snapshot(t))

\* The request fails, or its page is signed and cached and the answer is lost:
\* the terminal asks again.
Fail(t) ==
    /\ asked[t] # None
    /\ faults < MaxFaults
    /\ faults' = faults + 1
    /\ asked' = [asked EXCEPT ![t] = None]
    /\ \/ UNCHANGED pages
       \/ pages' = pages \cup {Page(Named(asked[t].version), Snapshot(t), asked[t].cursor)}
    /\ UNCHANGED <<database, terminals>>

Handle(t) == ServeFromEdge(t) \/ ServeFromHyperdrive(t) \/ ServeDirect(t)

Next == Publish \/ \E t \in Terminal: Ask(t) \/ Handle(t) \/ Fail(t)

\* A terminal keeps its catalog up to date, and its requests are handled.
Fairness == \A t \in Terminal: WF_vars(Ask(t)) /\ WF_vars(Handle(t))

Spec == Init /\ [][Next]_vars /\ Fairness

-----------------------------------------------------------------------------

\* A price proof of a page.
Proofs == UNION {{[version |-> g.version, product |-> p, price |-> g.items[p]] : p \in DOMAIN g.items}
                 : g \in pages}

\* verifySalePrices: the lines of a sale under a version, with the proofs sent.
Verified(v, lines, proofs) ==
    /\ proofs # {}
    /\ \A f \in proofs: f.version = v
    /\ \A f, g \in proofs: f.product = g.product => f.price = g.price
    /\ {f.product : f \in proofs} = DOMAIN lines
    /\ \A f \in proofs: lines[f.product] = f.price

\* Whatever page a cache answers with and whatever is published meanwhile, a
\* catalog downloaded to the end is one published catalog: no product is
\* missing, none is stale, none is off the list.
HeldCatalogIsWhole == \A t \in Terminal: held[t] # None => held[t] \in published

\* The carts of one and two lines: a third adds nothing, since a version has
\* one catalog and each line is compared with it.
Carts == {lines \in Catalog : Cardinality(DOMAIN lines) \in 1 .. 2}

\* Whatever proofs a terminal picks from all pages ever signed, a sale that
\* verifies is priced as one published catalog, that of the sale's version.
VerifiedSaleIsListed ==
    \A lines \in Carts, v \in 1 .. MaxVersion:
       (\E proofs \in SUBSET {f \in Proofs : f.product \in DOMAIN lines}: Verified(v, lines, proofs)) =>
          \E c \in published: c.version = v /\ \A p \in DOMAIN lines:
             p \in DOMAIN c.offers /\ c.offers[p] = lines[p]

\* When the catalog stops changing, every terminal comes to hold it, through
\* stale caches, failed requests and downloads that start again.
CatalogArrives ==
    <>[](\A t \in Terminal: held[t] = [version |-> Named(version), offers |-> offers])

=============================================================================
