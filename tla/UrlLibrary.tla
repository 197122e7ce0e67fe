------------------------------ MODULE UrlLibrary ------------------------------
(* Saved URLs, their collections and their purposes under requests that      *)
(* overlap (url.service, collection.routes, collectorPurpose.service).  A    *)
(* page has one canonical address and may be asked for under another         *)
(* spelling of it; a row may be older than the column canonical_url.  The    *)
(* database keeps canonical addresses unique, and makes a statement wait for *)
(* what a transaction has written under the same key and not yet committed.  *)
EXTENDS Naturals, Sequences, FiniteSets, SequencesExt

CONSTANTS
    Requests,
    Pages,
    Collections,
    MaxRow,       \* bound: row ids
    MaxDeleted,   \* bound: pages and collections deleted, while all requests
                  \* are under way
    Nobody

(* Nobody is no request and no row; there are ids for as many rows as pages. *)
ASSUME LibraryAssumption ==
    /\ Nobody \notin Requests \cup Nat
    /\ IsFiniteSet(Pages) /\ MaxRow \in Nat /\ Cardinality(Pages) <= MaxRow

VARIABLES
    next,       \* the id of the next row
    rows,       \* Url rows by id; by: the open transaction that wrote the row
    members,    \* CollectionUrl: pairs of a collection and a row
    links,      \* CollectorPurposeUrl: pairs of the request that made it, a row
    open,       \* collections that exist
    scheduled,  \* rows handed to the tagging queue
    gone,       \* pages of which a row has been deleted
    ask,        \* what a request asks for
    at,         \* its next statement, or its answer
    item,       \* the page it is working on
    row,        \* the row it found or wrote
    made,       \* rows it will hand to the tagging queue
    cleared,    \* memberships its open transaction has deleted
    disturbed   \* requests whose page got or lost members during their
                \* transaction

requestVars == <<at, item, row, made, cleared>>
storeVars == <<next, rows, members, links, open, scheduled, gone>>
libraryVars == <<next, rows, members, links, open, scheduled, gone, ask, requestVars,
                 disturbed>>

Ids == 1..MaxRow
Spellings == {"canonical", "other"}
Row == [page : Pages, spelling : Spellings, canonical : BOOLEAN,
        tagged : BOOLEAN, by : {Nobody} \cup Requests]
Single == {<<p>> : p \in Pages}
Selections == Single \cup UNION {{<<p, q>> : q \in Pages \ {p}} : p \in Pages}
Asks ==
    [kind : {"save", "purpose"}, pages : Selections, spelling : Spellings, want : {{}}]
    \cup [kind : {"assign"}, pages : Single, spelling : Spellings,
          want : SUBSET Collections]
    \cup [kind : {"add", "remove"}, pages : Single, spelling : Spellings,
          want : {{c} : c \in Collections}]
Answers == {"ok", "missing", "failed"}
Statements == {"look", "create", "schedule", "existing", "collection", "find",
               "patch", "insert", "join", "check", "clear", "fill", "detach",
               "select", "insertInTx", "link", "commit"}

LibraryTypeOK ==
    /\ next \in 1..MaxRow + 1
    /\ DOMAIN rows \subseteq 1..next - 1 /\ rows \in [DOMAIN rows -> Row]
    /\ members \subseteq Collections \X DOMAIN rows
    /\ links \subseteq Requests \X DOMAIN rows
    /\ open \subseteq Collections /\ gone \subseteq Pages
    /\ scheduled \subseteq Ids
    /\ \A r \in Requests : ask[r] \in Asks
    /\ at \in [Requests -> Statements \cup Answers]
    /\ item \in [Requests -> Nat \ {0}]
    /\ \A r \in Requests : item[r] <= Len(ask[r].pages) + 1
    /\ row \in [Requests -> {Nobody} \cup Ids]
    /\ made \in [Requests -> SUBSET Ids]
    /\ cleared \in [Requests -> SUBSET members]
    /\ disturbed \subseteq Requests

Page(r) == ask[r].pages[item[r]]
LastItem(r) == item[r] = Len(ask[r].pages)
First(kind) ==
    [save |-> "look", purpose |-> "select", assign |-> "find", add |-> "collection",
     remove |-> "collection"][kind]
InTx(r) == ask[r].kind = "purpose"

(* Rows a statement of a request sees.                                       *)
Visible(r) == {i \in DOMAIN rows : rows[i].by \in {Nobody, r}}
Canonical(r) == {i \in Visible(r) : rows[i].page = Page(r) /\ rows[i].canonical}
AsSpelled(r, spellings) ==
    {i \in Visible(r) : rows[i].page = Page(r) /\ rows[i].spelling \in spellings}
(* ... under the canonical address, in either column, or as it was spelled.  *)
Matching(r) == Canonical(r) \cup AsSpelled(r, {"canonical", ask[r].spelling})
(* A row with the canonical address that is not committed: an insert of the  *)
(* same address waits.                                                       *)
AddressIsHeld(r) ==
    \E i \in DOMAIN rows \ Visible(r) : rows[i].page = Page(r) /\ rows[i].canonical
(* With a canonical address the spelling no longer matters.                  *)
NewRow(r) ==
    [page |-> Page(r), spelling |-> "canonical", canonical |-> TRUE,
     tagged |-> FALSE, by |-> IF InTx(r) THEN r ELSE Nobody]
With(i, value) == [j \in DOMAIN rows \cup {i} |-> IF j = i THEN value ELSE rows[j]]
GoTo(r, label) == at' = [at EXCEPT ![r] = label]
NextItem(r, step, end) ==
    /\ GoTo(r, IF LastItem(r) THEN end ELSE step)
    /\ item' = [item EXCEPT ![r] = @ + 1]
(* Requests with an open transaction on the memberships of a row.            *)
Replacing(i) == {r \in Requests : at[r] = "fill" /\ row[r] = i}
Disturb(ids, r) ==
    disturbed' = (disturbed \cup UNION {Replacing(i) : i \in ids}) \ {r}
(* An answered request forgets what it held.                                 *)
ForgetRow(r) == row' = [row EXCEPT ![r] = Nobody]
ForgetMade(r) == made' = [made EXCEPT ![r] = {}]
HeldPairs(r) == UNION {cleared[o] : o \in Requests \ {r}}
-----------------------------------------------------------------------------
(* What a page may look like before: no row; a row an assignment has created *)
(* and nobody has tagged; or a tagged row from before canonical addresses    *)
(* were kept.  How a request spells a page matters for such a row only.      *)
Earlier == {[spelling |-> "canonical", canonical |-> TRUE, tagged |-> FALSE],
            [spelling |-> "other", canonical |-> FALSE, tagged |-> TRUE]}

(* Collections are not looked at when no request is about them.              *)
CollectionsMatter == \E r \in Requests : ask[r].kind \in {"assign", "add", "remove"}

LibraryInit ==
    \E held \in SUBSET Pages :
      \E order \in {SetToSeq(held)}, old \in [held -> Earlier] :
        /\ rows = [i \in DOMAIN order |->
                     [page |-> order[i], spelling |-> old[order[i]].spelling,
                      canonical |-> old[order[i]].canonical,
                      tagged |-> old[order[i]].tagged, by |-> Nobody]]
        /\ next = Len(order) + 1
        /\ links = {} /\ open = Collections /\ scheduled = {} /\ gone = {}
        /\ ask \in [Requests -> Asks]
        /\ \A r \in Requests : ask[r].spelling = "other" =>
             \E p \in ToSet(ask[r].pages) \cap held : ~old[p].canonical
        /\ members \in {{}, IF CollectionsMatter THEN Collections \X DOMAIN order ELSE {}}
        /\ at = [r \in Requests |-> First(ask[r].kind)]
        /\ item = [r \in Requests |-> 1]
        /\ row = [r \in Requests |-> Nobody]
        /\ made = [r \in Requests |-> {}]
        /\ cleared = [r \in Requests |-> {}]
        /\ disturbed = {}

CreateRow(r) ==
    /\ next \in Ids
    /\ rows' = With(next, NewRow(r))
    /\ next' = next + 1
-----------------------------------------------------------------------------
(* createManyUrls: row by row, each statement on its own.                    *)
Look(r) ==
    /\ at[r] = "look"
    /\ IF Canonical(r) # {} THEN NextItem(r, "look", "schedule")
       ELSE GoTo(r, "create") /\ UNCHANGED item
    /\ UNCHANGED <<storeVars, ask, row, made, cleared, disturbed>>

Create(r) ==
    /\ at[r] = "create" /\ ~AddressIsHeld(r)
    /\ \/ Canonical(r) # {} /\ UNCHANGED <<next, rows, made>>   \* P2002: skipped
       \/ /\ Canonical(r) = {} /\ CreateRow(r)
          /\ made' = [made EXCEPT ![r] = @ \cup {next}]
    /\ NextItem(r, "look", "schedule")
    /\ UNCHANGED <<members, links, open, scheduled, gone, ask, row, cleared, disturbed>>

(* Any other error ends the request; rows it created stay, and nothing hands *)
(* them to the tagging queue.                                                *)
SaveFails(r) ==
    /\ at[r] \in {"look", "create"}
    /\ GoTo(r, "failed") /\ ForgetMade(r)
    /\ UNCHANGED <<storeVars, ask, item, row, cleared, disturbed>>

Schedule(r) ==
    /\ at[r] = "schedule"
    /\ scheduled' = scheduled \cup made[r]
    /\ GoTo(r, IF Cardinality(made[r]) = Len(ask[r].pages) THEN "ok" ELSE "existing")
    /\ ForgetMade(r)
    /\ UNCHANGED <<next, rows, members, links, open, gone, ask, item, row, cleared, disturbed>>

SkipsExisting(i) == FALSE                                          \* mutant
NeedsTagging(i) == ~rows[i].tagged

(* Rows that were there already are tagged too when they never were.         *)
ScheduleExisting(r) ==
    /\ at[r] = "existing"
    /\ scheduled' = scheduled \cup
         {i \in Visible(r) :
            /\ rows[i].page \in ToSet(ask[r].pages)
            /\ rows[i].canonical \/ rows[i].spelling = ask[r].spelling
            /\ NeedsTagging(i)}
    /\ GoTo(r, "ok")
    /\ UNCHANGED <<next, rows, members, links, open, gone, ask, item, row, made, cleared,
                   disturbed>>
-----------------------------------------------------------------------------
(* Requests about collections.  ensureUrlRow finds, repairs or creates a row *)
(* in statements of its own, before the collections are looked at or, when   *)
(* one is added, after.                                                      *)
CheckCollection(r) ==
    /\ at[r] = "collection"
    /\ GoTo(r, IF ask[r].want \subseteq open THEN "find"
               ELSE IF ask[r].kind = "add" THEN "missing" ELSE "ok")
    /\ UNCHANGED <<storeVars, ask, item, row, made, cleared, disturbed>>

AfterRow(r) == IF ask[r].kind = "add" THEN "join" ELSE "check"

Find(r) ==
    /\ at[r] = "find"
    /\ \/ \E i \in Matching(r) :
            /\ row' = [row EXCEPT ![r] = i]
            /\ GoTo(r, IF ask[r].kind = "remove" THEN "detach" ELSE "patch")
       \/ /\ Matching(r) = {}
          /\ GoTo(r, IF ask[r].kind = "remove" THEN "ok" ELSE "insert")
          /\ UNCHANGED row
    /\ UNCHANGED <<storeVars, ask, item, made, cleared, disturbed>>

(* The row is updated, with its canonical address if it had none and no other *)
(* row has it; when there is nothing to update, its disappearance goes       *)
(* unnoticed.                                                                *)
Patch(r) ==
    LET i == row[r] IN
    /\ at[r] = "patch" /\ ~AddressIsHeld(r)
    /\ \/ /\ i \in DOMAIN rows
          /\ rows' = IF Canonical(r) # {} THEN rows
                     ELSE [rows EXCEPT ![i].canonical = TRUE, ![i].spelling = "canonical"]
          /\ GoTo(r, AfterRow(r))
       \/ /\ i \notin DOMAIN rows
          /\ GoTo(r, "failed") \/ GoTo(r, AfterRow(r))
          /\ UNCHANGED rows
    /\ UNCHANGED <<next, members, links, open, scheduled, gone, ask, item, row, made,
                   cleared, disturbed>>

(* When another request has created the row since, the error of the unique   *)
(* address fails an assignment, and is taken for an existing membership when *)
(* a collection is added.                                                    *)
Insert(r) ==
    /\ at[r] = "insert" /\ ~AddressIsHeld(r)
    /\ \/ /\ Canonical(r) # {}
          /\ GoTo(r, IF ask[r].kind = "add" THEN "ok" ELSE "failed")
          /\ UNCHANGED <<next, rows, row>>
       \/ /\ Canonical(r) = {}
          /\ CreateRow(r)
          /\ row' = [row EXCEPT ![r] = next]
          /\ GoTo(r, AfterRow(r))
    /\ UNCHANGED <<members, links, open, scheduled, gone, ask, item, made, cleared,
                   disturbed>>

Pairs(r) == ask[r].want \X {row[r]}
HasTargets(r) == row[r] \in DOMAIN rows /\ ask[r].want \subseteq open

Join(r) ==
    /\ at[r] = "join" /\ Pairs(r) \cap HeldPairs(r) = {}
    /\ IF HasTargets(r)
       THEN /\ members' = members \cup Pairs(r)
            /\ GoTo(r, "ok") /\ Disturb({row[r]}, r)
       ELSE GoTo(r, "failed") /\ UNCHANGED <<members, disturbed>>
    /\ ForgetRow(r)
    /\ UNCHANGED <<next, rows, links, open, scheduled, gone, ask, item, made, cleared>>

Detach(r) ==
    /\ at[r] = "detach" /\ Pairs(r) \cap HeldPairs(r) = {}
    /\ members' = members \ Pairs(r)
    /\ GoTo(r, "ok") /\ Disturb({row[r]}, r)
    /\ ForgetRow(r)
    /\ UNCHANGED <<next, rows, links, open, scheduled, gone, ask, item, made, cleared>>

CheckCollections(r) ==
    /\ at[r] = "check"
    /\ GoTo(r, IF ask[r].want \subseteq open THEN "clear" ELSE "missing")
    /\ UNCHANGED <<storeVars, ask, item, row, made, cleared, disturbed>>

ClearsAsked(r) == Pairs(r)                                         \* mutant
NoLongerAsked(r) == (members \cap (Collections \X {row[r]})) \ Pairs(r)

(* PUT /collections/assign: one transaction deletes the memberships that are *)
(* not asked for any more, and adds those that are.                          *)
Clear(r) ==
    /\ at[r] = "clear" /\ NoLongerAsked(r) \cap HeldPairs(r) = {}
    /\ IF ask[r].want = {}
       THEN /\ members' = members \ NoLongerAsked(r)
            /\ GoTo(r, "ok") /\ Disturb({row[r]}, r) /\ UNCHANGED cleared
       ELSE /\ cleared' = [cleared EXCEPT ![r] = NoLongerAsked(r) \cap members]
            /\ GoTo(r, "fill")
            /\ disturbed' = disturbed \ {r} /\ UNCHANGED members
    /\ UNCHANGED <<next, rows, links, open, scheduled, gone, ask, item, row, made>>

Fill(r) ==
    /\ at[r] = "fill" /\ Pairs(r) \cap HeldPairs(r) = {}
    /\ IF HasTargets(r)
       THEN /\ members' = (members \ cleared[r]) \cup Pairs(r)
            /\ GoTo(r, "ok") /\ Disturb({row[r]}, r)
       ELSE GoTo(r, "failed") /\ disturbed' = disturbed \ {r} /\ UNCHANGED members
    /\ ForgetRow(r)
    /\ cleared' = [cleared EXCEPT ![r] = {}]
    /\ UNCHANGED <<next, rows, links, open, scheduled, gone, ask, item, made>>
-----------------------------------------------------------------------------
(* saveCollectorPurposeSelection: all pages in one transaction.              *)
Select(r) ==
    /\ at[r] = "select"
    /\ LET there == Canonical(r) \cup AsSpelled(r, {ask[r].spelling})
       IN  \/ \E i \in there : row' = [row EXCEPT ![r] = i] /\ GoTo(r, "link")
           \/ there = {} /\ GoTo(r, "insertInTx") /\ UNCHANGED row
    /\ UNCHANGED <<storeVars, ask, item, made, cleared, disturbed>>

InsertInTx(r) ==
    /\ at[r] = "insertInTx" /\ ~AddressIsHeld(r) /\ Canonical(r) = {}
    /\ CreateRow(r) /\ made' = [made EXCEPT ![r] = @ \cup {next}]
    /\ row' = [row EXCEPT ![r] = next]
    /\ GoTo(r, "link")
    /\ UNCHANGED <<members, links, open, scheduled, gone, ask, item, cleared, disturbed>>

LinksOf(i) == {o \in Requests : <<o, i>> \in links}
Committed(o) == at[o] = "ok"

(* An insert waits for another open transaction that links the same row.     *)
LinkRow(r) ==
    /\ at[r] = "link" /\ row[r] \in DOMAIN rows
    /\ \A o \in LinksOf(row[r]) : o = r \/ Committed(o)
    /\ links' = IF LinksOf(row[r]) = {} THEN links \cup {<<r, row[r]>>} ELSE links
    /\ made' = [made EXCEPT ![r] = @ \cup {i \in {row[r]} : NeedsTagging(i)}]
    /\ NextItem(r, "select", "commit") /\ ForgetRow(r)
    /\ UNCHANGED <<next, rows, members, open, scheduled, gone, ask, cleared, disturbed>>

Commit(r) ==
    /\ at[r] = "commit"
    /\ rows' = [i \in DOMAIN rows |->
                  [rows[i] EXCEPT !.by = IF @ = r THEN Nobody ELSE @]]
    /\ scheduled' = scheduled \cup made[r]
    /\ GoTo(r, "ok") /\ ForgetMade(r)
    /\ UNCHANGED <<next, members, links, open, gone, ask, item, row, cleared, disturbed>>

LinksAfterRollback(r) == {k \in links : k[1] # r}

(* A statement of a transaction fails: the address or the link was taken, a  *)
(* row is gone, two transactions wait for each other, or the time is up.     *)
RollBack(r) ==
    /\ at[r] \in {"select", "insertInTx", "link", "commit", "fill"}
    /\ rows' = [i \in {j \in DOMAIN rows : rows[j].by # r} |-> rows[i]]
    /\ links' = LinksAfterRollback(r)
    /\ cleared' = [cleared EXCEPT ![r] = {}]
    /\ GoTo(r, "failed") /\ ForgetRow(r) /\ ForgetMade(r)
    /\ disturbed' = disturbed \ {r}
    /\ UNCHANGED <<next, members, open, scheduled, gone, ask, item>>
-----------------------------------------------------------------------------
(* A Url row or a collection is deleted, which waits for transactions that   *)
(* have written what depends on it; the rest goes with it.                   *)
MayDelete ==
    /\ Cardinality(gone) + Cardinality(Collections \ open) < MaxDeleted
    /\ \A r \in Requests : at[r] \notin Answers

DeleteUrlRow ==
    /\ MayDelete
    /\ \E i \in DOMAIN rows :
         /\ rows[i].by = Nobody
         /\ \A r \in Requests : cleared[r] \cap (Collections \X {i}) = {}
         /\ \A o \in LinksOf(i) : Committed(o)
         /\ rows' = [j \in DOMAIN rows \ {i} |-> rows[j]]
         /\ members' = {m \in members : m[2] # i}
         /\ links' = {k \in links : k[2] # i}
         /\ gone' = gone \cup {rows[i].page}
         /\ UNCHANGED <<next, open, scheduled, ask, requestVars, disturbed>>

DeleteCollection ==
    /\ MayDelete /\ CollectionsMatter
    /\ \E c \in open :
         /\ \A r \in Requests : cleared[r] \cap ({c} \X Ids) = {}
         /\ open' = open \ {c}
         /\ members' = {m \in members : m[1] # c}
         /\ disturbed' = disturbed \cup {r \in Requests : at[r] = "fill"}
         /\ UNCHANGED <<next, rows, links, scheduled, gone, ask, requestVars>>

LibraryNext ==
    \/ \E r \in Requests :
         \/ Look(r) \/ Create(r) \/ SaveFails(r) \/ Schedule(r) \/ ScheduleExisting(r)
         \/ CheckCollection(r) \/ Find(r) \/ Patch(r) \/ Insert(r) \/ Join(r) \/ Detach(r)
         \/ CheckCollections(r) \/ Clear(r) \/ Fill(r)
         \/ Select(r) \/ InsertInTx(r) \/ LinkRow(r) \/ Commit(r) \/ RollBack(r)
    \/ DeleteUrlRow
    \/ DeleteCollection

LibrarySpec == LibraryInit /\ [][LibraryNext]_libraryVars
-----------------------------------------------------------------------------
Stored(p) == {i \in DOMAIN rows : rows[i].by = Nobody /\ rows[i].page = p}

(* Saving pages leaves none of them out of the tagging queue: whichever      *)
(* request created the row, and whether or not it was the one to schedule it. *)
SavedIsScheduled ==
    \A r \in Requests : ask[r].kind \in {"save", "purpose"} /\ at[r] = "ok" =>
      \A k \in DOMAIN ask[r].pages :
        \/ ask[r].pages[k] \in gone
        \/ \E i \in Stored(ask[r].pages[k]) : rows[i].tagged \/ i \in scheduled

(* A selection saved to a purpose is there as a whole or not at all.         *)
SelectionIsWhole ==
    \A r \in Requests : ask[r].kind = "purpose" =>
      /\ at[r] = "ok" => \A k \in DOMAIN ask[r].pages :
           \/ ask[r].pages[k] \in gone
           \/ \E i \in Stored(ask[r].pages[k]), o \in Requests :
                <<o, i>> \in links /\ Committed(o)
      /\ at[r] = "failed" => r \notin {k[1] : k \in links}

(* What a request about saving has answered is so.                           *)
SavingIsComplete == SavedIsScheduled /\ SelectionIsWhole

(* An assignment that nobody interfered with between its two statements      *)
(* leaves the page in exactly the collections it asked for.                  *)
AssignmentReplaces ==
    [][\A r \in Requests :
         at[r] = "fill" /\ at'[r] = "ok" /\ r \notin disturbed =>
           {c \in Collections : <<c, row[r]>> \in members'} = ask[r].want]_libraryVars
-----------------------------------------------------------------------------
(* Why: a request makes the statements of its kind, until its last page;     *)
Saving == {"look", "create", "schedule", "existing"}
Selecting == {"select", "insertInTx", "link", "commit"}
AfterPages == {"schedule", "existing", "commit"}

StatementsFit(r) ==
    LET kind == ask[r].kind IN
    /\ at[r] \in Saving => kind = "save"
    /\ at[r] \in Selecting => kind = "purpose"
    /\ at[r] = "collection" => kind \in {"add", "remove"}
    /\ at[r] = "find" => kind \in {"assign", "add", "remove"}
    /\ at[r] \in {"patch", "insert"} => kind \in {"assign", "add"}
    /\ at[r] \in {"check", "clear", "fill"} => kind = "assign"
    /\ at[r] = "join" => kind = "add"
    /\ at[r] = "detach" => kind = "remove"
    /\ at[r] \in Statements \ AfterPages => item[r] <= Len(ask[r].pages)
    /\ at[r] \in AfterPages \/ (at[r] = "ok" /\ kind \in {"save", "purpose"}) =>
         item[r] = Len(ask[r].pages) + 1

(* what is not committed belongs to an open transaction, and others neither  *)
(* hold its rows nor collect or link them;                                   *)
OwnersInv ==
    /\ \A i \in DOMAIN rows : rows[i].by # Nobody => at[rows[i].by] \in Selecting
    /\ \A m \in members : rows[m[2]].by = Nobody
    /\ \A k \in links :
         rows[k[2]].by \in {Nobody, k[1]} /\ at[k[1]] \in Selecting \cup {"ok"}
    /\ \A r \in Requests :
         /\ row[r] # Nobody => row[r] < next
         /\ made[r] \subseteq 1..next - 1
         /\ row[r] \in DOMAIN rows => rows[row[r]].by \in {Nobody, r}

(* an assignment holds the memberships it has deleted, and nobody else does; *)
(* undisturbed, those of its page are deleted or asked for;                  *)
ClearedInv ==
    /\ \A r, o \in Requests : r # o => cleared[r] \cap cleared[o] = {}
    /\ \A r \in Requests :
         /\ cleared[r] # {} => at[r] = "fill"
         /\ cleared[r] \subseteq Collections \X {row[r]}
         /\ at[r] = "fill" /\ r \notin disturbed =>
              \A m \in members : m[2] = row[r] => m \in cleared[r] \cup Pairs(r)

(* the pages a request has saved are stored, all by rows it has made when    *)
(* those are as many;                                                        *)
PagesDone(r) == {ask[r].pages[k] : k \in 1..item[r] - 1} \ gone
SavingInv(r) ==
    /\ at[r] \in Saving =>
         \A p \in PagesDone(r) : \E i \in Stored(p) : rows[i].canonical
    /\ at[r] \in Saving \ {"existing"} =>
         /\ Cardinality(made[r]) <= item[r] - 1
         /\ Cardinality(made[r]) = item[r] - 1 =>
              \A p \in PagesDone(r) : Stored(p) \cap made[r] # {}

(* and those of a selection are linked, and scheduled with its commit.       *)
Selected(r, p) ==
    \E i \in Visible(r) :
      /\ rows[i].page = p
      /\ rows[i].tagged \/ i \in made[r] \cup scheduled
      /\ \E o \in LinksOf(i) : o = r \/ Committed(o)
SelectionInv(r) ==
    /\ at[r] = "link" /\ row[r] \in DOMAIN rows => rows[row[r]].page = Page(r)
    /\ at[r] \in Selecting => \A p \in PagesDone(r) : Selected(r, p)

LibraryInv ==
    /\ LibraryTypeOK
    /\ OwnersInv
    /\ ClearedInv
    /\ \A r \in Requests : StatementsFit(r) /\ SavingInv(r) /\ SelectionInv(r)
    /\ SavingIsComplete
=============================================================================
