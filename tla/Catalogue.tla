------------------------------ MODULE Catalogue ------------------------------
(***************************************************************************)
(* The menu of one institution: its categories, its products, and for      *)
(* every product and branch the rows ProductToBranch that say whether the  *)
(* branch has it.  The CRM, the institution's own panel and the import     *)
(* from r_keeper, a thread of a web worker, change them at the same time.  *)
(* No request but the creation of a branch is a transaction, and no        *)
(* constraint of the database forbids a second row for a pair, a second    *)
(* product with a uuid, or a second branch for a place.  The restaurant's  *)
(* panel deletes a branch, and its rows ProductToBranch with it.           *)
(*                                                                         *)
(* A request or an import is a value of work[j]; it runs once.  A step is  *)
(* what happens up to the next statement another worker can get in front   *)
(* of.                                                                     *)
(***************************************************************************)
EXTENDS Integers, Sequences, FiniteSets

CONSTANTS ProductIds,   \* primary keys of products
          BranchIds,    \* primary keys of branches
          CategoryIds,  \* primary keys of categories
          Items,        \* uuids of the items of the menu at r_keeper
          NoKey,        \* no uuid, no object
          Workers       \* the requests and imports of a behaviour

ASSUME CatalogueAssumption ==
    /\ ProductIds \subseteq Nat \ {0} /\ BranchIds \subseteq Nat \ {0}
    /\ CategoryIds \subseteq Nat \ {0}
    /\ 1 \in ProductIds /\ 1 \in BranchIds /\ 1 \in CategoryIds
    /\ NoKey \notin Items \cup Nat

VARIABLES category, product, branches, rows, work,
          contested,    \* pairs that two jobs were making a row for at one time
          parallel      \* two imports have run at one time
menuVars == <<category, product, branches, rows, work, contested, parallel>>

Makers == {"none", "crm", "panel", "import"}
\* gone: its row was deleted.  The key is not given again.
BranchStates == {"none", "crm", "import", "gone"}
Category == [state : {"none", "live", "deleted", "gone"}, imported : BOOLEAN]
\* whole: whoever made it has come to the end; no column.
Product == [maker : Makers, deleted : BOOLEAN, uuid : Items \cup {NoKey},
            category : CategoryIds \cup {NoKey}, whole : BOOLEAN]

WorkKinds == {"none", "product", "branch", "product row", "category row", "import"}
Places == {"idle", "branches", "link", "save", "products", "availability", "insert",
           "write", "place", "add place", "categories", "add category", "items",
           "add item", "link item", "link new", "look item", "look new",
          "add row", "add new", "done", "dead"}

\* row, crow: the rows in memory; snap: the products or branches read; todo:
\* the branches or items left; value: the availability asked for; failed: the
\* items that did not come, or lost their category; put: the items on the menu
\* of the branch they were put to.
Work == [op : WorkKinds, at : Places, p : ProductIds \cup {NoKey}, b : BranchIds \cup {NoKey},
         c : CategoryIds \cup {NoKey}, row : Product, crow : Category,
         snap : SUBSET (ProductIds \cup BranchIds), todo : SUBSET (BranchIds \cup Items),
         item : Items \cup {NoKey}, value : BOOLEAN, failed : SUBSET Items,
         put : SUBSET (Items \X BranchIds)]

NoProduct == [maker |-> "none", deleted |-> FALSE, uuid |-> NoKey, category |-> NoKey,
              whole |-> FALSE]
NoCategory == [state |-> "none", imported |-> FALSE]
NoWork == [op |-> "none", at |-> "idle", p |-> NoKey, b |-> NoKey, c |-> NoKey,
           row |-> NoProduct, crow |-> NoCategory, snap |-> {}, todo |-> {},
           item |-> NoKey, value |-> TRUE, failed |-> {}, put |-> {}]

\* An institution whose first branch sells one product.
InitMenu ==
    /\ category = [c \in CategoryIds |->
                     IF c = 1 THEN [NoCategory EXCEPT !.state = "live"] ELSE NoCategory]
    /\ product = [p \in ProductIds |->
                    IF p = 1 THEN [NoProduct EXCEPT !.maker = "crm", !.category = 1,
                                                    !.whole = TRUE]
                             ELSE NoProduct]
    /\ branches = [b \in BranchIds |-> IF b = 1 THEN "crm" ELSE "none"]
    /\ rows = [p \in ProductIds |-> [b \in BranchIds |->
                 IF p = 1 /\ b = 1 THEN <<TRUE>> ELSE <<>>]]
    /\ work = [j \in Workers |-> NoWork]
    /\ contested = {} /\ parallel = FALSE

MadeProducts == {p \in ProductIds : product[p].maker # "none"}
\* Keys in use or used, and the branches there are.
MadeBranches == {b \in BranchIds : branches[b] # "none"}
LiveBranches == {b \in MadeBranches : branches[b] # "gone"}
Exists(c) == category[c].state \in {"live", "deleted"}
First(S) == CHOOSE k \in S : \A l \in S : k <= l
\* A sequence of the database gives every insert its own key.
Taken == {work[j].b : j \in {k \in Workers : work[k].op = "branch" /\ work[k].at = "link"}}
FreeProducts == ProductIds \ MadeProducts
FreeBranches == BranchIds \ (MadeBranches \cup Taken)
FreeCategories == {c \in CategoryIds : category[c].state = "none"}

NewWork(op, at) == [NoWork EXCEPT !.op = op, !.at = at]
MovesOn(j, at) == work' = [work EXCEPT ![j] = [@ EXCEPT !.at = at]]
\* Every pair of P x B gets one row more.
Linked(P, B) == [p \in ProductIds |-> [b \in BranchIds |->
                   IF p \in P /\ b \in B THEN Append(rows[p][b], TRUE) ELSE rows[p][b]]]

-----------------------------------------------------------------------------
(* Products.  The CRM takes any category there is, a deleted one too; the  *)
(* panel gives a new product no rows.                                      *)

CreateProduct(j, c, maker) ==
    /\ work[j].at = "idle" /\ FreeProducts # {} /\ Exists(c)
    /\ LET p == First(FreeProducts) IN
       /\ product' = [product EXCEPT ![p] =
            [NoProduct EXCEPT !.maker = maker, !.category = c, !.whole = (maker = "panel")]]
       /\ work' = [work EXCEPT ![j] =
            [NewWork("product", IF maker = "crm" THEN "branches" ELSE "done") EXCEPT !.p = p]]
    /\ UNCHANGED <<category, branches, rows>>

ReadBranches(j) ==
    /\ work[j].at = "branches"
    /\ work' = [work EXCEPT ![j] = [@ EXCEPT !.at = "link", !.snap = LiveBranches]]
    /\ UNCHANGED <<category, product, branches, rows>>

\* bulk_create is one statement: a branch that is gone by now breaks the foreign
\* key, and the product is left without rows.
LinkProduct(j) ==
    /\ work[j].at = "link" /\ work[j].op = "product"
    /\ IF work[j].snap \subseteq LiveBranches
       THEN /\ rows' = Linked({work[j].p}, work[j].snap)
            /\ product' = [product EXCEPT ![work[j].p] = [@ EXCEPT !.whole = TRUE]]
            /\ MovesOn(j, "done")
       ELSE MovesOn(j, "dead") /\ UNCHANGED <<rows, product>>
    /\ UNCHANGED <<category, branches>>

\* (Mutant: the creation of a branch links the products on sale only.)
CreateBranchOnSale(j) ==
    /\ work[j].at = "idle" /\ FreeBranches # {}
    /\ work' = [work EXCEPT ![j] = [NewWork("branch", "link") EXCEPT
                 !.b = First(FreeBranches), !.snap = {p \in MadeProducts : ~product[p].deleted}]]
    /\ UNCHANGED <<category, product, branches, rows>>

\* The creation of a branch is one transaction: its row is seen at the end.
CreateBranch(j) ==
    /\ work[j].at = "idle" /\ FreeBranches # {}
    /\ work' = [work EXCEPT ![j] = [NewWork("branch", "link") EXCEPT
                 !.b = First(FreeBranches), !.snap = MadeProducts]]
    /\ UNCHANGED <<category, product, branches, rows>>

LinkBranch(j) ==
    /\ work[j].at = "link" /\ work[j].op = "branch"
    /\ branches' = [branches EXCEPT ![work[j].b] = "crm"]
    /\ rows' = Linked(work[j].snap, {work[j].b})
    /\ MovesOn(j, "done")
    /\ UNCHANGED <<category, product>>

\* The restaurant's DELETE of a branch takes its rows with it.
DeleteBranch(j, b) ==
    /\ work[j].at = "idle" /\ b \in LiveBranches
    /\ branches' = [branches EXCEPT ![b] = "gone"]
    /\ rows' = [p \in ProductIds |-> [rows[p] EXCEPT ![b] = <<>>]]
    /\ MovesOn(j, "done")
    /\ UNCHANGED <<category, product>>

\* A PATCH of a product loads it, deleted or not, and saves the whole row; it
\* may go on to the availability at one branch.
LoadProduct(j, p, c, B) ==
    /\ work[j].at = "idle" /\ p \in MadeProducts /\ Exists(c)
    /\ B \subseteq LiveBranches /\ Cardinality(B) <= 1
    /\ work' = [work EXCEPT ![j] = [NewWork("product row", "save") EXCEPT
                 !.p = p, !.row = [product[p] EXCEPT !.category = c], !.todo = B]]
    /\ UNCHANGED <<category, product, branches, rows>>

DeleteProduct(j, p) ==
    /\ work[j].at = "idle" /\ p \in MadeProducts /\ ~product[p].deleted
    /\ work' = [work EXCEPT ![j] = [NewWork("product row", "save") EXCEPT
                 !.p = p, !.row = [product[p] EXCEPT !.deleted = TRUE]]]
    /\ UNCHANGED <<category, product, branches, rows>>

\* A category that is gone by now breaks the foreign key.
SaveProduct(j) ==
    /\ work[j].at = "save" /\ work[j].op = "product row"
    /\ IF work[j].row.category # NoKey /\ ~Exists(work[j].row.category)
       THEN MovesOn(j, "dead") /\ UNCHANGED product
       ELSE /\ product' = [product EXCEPT ![work[j].p] = [work[j].row EXCEPT !.whole =
                             product[work[j].p].whole]]
            /\ MovesOn(j, IF work[j].todo = {} THEN "done" ELSE "availability")
    /\ UNCHANGED <<category, branches, rows>>

\* A PATCH with a list of branches sets the availability, one after another.
SetAvailability(j, p, B, value) ==
    /\ work[j].at = "idle" /\ p \in MadeProducts /\ B # {} /\ B \subseteq LiveBranches
    /\ work' = [work EXCEPT ![j] = [NewWork("product row", "availability") EXCEPT
                 !.p = p, !.todo = B, !.value = value]]
    /\ UNCHANGED <<category, product, branches, rows>>

\* get_or_create: with two rows it raises, and the branches left are not set.
GetRow(j, b) ==
    /\ work[j].at = "availability" /\ b \in work[j].todo
    /\ LET found == Len(rows[work[j].p][b]) IN
       work' = [work EXCEPT ![j] = [@ EXCEPT !.b = b, !.todo = work[j].todo \ {b},
                 !.at = IF found = 0 THEN "insert" ELSE IF found = 1 THEN "write" ELSE "dead"]]
    /\ UNCHANGED <<category, product, branches, rows>>

\* A branch that is gone by now breaks the foreign key; so it does for a row that
\* went with it, which save() inserts again.
PutRow(j) ==
    /\ work[j].at \in {"insert", "write"}
    /\ IF work[j].b \in LiveBranches
       THEN /\ LET old == rows[work[j].p][work[j].b] IN
               rows' = [rows EXCEPT ![work[j].p] = [@ EXCEPT ![work[j].b] =
                          IF work[j].at = "insert" THEN Append(old, work[j].value)
                                                  ELSE [old EXCEPT ![1] = work[j].value]]]
            /\ MovesOn(j, IF work[j].todo = {} THEN "done" ELSE "availability")
       ELSE MovesOn(j, "dead") /\ UNCHANGED rows
    /\ UNCHANGED <<category, product, branches>>

-----------------------------------------------------------------------------
(* Categories.  The CRM marks a category and its products deleted; the     *)
(* panel deletes the row, and its products are without a category.         *)

CreateCategory(j) ==
    /\ work[j].at = "idle" /\ FreeCategories # {}
    /\ category' = [category EXCEPT ![First(FreeCategories)] = [@ EXCEPT !.state = "live"]]
    /\ MovesOn(j, "done")
    /\ UNCHANGED <<product, branches, rows>>

LoadCategory(j, c, state) ==
    /\ work[j].at = "idle" /\ category[c].state = "live"
    /\ work' = [work EXCEPT ![j] = [NewWork("category row", "save") EXCEPT
                 !.c = c, !.crow = [category[c] EXCEPT !.state = state]]]
    /\ UNCHANGED <<category, product, branches, rows>>

\* save() of a row that is gone inserts it again.
SaveCategory(j) ==
    /\ work[j].at = "save" /\ work[j].op = "category row"
    /\ category' = [category EXCEPT ![work[j].c] = work[j].crow]
    /\ MovesOn(j, IF work[j].crow.state = "deleted" THEN "products" ELSE "done")
    /\ UNCHANGED <<product, branches, rows>>

DeleteProducts(j) ==
    /\ work[j].at = "products"
    /\ product' = [p \in ProductIds |->
         IF p \in MadeProducts /\ product[p].category = work[j].c
         THEN [product[p] EXCEPT !.deleted = TRUE] ELSE product[p]]
    /\ MovesOn(j, "done")
    /\ UNCHANGED <<category, branches, rows>>

RemoveCategory(j, c) ==
    /\ work[j].at = "idle" /\ Exists(c)
    /\ category' = [category EXCEPT ![c] = [@ EXCEPT !.state = "gone"]]
    /\ product' = [p \in ProductIds |->
         IF product[p].category = c THEN [product[p] EXCEPT !.category = NoKey] ELSE product[p]]
    /\ MovesOn(j, "done")
    /\ UNCHANGED <<branches, rows>>

-----------------------------------------------------------------------------
(* The import of a place of r_keeper, one category and its items.  Every   *)
(* look is a query of its own, and every insert a transaction.             *)

PlaceBranches == {b \in BranchIds : branches[b] = "import"}
PlaceCategories == {c \in CategoryIds : Exists(c) /\ category[c].imported}
From(item) == {p \in MadeProducts : product[p].uuid = item}

StartImport(j) ==
    /\ work[j].at = "idle"
    /\ work' = [work EXCEPT ![j] = [NewWork("import", "place") EXCEPT !.todo = Items]]
    /\ UNCHANGED <<category, product, branches, rows>>

\* The token, the list of restaurants or the menu does not come.
ImportDies(j) ==
    /\ work[j].at \in {"place", "categories"}
    /\ MovesOn(j, "dead")
    /\ UNCHANGED <<category, product, branches, rows>>

LookForPlace(j) ==
    /\ work[j].at = "place"
    /\ MovesOn(j, IF PlaceBranches = {} THEN "add place" ELSE "categories")
    /\ UNCHANGED <<category, product, branches, rows>>

AddPlace(j) ==
    /\ work[j].at = "add place" /\ FreeBranches # {}
    /\ branches' = [branches EXCEPT ![First(FreeBranches)] = "import"]
    /\ MovesOn(j, "categories")
    /\ UNCHANGED <<category, product, rows>>

LookForCategory(j) ==
    /\ work[j].at = "categories"
    /\ MovesOn(j, IF PlaceCategories = {} THEN "add category" ELSE "items")
    /\ UNCHANGED <<category, product, branches, rows>>

AddCategory(j) ==
    /\ work[j].at = "add category" /\ FreeCategories # {}
    /\ category' = [category EXCEPT ![First(FreeCategories)] =
                      [state |-> "live", imported |-> TRUE]]
    /\ MovesOn(j, "items")
    /\ UNCHANGED <<product, branches, rows>>

\* (Mutant: a product the institution deleted is imported again.)
LookForLiveItem(j, item) ==
    /\ work[j].at = "items" /\ item \in work[j].todo /\ PlaceCategories # {}
    /\ LET live == {p \in From(item) : ~product[p].deleted} IN
       work' = [work EXCEPT ![j] = [@ EXCEPT !.item = item, !.todo = work[j].todo \ {item},
                 !.c = First(PlaceCategories),
                 !.at = IF live = {} THEN "add item" ELSE "link item",
                 !.p = IF live = {} THEN NoKey ELSE First(live)]]
    /\ UNCHANGED <<category, product, branches, rows>>

\* (Mutant: an item that has its product is left as it is.)
LookForNewItem(j, item) ==
    /\ work[j].at = "items" /\ item \in work[j].todo /\ PlaceCategories # {}
    /\ work' = [work EXCEPT ![j] = [@ EXCEPT !.item = item, !.todo = work[j].todo \ {item},
                 !.c = First(PlaceCategories),
                 !.at = IF From(item) = {} THEN "add item" ELSE "items"]]
    /\ UNCHANGED <<category, product, branches, rows>>

\* The first product with the uuid counts, a deleted one too.
LookForItem(j, item) ==
    /\ work[j].at = "items" /\ item \in work[j].todo /\ PlaceCategories # {}
    /\ work' = [work EXCEPT ![j] = [@ EXCEPT !.item = item, !.todo = work[j].todo \ {item},
                 !.c = First(PlaceCategories),
                 !.at = IF From(item) = {} THEN "add item" ELSE "link item",
                 !.p = IF From(item) = {} THEN NoKey ELSE First(From(item))]]
    /\ UNCHANGED <<category, product, branches, rows>>

\* Without its category an item is passed over.
SkipItem(j, item) ==
    /\ work[j].at = "items" /\ item \in work[j].todo /\ PlaceCategories = {}
    /\ work' = [work EXCEPT ![j] = [@ EXCEPT !.todo = work[j].todo \ {item}, !.failed = work[j].failed \cup {item}]]
    /\ UNCHANGED <<category, product, branches, rows>>

\* Without its image the item is left, a product without options and rows;
\* whatever is raised is swallowed.
AddItem(j, image) ==
    /\ work[j].at = "add item" /\ FreeProducts # {}
    /\ LET p == First(FreeProducts)
           came == Exists(work[j].c) /\ image IN
       /\ product' = IF ~Exists(work[j].c) THEN product ELSE
            [product EXCEPT ![p] = [NoProduct EXCEPT !.maker = "import", !.uuid = work[j].item,
                                      !.category = work[j].c, !.whole = image]]
       /\ work' = [work EXCEPT ![j] = [@ EXCEPT !.p = p,
                    !.at = IF came THEN "link new" ELSE "items",
                    !.failed = IF came THEN work[j].failed ELSE work[j].failed \cup {work[j].item}]]
    /\ UNCHANGED <<category, branches, rows>>

\* Whatever is raised while a product is made is swallowed; else the thread dies.
Fails(j) ==
    work' = [work EXCEPT ![j] =
        [@ EXCEPT !.at = IF work[j].at \in {"link new", "add new"} THEN "items" ELSE "dead",
                  !.failed = work[j].failed \cup {work[j].item}]]

Delivers(j) ==
    work' = [work EXCEPT ![j] =
        [@ EXCEPT !.at = "items", !.put = work[j].put \cup {<<work[j].item, work[j].b>>}]]

\* InstitutionBranch.objects.get raises when two branches have the place, or none
\* has it any more.
LinkItem(j) ==
    /\ work[j].at \in {"link item", "link new"}
    /\ \/ /\ \E b \in PlaceBranches : \A c \in PlaceBranches : b = c
          /\ work' = [work EXCEPT ![j] =
               [@ EXCEPT !.b = First(PlaceBranches),
                         !.at = IF work[j].at = "link new" THEN "look new" ELSE "look item"]]
       \/ /\ ~\E b \in PlaceBranches : \A c \in PlaceBranches : b = c
          /\ Fails(j)
    /\ UNCHANGED <<category, product, branches, rows>>

LookForRow(j) ==
    /\ work[j].at \in {"look item", "look new"}
    /\ IF rows[work[j].p][work[j].b] = <<>>
       THEN MovesOn(j, IF work[j].at = "look new" THEN "add new" ELSE "add row")
       ELSE Delivers(j)
    /\ UNCHANGED <<category, product, branches, rows>>

AddRow(j) ==
    /\ work[j].at \in {"add row", "add new"}
    /\ IF work[j].b \in LiveBranches
       THEN rows' = Linked({work[j].p}, {work[j].b}) /\ Delivers(j)
       ELSE Fails(j) /\ UNCHANGED rows
    /\ UNCHANGED <<category, product, branches>>

ImportEnds(j) ==
    /\ work[j].at = "items" /\ work[j].todo = {}
    /\ MovesOn(j, "done")
    /\ UNCHANGED <<category, product, branches, rows>>

-----------------------------------------------------------------------------
\* The pairs a job has begun to make a row for.
Making(jb) ==
    CASE jb.op = "product" /\ jb.at \in {"branches", "link"} -> {jb.p} \X BranchIds
      [] jb.op = "branch" /\ jb.at = "link" -> ProductIds \X {jb.b}
      [] jb.at \in {"insert", "add row", "add new"} -> {<<jb.p, jb.b>>}
      [] OTHER -> {}
Crossing(jobs) == {pb \in ProductIds \X BranchIds : \E i, j \in Workers :
                     i # j /\ pb \in Making(jobs[i]) /\ pb \in Making(jobs[j])}
Importing(jb) == jb.op = "import" /\ jb.at \notin {"done", "dead"}

StepMenu(j) ==
    \/ \E c \in CategoryIds, maker \in {"crm", "panel"} : CreateProduct(j, c, maker)
    \/ ReadBranches(j) \/ LinkProduct(j)
    \/ CreateBranch(j) \/ LinkBranch(j)
    \/ \E b \in BranchIds : DeleteBranch(j, b)
    \/ \E p \in ProductIds, c \in CategoryIds, B \in SUBSET BranchIds : LoadProduct(j, p, c, B)
    \/ \E p \in ProductIds : DeleteProduct(j, p)
    \/ SaveProduct(j)
    \/ \E p \in ProductIds, B \in SUBSET BranchIds, value \in BOOLEAN : SetAvailability(j, p, B, value)
    \/ \E b \in BranchIds : GetRow(j, b)
    \/ PutRow(j)
    \/ CreateCategory(j)
    \/ \E c \in CategoryIds, state \in {"live", "deleted"} : LoadCategory(j, c, state)
    \/ SaveCategory(j) \/ DeleteProducts(j)
    \/ \E c \in CategoryIds : RemoveCategory(j, c)
    \/ StartImport(j) \/ ImportDies(j)
    \/ LookForPlace(j) \/ AddPlace(j) \/ LookForCategory(j) \/ AddCategory(j)
    \/ \E item \in Items : LookForItem(j, item) \/ SkipItem(j, item)
    \/ \E image \in BOOLEAN : AddItem(j, image)
    \/ LinkItem(j) \/ LookForRow(j) \/ AddRow(j) \/ ImportEnds(j)

NextMenu == \E j \in Workers :
    /\ StepMenu(j)
    /\ contested' = contested \cup Crossing(work')
    /\ parallel' = (parallel \/ \E i, k \in Workers :
                      i # k /\ Importing(work'[i]) /\ Importing(work'[k]))

SpecMenu == InitMenu /\ [][NextMenu]_menuVars

-----------------------------------------------------------------------------
MenuTypeOK ==
    /\ category \in [CategoryIds -> Category]
    /\ product \in [ProductIds -> Product]
    /\ branches \in [BranchIds -> BranchStates]
    /\ rows \in [ProductIds -> [BranchIds -> Seq(BOOLEAN)]]
    /\ work \in [Workers -> Work]
    /\ contested \subseteq ProductIds \X BranchIds
    /\ parallel \in BOOLEAN

\* A product and a branch that the CRM made have one row between them,
\* whichever came first: the serializer of the later one gives it.  A row that
\* is missing beside one of the panel or of an import is made once.  Without
\* it the product is not sold at the branch; with two its availability can
\* never be set again, because get_or_create raises.  Only two makers at one
\* time get in each other's way.
OneRowEach ==
    \A p \in ProductIds, b \in BranchIds : <<p, b>> \notin contested =>
        /\ Len(rows[p][b]) <= 1
        /\ product[p].maker = "crm" /\ product[p].whole /\ branches[b] = "crm"
             => Len(rows[p][b]) = 1

\* However often the menu is imported, and whatever is deleted or fails in
\* between, the place has one branch and every item one product, unless two
\* imports run at one time (ImportView starts a thread for every click).
ImportedOnce ==
    ~parallel =>
        /\ \A b, c \in PlaceBranches : b = c
        /\ \A item \in Items : \A p, q \in From(item) : p = q

\* An import that ran to its end has put every item that came on the menu of a
\* branch of the place, those that an earlier import left half made too, whether or
\* not another import ran beside it; and there it is, unless the restaurant deleted
\* that branch since, which takes the rows of all products with it.
ImportDelivers ==
    \A j \in Workers, item \in Items :
        /\ work[j].op = "import" /\ work[j].at = "done"
        /\ item \notin work[j].failed
        => \E b \in BranchIds :
             /\ <<item, b>> \in work[j].put
             /\ branches[b] = "gone" \/
                (b \in PlaceBranches /\ \E p \in From(item) : rows[p][b] # <<>>)
=============================================================================
