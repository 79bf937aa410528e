---------------------------- MODULE CrawlProofs -----------------------------
(***************************************************************************)
(* Proofs about the parts of MCCrawl, for every value of the constants.    *)
(* Crawl: the types, and that a row which is done has led on to all it     *)
(* names, which is inductive together with what the pass has still in      *)
(* hand.  ArtistOrders: no order fails while its one download goes on, from*)
(* what can be known of an order that was sent once.  Leads: the orders    *)
(* made of a lead are paid for, one by each request and each crash.        *)
(***************************************************************************)
EXTENDS MCCrawl, FiniteSetTheorems, TLAPS

Catalogue ==
  /\ AlbumsOf \in [Artists -> SUBSET Albums]
  /\ SungBy \in [Artists \cup Albums -> SUBSET Artists]
  /\ Budget \in Nat /\ MaxMarks \in Nat /\ MaxExpiries \in Nat /\ MaxAborts \in Nat

\* What the row at hand names is stored and in the frontier, or in hand.
Leading(k) ==
  IF k[1] = "artist"
    THEN \A b \in AlbumsOf[k[2]] :
           \/ <<"album", b>> \in pass.new
           \/ b \in albums /\ row[<<"album", b>>].state # "none"
    ELSE \A a \in SungBy[k[2]] :
           \/ <<"artist", a>> \in pass.new
           \/ /\ a \in artists
              /\ \/ <<"artist_top", a>> \in pass.new
                 \/ /\ row[<<"artist", a>>].state # "none"
                    /\ row[<<"artist_top", a>>].state # "none"
PassSound == \A k \in pass.at : Leading(k)

RowSet == [state : {"none", "pending", "done", "error"}, marks : 0..MaxMarks, fresh : BOOLEAN]
PassSet == [stage : {"none", "end"} \cup Kinds, todo : SUBSET Keys, used : Nat,
            at : SUBSET Keys, new : SUBSET Keys]

-----------------------------------------------------------------------------
(* Keys and rows. *)

\* A key is of an artist or of an album.
LEMMA KeyParts ==
  ASSUME NEW k \in Keys
  PROVE  /\ k[1] = "album" => k[2] \in Albums /\ k = <<"album", k[2]>>
         /\ k[1] # "album" => k[2] \in Artists /\ k[1] \in {"artist", "artist_top"}
         /\ k[1] \in Kinds
         /\ k = <<k[1], k[2]>>
BY DEF Keys, Kinds

\* The keys of artists and albums.
LEMMA KeysOf ==
  /\ \A a \in Artists : <<"artist", a>> \in Keys /\ <<"artist_top", a>> \in Keys
  /\ \A b \in Albums : <<"album", b>> \in Keys
BY DEF Keys

\* A marked row is a row.
LEMMA MarkType ==
  ASSUME Catalogue, NEW r \in RowSet, NEW s \in {"pending", "done", "error"}
  PROVE  Mark(r, s) \in RowSet /\ Mark(r, s).state = s
<1>1. (IF r.marks < MaxMarks THEN r.marks + 1 ELSE r.marks) \in 0..MaxMarks
  BY DEF RowSet, Catalogue
<1>2. (r.fresh \/ s = "done") \in BOOLEAN
  OBVIOUS
<1> QED
  BY <1>1, <1>2 DEF Mark, RowSet

\* What marking does to the frontier.
LEMMA MarkedRows ==
  ASSUME Catalogue, TypeOK, NEW K \in SUBSET Keys, NEW s \in {"pending", "done", "error"},
         Marked(K, s)
  PROVE  /\ row' \in [Keys -> RowSet]
         /\ \A k \in Keys : k \in K => row'[k].state = s
         /\ \A k \in Keys : k \notin K => row'[k] = row[k]
<1>1. row \in [Keys -> RowSet]
  BY DEF TypeOK, RowSet
<1>2. \A k \in Keys : Mark(row[k], s) \in RowSet /\ Mark(row[k], s).state = s
  BY <1>1, MarkType
<1> QED
  BY <1>1, <1>2 DEF Marked

\* What seeding does to it.
LEMMA SeedRows ==
  ASSUME Catalogue, TypeOK, NEW A \in SUBSET Artists, Seed(A)
  PROVE  /\ row' \in [Keys -> RowSet]
         /\ \A k \in Keys : row[k].state # "none" => row'[k] = row[k]
         /\ \A k \in Keys : row'[k].state \in {row[k].state, "pending"}
         /\ \A a \in A : /\ row'[<<"artist", a>>].state # "none"
                         /\ row'[<<"artist_top", a>>].state # "none"
<1>1. row \in [Keys -> RowSet]
  BY DEF TypeOK, RowSet
<1>2. \A k \in Keys : [row[k] EXCEPT !.state = "pending"] \in RowSet
                      /\ [row[k] EXCEPT !.state = "pending"].state = "pending"
  BY <1>1 DEF RowSet
<1>3. \A k \in Keys :
        row'[k] = IF k[1] # "album" /\ k[2] \in A /\ row[k].state = "none"
                    THEN [row[k] EXCEPT !.state = "pending"] ELSE row[k]
  BY DEF Seed
<1>4. row' \in [Keys -> RowSet]
  BY <1>1, <1>2, <1>3 DEF Seed
<1>5. \A a \in A : /\ row'[<<"artist", a>>].state # "none"
                   /\ row'[<<"artist_top", a>>].state # "none"
  BY <1>2, <1>3, KeysOf
<1> QED
  BY <1>2, <1>3, <1>4, <1>5

\* What is fetched are keys.
LEMMA FetchedKeys ==
  ASSUME Catalogue, NEW k \in Keys PROVE Fetched(k) \subseteq Keys
<1>1. CASE k[1] = "artist"
  <2>1. k[2] \in Artists
    BY <1>1, KeyParts
  <2>2. AlbumsOf[k[2]] \subseteq Albums
    BY <2>1 DEF Catalogue
  <2>3. Fetched(k) = {"album"} \X AlbumsOf[k[2]]
    BY <1>1 DEF Fetched
  <2> QED
    BY <2>2, <2>3 DEF Keys
<1>2. CASE k[1] # "artist"
  <2>1. k[2] \in Artists \cup Albums
    BY KeyParts
  <2>2. SungBy[k[2]] \subseteq Artists
    BY <2>1 DEF Catalogue
  <2>3. Fetched(k) = {"artist"} \X SungBy[k[2]]
    BY <1>2 DEF Fetched
  <2> QED
    BY <2>2, <2>3 DEF Keys
<1> QED
  BY <1>1, <1>2

-----------------------------------------------------------------------------
(* Types. *)

\* The initial state has the types.
LEMMA TypeInit == ASSUME Catalogue PROVE Init => TypeOK
BY DEF Catalogue, Init, TypeOK, Resting

\* Every step keeps the types.
LEMMA TypeStep ==
  ASSUME Catalogue, TypeOK, [Next]_vars PROVE TypeOK'
<1>1. /\ row \in [Keys -> RowSet] /\ pass \in PassSet
      /\ artists \subseteq Artists /\ albums \subseteq Albums
  BY DEF TypeOK, RowSet, PassSet
<1>2. ASSUME row' \in [Keys -> RowSet], pass' \in PassSet, artists' \subseteq Artists,
             albums' \subseteq Albums, crBudget' \in [{"expiries", "aborts"} -> Nat]
      PROVE  TypeOK'
  BY <1>2 DEF TypeOK, RowSet, PassSet
<1>3. crBudget \in [{"expiries", "aborts"} -> Nat]
  BY DEF TypeOK
<1>4. \A b \in {"expiries", "aborts"} :
        Pay(b) => crBudget' \in [{"expiries", "aborts"} -> Nat]
  BY <1>3 DEF Pay
<1>5. \A stage, used : \A T \in StageOf(stage, used) : T \in SUBSET Keys
  BY DEF StageOf
<1>6. Resting \in PassSet
  BY DEF Resting, PassSet
<1>7. CASE Begin
  <2>1. PICK T \in StageOf("artist", 0) :
          pass' = [Resting EXCEPT !.stage = "artist", !.todo = T]
    BY <1>7 DEF Begin
  <2>2. pass' \in PassSet
    BY <1>5, <1>6, <2>1 DEF PassSet, Kinds
  <2> QED
    BY <1>1, <1>2, <1>3, <1>7, <2>2 DEF Begin
<1>8. CASE NextStage
  <2>1. pass' \in PassSet
    <3>1. CASE pass' = Resting
      BY <1>6, <3>1
    <3>2. CASE pass' # Resting
      <4>1. PICK T \in StageOf(After(pass.stage), pass.used) :
              pass' = [pass EXCEPT !.stage = After(pass.stage), !.todo = T]
        BY <1>8, <3>2 DEF NextStage
      <4>2. pass.stage \in Kinds
        BY <1>8 DEF NextStage
      <4>3. After(pass.stage) \in {"none", "end"} \cup Kinds
        BY <4>2 DEF After, Kinds
      <4> QED
        BY <1>1, <1>5, <4>1, <4>3 DEF PassSet
    <3> QED
      BY <3>1, <3>2
  <2> QED
    BY <1>1, <1>2, <1>3, <1>8, <2>1 DEF NextStage
<1>9. CASE MarkDone
  <2>1. row' \in [Keys -> RowSet]
    BY <1>1, <1>9, MarkedRows DEF MarkDone, PassSet
  <2>2. pass.used + 1 \in Nat
    BY <1>1 DEF PassSet
  <2>3. pass' = [pass EXCEPT !.at = {}, !.used = pass.used + 1]
    BY <1>9 DEF MarkDone
  <2>4. pass' \in PassSet
    BY <1>1, <2>2, <2>3 DEF PassSet
  <2> QED
    BY <1>1, <1>2, <1>3, <1>9, <2>1, <2>4 DEF MarkDone
<1>10. ASSUME NEW k \in Keys, Fetch(k) PROVE TypeOK'
  <2>1. pass' \in PassSet
    BY <1>1, <1>10, FetchedKeys DEF Fetch, PassSet
  <2> QED
    BY <1>1, <1>2, <1>3, <1>10, <2>1 DEF Fetch
<1>11. ASSUME NEW k \in Keys, NEW limited \in BOOLEAN, FetchFails(k, limited) PROVE TypeOK'
  <2>1. row' \in [Keys -> RowSet]
    BY <1>11, MarkedRows DEF FetchFails
  <2>2. pass' \in PassSet
    <3>1. (IF limited THEN {} ELSE pass.todo \ {k}) \in SUBSET Keys
      BY <1>1 DEF PassSet
    <3> QED
      BY <1>1, <1>11, <3>1 DEF FetchFails, PassSet
  <2> QED
    BY <1>1, <1>2, <1>3, <1>11, <2>1, <2>2 DEF FetchFails
<1>12. ASSUME NEW n \in Keys, Store(n) PROVE TypeOK'
  <2>1. CASE /\ n[1] = "album" /\ albums' = albums \cup {n[2]} /\ Marked({n}, "pending")
             /\ pass' = [pass EXCEPT !.new = @ \ {n}] /\ UNCHANGED artists
    <3>1. row' \in [Keys -> RowSet]
      BY <2>1, MarkedRows
    <3>2. pass' \in PassSet
      BY <1>1, <2>1 DEF PassSet
    <3>3. albums' \subseteq Albums
      BY <1>1, <2>1, KeyParts
    <3> QED
      BY <1>1, <1>2, <1>3, <1>12, <2>1, <3>1, <3>2, <3>3 DEF Store
  <2>2. CASE /\ n[1] = "artist" /\ artists' = artists \cup {n[2]}
             /\ pass' = [pass EXCEPT !.new = (@ \ {n}) \cup {<<"artist_top", n[2]>>}]
             /\ UNCHANGED <<albums, row>>
    <3>1. n[2] \in Artists
      BY <2>2, KeyParts
    <3>2. pass' \in PassSet
      BY <1>1, <2>2, <3>1, KeysOf DEF PassSet
    <3> QED
      BY <1>1, <1>2, <1>3, <1>12, <2>2, <3>1, <3>2 DEF Store
  <2>3. CASE /\ \A m \in pass.new : m[1] = "artist_top"
             /\ Seed({n[2]}) /\ pass' = [pass EXCEPT !.new = @ \ {n}]
             /\ UNCHANGED <<artists, albums>>
    <3>1. n[2] \in Artists
      BY <1>12, <2>3, KeyParts DEF Store
    <3>2. row' \in [Keys -> RowSet]
      BY <2>3, <3>1, SeedRows
    <3>3. pass' \in PassSet
      BY <1>1, <2>3 DEF PassSet
    <3> QED
      BY <1>1, <1>2, <1>3, <1>12, <2>3, <3>2, <3>3 DEF Store
  <2> QED
    BY <1>12, <2>1, <2>2, <2>3 DEF Store
<1>13. CASE Abort
  BY <1>1, <1>2, <1>4, <1>6, <1>13 DEF Abort
<1>14. ASSUME NEW k \in Keys, Expire(k) PROVE TypeOK'
  <2>1. row' \in [Keys -> RowSet]
    BY <1>1, <1>14 DEF Expire, RowSet
  <2> QED
    BY <1>1, <1>2, <1>4, <1>14, <2>1 DEF Expire
<1>15. ASSUME NEW a \in Artists, Touch(a) PROVE TypeOK'
  <2>1. row' \in [Keys -> RowSet]
    BY <1>15, SeedRows DEF Touch
  <2> QED
    BY <1>1, <1>2, <1>3, <1>15, <2>1 DEF Touch
<1>16. CASE UNCHANGED vars
  BY <1>16 DEF vars, TypeOK
<1> QED
  BY <1>7, <1>8, <1>9, <1>10, <1>11, <1>12, <1>13, <1>14, <1>15, <1>16 DEF Next, CrStep

\* Every variable of the crawl keeps its type.
THEOREM CrawlTypeCorrect == ASSUME Catalogue PROVE Spec => []TypeOK
<1>1. Init => TypeOK
  BY TypeInit
<1>2. TypeOK /\ [Next]_vars => TypeOK'
  BY TypeStep
<1> QED
  BY <1>1, <1>2, PTL DEF Spec

-----------------------------------------------------------------------------
(* What is done has led on. *)

\* What is stored stays, and a row once in the frontier stays there.
Grows ==
  /\ artists \subseteq artists' /\ albums \subseteq albums'
  /\ \A k \in Keys : row[k].state # "none" => row'[k].state # "none"

\* Nothing that was led on to is lost by a step that grows.
LEMMA LedGrows ==
  ASSUME Catalogue, Grows, NEW k \in Keys, Led(k) PROVE Led(k)'
<1>1. CASE k[1] = "artist"
  <2>1. k[2] \in Artists
    BY <1>1, KeyParts
  <2>2. AlbumsOf[k[2]] \subseteq Albums
    BY <2>1 DEF Catalogue
  <2> QED
    BY <1>1, <2>2, KeysOf DEF Led, Grows
<1>2. CASE k[1] # "artist"
  <2>1. k[2] \in Artists \cup Albums
    BY KeyParts
  <2>2. SungBy[k[2]] \subseteq Artists
    BY <2>1 DEF Catalogue
  <2> QED
    BY <1>2, <2>2, KeysOf DEF Led, Grows
<1> QED
  BY <1>1, <1>2

\* Nor of what the pass has in hand.
LEMMA LeadingGrows ==
  ASSUME Catalogue, Grows, pass'.new = pass.new, NEW k \in Keys, Leading(k)
  PROVE  Leading(k)'
<1>1. CASE k[1] = "artist"
  <2>1. k[2] \in Artists
    BY <1>1, KeyParts
  <2>2. AlbumsOf[k[2]] \subseteq Albums
    BY <2>1 DEF Catalogue
  <2> QED
    BY <1>1, <2>2, KeysOf DEF Leading, Grows
<1>2. CASE k[1] # "artist"
  <2>1. k[2] \in Artists \cup Albums
    BY KeyParts
  <2>2. SungBy[k[2]] \subseteq Artists
    BY <2>1 DEF Catalogue
  <2> QED
    BY <1>2, <2>2, KeysOf DEF Leading, Grows
<1> QED
  BY <1>1, <1>2

\* With nothing left in hand, the row at hand has led on.
LEMMA LeadingEnds ==
  ASSUME pass.new = {}, NEW k \in Keys, Leading(k) PROVE Led(k)
BY DEF Leading, Led

\* What is fetched is in hand.
LEMMA FetchLeads ==
  ASSUME NEW k \in Keys, pass'.new = Fetched(k) PROVE Leading(k)'
BY DEF Leading, Fetched

\* Marking grows the frontier.
LEMMA MarkGrows ==
  ASSUME Catalogue, TypeOK, NEW K \in SUBSET Keys, NEW s \in {"pending", "done", "error"},
         Marked(K, s), artists \subseteq artists', albums \subseteq albums'
  PROVE  Grows
<1>1. \A k \in Keys : row'[k].state \in {row[k].state, s}
  BY MarkedRows
<1> QED
  BY <1>1 DEF Grows

\* So does seeding.
LEMMA SeedGrows ==
  ASSUME Catalogue, TypeOK, NEW A \in SUBSET Artists, Seed(A),
         artists \subseteq artists', albums \subseteq albums'
  PROVE  Grows
<1>1. \A k \in Keys : row[k].state # "none" => row'[k] = row[k]
  BY SeedRows
<1> QED
  BY <1>1 DEF Grows

\* A step that grows and finishes no row keeps the cascade.
LEMMA GrownCascade ==
  ASSUME Catalogue, CascadeComplete, Grows,
         \A k \in Keys : row'[k].state = "done" => row[k].state = "done"
  PROVE  CascadeComplete'
<1>1. SUFFICES ASSUME NEW k \in Keys, row'[k].state = "done" PROVE Led(k)'
  BY DEF CascadeComplete
<1>2. Led(k)
  BY <1>1 DEF CascadeComplete
<1> QED
  BY <1>2, LedGrows

IInv == TypeOK /\ CascadeComplete /\ PassSound

\* The initial state: nothing is done and nothing is at hand.
LEMMA CascadeInit == Init => CascadeComplete /\ PassSound
BY DEF Init, Resting, CascadeComplete, PassSound

\* What Store leaves in hand and what it has written still lead on.
LEMMA StoreLeads ==
  ASSUME Catalogue, TypeOK, NEW n \in Keys, Store(n), NEW k \in Keys, Leading(k)
  PROVE  Grows /\ Leading(k)' /\ (\A j \in Keys : row'[j].state = "done" => row[j].state = "done")
<1>1. \A a, b : <<a, b>>[1] = a /\ <<a, b>>[2] = b
  OBVIOUS
<1>2. pass \in PassSet
  BY DEF TypeOK, PassSet
<1>3. n \in pass.new
  BY DEF Store
<1>4. CASE /\ n[1] = "album" /\ albums' = albums \cup {n[2]} /\ Marked({n}, "pending")
           /\ pass' = [pass EXCEPT !.new = @ \ {n}] /\ UNCHANGED artists
  <2>1. Grows /\ \A j \in Keys : row'[j].state \in {row[j].state, "pending"}
    BY <1>4, MarkGrows, MarkedRows
  <2>2. n = <<"album", n[2]>> /\ row'[n].state = "pending"
    BY <1>4, KeyParts, MarkedRows
  <2>3. pass'.new = pass.new \ {n}
    BY <1>2, <1>4 DEF PassSet
  <2>4. CASE k[1] = "artist"
    <3>1. k[2] \in Artists
      BY <2>4, KeyParts
    <3>2. AlbumsOf[k[2]] \subseteq Albums
      BY <3>1 DEF Catalogue
    <3>3. ASSUME NEW b \in AlbumsOf[k[2]]
          PROVE  \/ <<"album", b>> \in pass'.new
                 \/ b \in albums' /\ row'[<<"album", b>>].state # "none"
      <4>1. CASE <<"album", b>> = n
        BY <1>4, <2>2, <4>1
      <4>2. CASE <<"album", b>> # n
        BY <1>4, <2>1, <2>3, <2>4, <3>2, <4>2, KeysOf DEF Leading, Grows
      <4> QED
        BY <4>1, <4>2
    <3> QED
      BY <2>1, <2>4, <3>3 DEF Leading
  <2>5. CASE k[1] # "artist"
    <3>1. k[2] \in Artists \cup Albums
      BY KeyParts
    <3>2. SungBy[k[2]] \subseteq Artists
      BY <3>1 DEF Catalogue
    <3>3. \A a : <<"artist", a>> # n /\ <<"artist_top", a>> # n
      BY <1>4
    <3>4. \A a \in SungBy[k[2]] :
            \/ <<"artist", a>> \in pass'.new
            \/ /\ a \in artists'
               /\ \/ <<"artist_top", a>> \in pass'.new
                  \/ /\ row'[<<"artist", a>>].state # "none"
                     /\ row'[<<"artist_top", a>>].state # "none"
      BY <1>4, <2>1, <2>3, <2>5, <3>2, <3>3, KeysOf DEF Leading, Grows
    <3> QED
      BY <2>1, <2>5, <3>4 DEF Leading
  <2> QED
    BY <2>4, <2>5
<1>5. CASE /\ n[1] = "artist" /\ artists' = artists \cup {n[2]}
           /\ pass' = [pass EXCEPT !.new = (@ \ {n}) \cup {<<"artist_top", n[2]>>}]
           /\ UNCHANGED <<albums, row>>
  <2>1. Grows
    BY <1>5 DEF Grows
  <2>2. pass'.new = (pass.new \ {n}) \cup {<<"artist_top", n[2]>>}
    BY <1>2, <1>5 DEF PassSet
  <2>3. n = <<"artist", n[2]>>
    BY <1>5, KeyParts
  <2>4. CASE k[1] = "artist"
    <3>1. \A b : <<"album", b>> # n
      BY <1>5
    <3> QED
      BY <1>5, <2>1, <2>2, <2>4, <3>1 DEF Leading
  <2>5. CASE k[1] # "artist"
    <3>1. ASSUME NEW a \in SungBy[k[2]]
          PROVE  \/ <<"artist", a>> \in pass'.new
                 \/ /\ a \in artists'
                    /\ \/ <<"artist_top", a>> \in pass'.new
                       \/ /\ row'[<<"artist", a>>].state # "none"
                          /\ row'[<<"artist_top", a>>].state # "none"
      <4>1. CASE <<"artist", a>> = n
        BY <1>5, <2>2, <4>1
      <4>2. CASE <<"artist", a>> # n
        <5>1. <<"artist_top", a>> # n
          BY <1>5
        <5> QED
          BY <1>5, <2>2, <2>5, <4>2, <5>1 DEF Leading
      <4> QED
        BY <4>1, <4>2
    <3> QED
      BY <1>5, <2>1, <2>5, <3>1 DEF Leading
  <2> QED
    BY <1>5, <2>1, <2>4, <2>5
<1>6. CASE /\ \A m \in pass.new : m[1] = "artist_top"
           /\ Seed({n[2]}) /\ pass' = [pass EXCEPT !.new = @ \ {n}]
           /\ UNCHANGED <<artists, albums>>
  <2>1. n[2] \in Artists /\ n = <<"artist_top", n[2]>>
    BY <1>3, <1>6, KeyParts
  <2>2. /\ Grows /\ \A j \in Keys : row'[j].state \in {row[j].state, "pending"}
        /\ row'[<<"artist", n[2]>>].state # "none"
        /\ row'[<<"artist_top", n[2]>>].state # "none"
    BY <1>6, <2>1, SeedGrows, SeedRows
  <2>3. pass'.new = pass.new \ {n}
    BY <1>2, <1>6 DEF PassSet
  <2>4. \A a : <<"artist", a>> \notin pass.new /\ <<"album", a>> \notin pass.new
    BY <1>6
  <2>5. CASE k[1] = "artist"
    <3>1. k[2] \in Artists
      BY <2>5, KeyParts
    <3>2. AlbumsOf[k[2]] \subseteq Albums
      BY <3>1 DEF Catalogue
    <3> QED
      BY <1>6, <2>2, <2>4, <2>5, <3>2, KeysOf DEF Leading, Grows
  <2>6. CASE k[1] # "artist"
    <3>1. k[2] \in Artists \cup Albums
      BY KeyParts
    <3>2. SungBy[k[2]] \subseteq Artists
      BY <3>1 DEF Catalogue
    <3>3. ASSUME NEW a \in SungBy[k[2]]
          PROVE  /\ a \in artists'
                 /\ \/ <<"artist_top", a>> \in pass'.new
                    \/ /\ row'[<<"artist", a>>].state # "none"
                       /\ row'[<<"artist_top", a>>].state # "none"
      <4>1. CASE <<"artist_top", a>> = n
        BY <1>6, <2>1, <2>2, <2>4, <2>6, <4>1 DEF Leading
      <4>2. CASE <<"artist_top", a>> # n
        BY <1>6, <2>2, <2>3, <2>4, <2>6, <3>2, <4>2, KeysOf DEF Leading, Grows
      <4> QED
        BY <4>1, <4>2
    <3> QED
      BY <2>2, <2>6, <3>3 DEF Leading
  <2> QED
    BY <2>2, <2>5, <2>6
<1> QED
  BY <1>4, <1>5, <1>6 DEF Store

\* Every step keeps the cascade and what the pass has in hand.
LEMMA CascadeStep ==
  ASSUME Catalogue, IInv, [Next]_vars PROVE CascadeComplete' /\ PassSound'
<1>1. /\ TypeOK /\ CascadeComplete /\ PassSound
      /\ pass \in PassSet /\ pass.at \in SUBSET Keys
  BY DEF IInv, TypeOK, PassSet
<1>2. ASSUME Grows, pass'.new = pass.new, pass'.at \subseteq pass.at
      PROVE  PassSound'
  BY <1>1, <1>2, LeadingGrows DEF PassSound
<1>3. ASSUME UNCHANGED row, Grows PROVE CascadeComplete'
  BY <1>1, <1>3, GrownCascade
<1>4. (UNCHANGED <<artists, albums, row>>) => Grows
  BY DEF Grows
<1>5. ASSUME pass'.at = {} PROVE PassSound'
  BY <1>5 DEF PassSound
<1>6. Resting.at = {}
  BY DEF Resting
<1>7. CASE Begin
  <2>1. pass'.at = {}
    BY <1>7 DEF Begin, Resting
  <2> QED
    BY <1>3, <1>4, <1>5, <1>7, <2>1 DEF Begin
<1>8. CASE NextStage
  <2>1. pass'.at = {}
    BY <1>1, <1>6, <1>8 DEF NextStage, PassSet
  <2> QED
    BY <1>3, <1>4, <1>5, <1>8, <2>1 DEF NextStage
<1>9. CASE MarkDone
  <2>1. pass'.at = {} /\ pass.new = {}
    BY <1>1, <1>9 DEF MarkDone, PassSet
  <2>2. Grows
    BY <1>1, <1>9, MarkGrows DEF MarkDone
  <2>3. ASSUME NEW k \in Keys, row'[k].state = "done" PROVE Led(k)'
    <3>1. CASE k \in pass.at
      BY <1>1, <2>1, <2>2, <3>1, LeadingEnds, LedGrows DEF PassSound
    <3>2. CASE k \notin pass.at
      <4>1. row'[k] = row[k]
        BY <1>1, <1>9, <3>2, MarkedRows DEF MarkDone
      <4> QED
        BY <1>1, <2>2, <2>3, <4>1, LedGrows DEF CascadeComplete
    <3> QED
      BY <3>1, <3>2
  <2> QED
    BY <1>5, <2>1, <2>3 DEF CascadeComplete
<1>10. ASSUME NEW k \in Keys, Fetch(k) PROVE CascadeComplete' /\ PassSound'
  <2>1. pass'.at = {k} /\ pass'.new = Fetched(k)
    BY <1>1, <1>10 DEF Fetch, PassSet
  <2>2. PassSound'
    BY <2>1, FetchLeads DEF PassSound
  <2> QED
    BY <1>3, <1>4, <1>10, <2>2 DEF Fetch
<1>11. ASSUME NEW k \in Keys, NEW limited \in BOOLEAN, FetchFails(k, limited)
       PROVE  CascadeComplete' /\ PassSound'
  <2>1. Grows /\ \A j \in Keys : row'[j].state = "done" => row[j].state = "done"
    BY <1>1, <1>11, MarkGrows, MarkedRows DEF FetchFails
  <2>2. pass'.at = {}
    BY <1>1, <1>11 DEF FetchFails, PassSet
  <2> QED
    BY <1>1, <1>5, <2>1, <2>2, GrownCascade
<1>12. ASSUME NEW n \in Keys, Store(n) PROVE CascadeComplete' /\ PassSound'
  <2>1. pass'.at = pass.at /\ pass.at # {}
    BY <1>1, <1>12 DEF Store, PassSet
  <2>2. \A k \in pass.at : /\ Grows /\ Leading(k)'
                          /\ \A j \in Keys : row'[j].state = "done" => row[j].state = "done"
    BY <1>1, <1>12, StoreLeads DEF PassSound
  <2> QED
    BY <1>1, <2>1, <2>2, GrownCascade DEF PassSound
<1>13. CASE Abort
  BY <1>3, <1>4, <1>5, <1>6, <1>13 DEF Abort
<1>14. ASSUME NEW k \in Keys, Expire(k) PROVE CascadeComplete' /\ PassSound'
  <2>1. \A j \in Keys : row'[j].state = row[j].state
    BY <1>1, <1>14 DEF Expire, TypeOK
  <2>2. Grows
    BY <1>14, <2>1 DEF Grows, Expire
  <2> QED
    BY <1>1, <1>2, <1>14, <2>1, <2>2, GrownCascade DEF Expire
<1>15. ASSUME NEW a \in Artists, Touch(a) PROVE CascadeComplete' /\ PassSound'
  <2>1. Grows
    BY <1>1, <1>15, SeedGrows DEF Touch
  <2>2. \A j \in Keys : row'[j].state = "done" => row[j].state = "done"
    BY <1>1, <1>15, SeedRows DEF Touch
  <2> QED
    BY <1>1, <1>2, <1>15, <2>1, <2>2, GrownCascade DEF Touch
<1>16. CASE UNCHANGED vars
  BY <1>1, <1>2, <1>3, <1>4, <1>16 DEF vars
<1> QED
  BY <1>7, <1>8, <1>9, <1>10, <1>11, <1>12, <1>13, <1>14, <1>15, <1>16 DEF Next, CrStep

\* The crawl never marks a row done before all it names is stored and in the
\* frontier, wherever passes end and whatever other loops touch.
THEOREM CascadeHolds == ASSUME Catalogue PROVE Spec => []CascadeComplete
<1>1. Init => IInv
  BY TypeInit, CascadeInit DEF IInv
<1>2. IInv /\ [Next]_vars => IInv'
  BY TypeStep, CascadeStep DEF IInv
<1>3. IInv => CascadeComplete
  BY DEF IInv
<1> QED
  BY <1>1, <1>2, <1>3, PTL DEF Spec

-----------------------------------------------------------------------------
(* Artist orders. *)

AoBounds == MaxItems \in Nat /\ MaxErrors \in Nat /\ MaxCrashes \in Nat

\* Whose row has been marked.
Taken(o) == status[o] \in {"running", "done", "failed"}
\* Who has an answer of deemix about the order and has yet to mark the row.
Answered(o) == {p \in Ao!Procs : sub[p].pc \in {"queued", "rejected"} /\ sub[p].o = o}

\* What the tick has read is of the kind its phase is about.
BatchRead ==
  /\ phase \in {"rest", "read", "lead"} => batch = {}
  /\ phase \in {"submit", "ask"} => batch \subseteq Ao!Rows
  /\ phase = "poll" => batch \subseteq Ao!Polls
\* Every handle is of an item that deemix has made.
ItemsNamed ==
  /\ \A o \in Orders : handle[o] <= Len(items[o])
  /\ \A p \in Ao!Procs : sub[p].pc = "queued" => sub[p].k <= Len(items[sub[p].o])
  /\ phase \in {"submit", "ask"} => \A b \in batch : b.handle <= Len(items[b.o])
\* Of an order that was sent once there is one answer, and none once its row
\* is marked; one that was never sent has no item and an unmarked row.
SentKnown ==
  \A o \in Orders :
    /\ sent[o] = 0 => ~Taken(o) /\ items[o] = <<>> /\ Answered(o) = {}
    /\ sent[o] = 1 /\ Taken(o) => Answered(o) = {}
    /\ sent[o] = 1 => \A p, q \in Answered(o) : p = q
    /\ sent[o] = 1 => \A p \in Answered(o) : sub[p].pc = "rejected" => items[o] = <<>>
\* What is ingested and polled has its row marked.
TakenInHand ==
  /\ \A o \in Orders : job[o] # Ao!NoJob => Taken(o)
  /\ phase \in {"ask", "poll"} => \A b \in batch : Taken(b.o)
\* What was read of an order that was sent once is what its row still says.
SaidTrue ==
  \A b \in batch : sent[b.o] = 1 =>
    /\ phase = "ask" => b.handle = handle[b.o]
    /\ phase = "poll" /\ b.says \in {"failed", "lapsed"}
         => handle[b.o] = 0 \/ items[b.o][handle[b.o]] # "downloading"

AoTyped == Ao!TypeOK /\ BatchRead /\ ItemsNamed
AoInv == AoTyped /\ SentKnown /\ TakenInHand /\ SaidTrue /\ FailsKnown

States == {"downloading", "success", "failed", "gone"}

\* The first state.
LEMMA AoInit == ASSUME AoBounds PROVE Ao!Init => AoInv
<1> SUFFICES ASSUME Ao!Init PROVE AoInv
  OBVIOUS
<1>1. \A o \in Orders : items[o] = <<>> /\ Len(items[o]) = 0
  BY DEF Ao!Init
<1>2. items \in [Orders -> Seq(States)]
  BY DEF Ao!Init
<1>3. Ao!TypeOK
  BY <1>1, <1>2 DEF Ao!Init, Ao!TypeOK, AoBounds, Ao!Subs, Ao!Jobs, Ao!Idle, Ao!NoJob, States
<1>4. BatchRead /\ ItemsNamed /\ SentKnown /\ TakenInHand /\ SaidTrue
  BY <1>1 DEF Ao!Init, BatchRead, ItemsNamed, SentKnown, TakenInHand, SaidTrue, Taken,
              Answered, Ao!Idle, Ao!NoJob
<1>5. FailsKnown
  BY DEF Ao!Init, FailsKnown, Ao!FailsKnown
<1> QED
  BY <1>3, <1>4, <1>5 DEF AoInv, AoTyped

\* What a submission is at.
LEMMA SubParts ==
  ASSUME Ao!TypeOK, NEW p \in Ao!Procs
  PROVE  /\ sub[p].pc \in {"idle", "login", "send", "rejected", "queued"}
         /\ sub[p].pc # "idle" => sub[p].o \in Orders
         /\ sub[p].pc = "queued" => sub[p].k \in 0..MaxItems
BY DEF Ao!TypeOK, Ao!Subs, Ao!Idle

\* A submission goes on, the others stay.
LEMMA GoesOn ==
  ASSUME Ao!TypeOK, NEW p \in Ao!Procs, NEW rec \in Ao!Subs, Ao!Goes(p, rec)
  PROVE  /\ sub' \in [Ao!Procs -> Ao!Subs] /\ sub'[p] = rec
         /\ \A q \in Ao!Procs : q # p => sub'[q] = sub[q]
BY DEF Ao!TypeOK, Ao!Goes

\* A row is marked, the others stay.
LEMMA Marks ==
  ASSUME Ao!TypeOK, NEW o \in Orders, NEW s \in {"running", "done", "failed"}, Ao!Mark(o, s)
  PROVE  /\ status' \in [Orders -> {"none", "open", "running"} \cup Ao!Settled]
         /\ stale' \in [Orders -> BOOLEAN] /\ older' = older
         /\ status'[o] = s /\ \A q \in Orders : q # o => status'[q] = status[q]
BY DEF Ao!TypeOK, Ao!Mark, Ao!Settled

\* A new row is open.
LEMMA Creates ==
  ASSUME Ao!TypeOK, NEW o \in Orders, Ao!CreateRow(o)
  PROVE  /\ status' \in [Orders -> {"none", "open", "running"} \cup Ao!Settled]
         /\ older' \in [Orders -> SUBSET Orders] /\ UNCHANGED <<handle, stale>>
         /\ status[o] = "none" /\ status'[o] = "open"
         /\ \A q \in Orders : q # o => status'[q] = status[q]
BY DEF Ao!TypeOK, Ao!CreateRow, Ao!Settled

\* deemix takes an order at the end of its queue.
LEMMA Accepts ==
  ASSUME Ao!TypeOK, AoBounds, NEW o \in Orders, Ao!Accepted(o)
  PROVE  /\ items' \in [Orders -> Seq(States)] /\ landed' = landed
         /\ Len(items'[o]) = Len(items[o]) + 1 /\ Len(items'[o]) <= MaxItems
         /\ Len(items'[o]) \in Nat /\ Len(items[o]) \in Nat
         /\ \A k \in 1..Len(items[o]) : items'[o][k] = items[o][k]
         /\ \A q \in Orders : q # o => items'[q] = items[q]
<1>1. /\ items[o] \in Seq(States) /\ items \in [Orders -> Seq(States)]
      /\ Len(items[o]) < MaxItems /\ landed' = landed
      /\ items' = [items EXCEPT ![o] = Append(items[o], "downloading")]
  BY DEF Ao!TypeOK, Ao!Accepted, States
<1>2. /\ Append(items[o], "downloading") \in Seq(States)
      /\ Len(Append(items[o], "downloading")) = Len(items[o]) + 1
      /\ Len(items[o]) \in Nat
      /\ \A k \in 1..Len(items[o]) : Append(items[o], "downloading")[k] = items[o][k]
  BY <1>1 DEF States
<1>3. items'[o] = Append(items[o], "downloading")
  BY <1>1
<1> QED
  BY <1>1, <1>2, <1>3 DEF AoBounds

\* An item changes in its place.
LEMMA Changes ==
  ASSUME Ao!TypeOK, NEW o \in Orders, NEW k \in DOMAIN items[o], NEW s \in States,
         Ao!Becomes(o, k, s)
  PROVE  /\ items' \in [Orders -> Seq(States)]
         /\ \A q \in Orders : Len(items'[q]) = Len(items[q]) /\ DOMAIN items'[q] = DOMAIN items[q]
         /\ \A q \in Orders : \A n \in DOMAIN items[q] :
              items'[q][n] = items[q][n] \/ items'[q][n] = s
<1>1. items[o] \in Seq(States) /\ items \in [Orders -> Seq(States)]
  BY DEF Ao!TypeOK, States
<1>2. items' = [items EXCEPT ![o] = [items[o] EXCEPT ![k] = s]]
  BY DEF Ao!Becomes
<1> DEFINE new == [items[o] EXCEPT ![k] = s]
<1>3. new \in Seq(States) /\ Len(new) = Len(items[o]) /\ DOMAIN new = DOMAIN items[o]
  BY <1>1
<1>4. \A n \in DOMAIN items[o] : new[n] = items[o][n] \/ new[n] = s
  OBVIOUS
<1>5. items'[o] = new /\ \A q \in Orders : q # o => items'[q] = items[q]
  BY <1>1, <1>2
<1>6. items' \in [Orders -> Seq(States)]
  BY <1>1, <1>2, <1>3
<1> HIDE DEF new
<1> QED
  BY <1>3, <1>4, <1>5, <1>6

\* A step that answers, sends and reads nothing, and fails no order that is
\* downloaded, keeps what is known of the orders.
LEMMA NothingLearnt ==
  ASSUME AoInv, AoTyped', UNCHANGED <<items, sent, handle>>,
         \A p \in Ao!Procs : sub'[p] = sub[p] \/ sub'[p].pc \notin {"queued", "rejected"},
         \A o \in Orders : Taken(o)' <=> Taken(o),
         \A o \in Orders : job'[o] # Ao!NoJob => Taken(o),
         \A o \in Orders : status'[o] = "failed" /\ status[o] # "failed" /\ sent[o] < 2
           => sent[o] = 1 /\ (handle[o] = 0 \/ items[o][handle[o]] # "downloading"),
         phase' \in {"ask", "poll"} => phase' = phase /\ batch' \subseteq batch
  PROVE  AoInv'
<1>1. \A o \in Orders : Answered(o)' \subseteq Answered(o)
                        /\ \A p \in Answered(o)' : sub'[p] = sub[p]
  BY DEF Answered
<1>2. SentKnown'
  BY <1>1 DEF AoInv, SentKnown
<1>3. phase' \in {"ask", "poll"} => \A b \in batch' : b.o \in Orders
  BY DEF AoInv, AoTyped, BatchRead, Ao!Rows, Ao!Polls
<1>4. TakenInHand'
  BY <1>3 DEF AoInv, TakenInHand
<1>5. SaidTrue'
  BY <1>3 DEF AoInv, SaidTrue
<1>6. FailsKnown'
  BY DEF AoInv, FailsKnown, Ao!FailsKnown
<1> QED
  BY <1>2, <1>4, <1>5, <1>6 DEF AoInv

\* A new order, and a submission that starts.
LEMMA CreateKept ==
  ASSUME AoBounds, AoInv, NEW p \in Ao!Procs, NEW o \in Orders,
         Ao!CreateRow(o), Ao!Goes(p, [pc |-> "login", o |-> o]),
         UNCHANGED <<handle, stale, items, landed, errors, phase, batch, job, sent, crashes>>
  PROVE  AoInv'
<1>1. Ao!TypeOK
  BY DEF AoInv, AoTyped
<1>2. [pc |-> "login", o |-> o] \in Ao!Subs
  BY DEF Ao!Subs
<1>3. Ao!TypeOK'
  BY <1>1, <1>2, GoesOn, Creates DEF Ao!TypeOK
<1>4. \A q \in Ao!Procs : sub'[q] = sub[q] \/ sub'[q].pc = "login"
  BY <1>1, <1>2, GoesOn
<1>5. AoTyped'
  BY <1>3, <1>4 DEF AoInv, AoTyped, BatchRead, ItemsNamed
<1>6. \A q \in Orders : Taken(q)' <=> Taken(q)
  BY <1>1, Creates DEF Taken
<1>7. \A q \in Orders : status'[q] = "failed" => status[q] = "failed"
  BY <1>1, Creates
<1> QED
  BY <1>4, <1>5, <1>6, <1>7, NothingLearnt DEF AoInv, TakenInHand

\* The deemix login, and the tick's next submission.
LEMMA LoginKept ==
  ASSUME AoBounds, AoInv, NEW p \in Ao!Procs, NEW ready \in BOOLEAN, Ao!Login(p, ready)
  PROVE  AoInv'
<1>1. Ao!TypeOK
  BY DEF AoInv, AoTyped
<1>2. PICK rec \in Ao!Subs : Ao!Goes(p, rec) /\ rec.pc \in {"send", "idle"}
  BY <1>1, SubParts DEF Ao!Login, Ao!Subs, Ao!Idle
<1>3. UNCHANGED <<status, handle, stale, older, items, landed, errors, phase, batch, job, sent,
                  crashes>>
  BY DEF Ao!Login, Ao!rowVars, Ao!deemix, Ao!tickVars
<1>4. \A q \in Ao!Procs : sub'[q] = sub[q] \/ sub'[q].pc \in {"send", "idle"}
  BY <1>1, <1>2, GoesOn
<1>5. Ao!TypeOK'
  BY <1>1, <1>2, <1>3, GoesOn DEF Ao!TypeOK
<1>6. AoTyped'
  BY <1>3, <1>4, <1>5 DEF AoInv, AoTyped, BatchRead, ItemsNamed
<1>7. \A o \in Orders : Taken(o)' <=> Taken(o)
  BY <1>3 DEF Taken
<1> QED
  BY <1>3, <1>4, <1>6, <1>7, NothingLearnt DEF AoInv, TakenInHand
LEMMA SubmitKept ==
  ASSUME AoBounds, AoInv, NEW b \in batch, Ao!SubmitNext(b)
  PROVE  AoInv'
<1>1. Ao!TypeOK /\ b \in Ao!Rows /\ phase = "submit" /\ "tick" \in Ao!Procs
  BY DEF AoInv, AoTyped, BatchRead, Ao!SubmitNext, Ao!Procs
<1>2. /\ Ao!Goes("tick", [pc |-> "send", o |-> b.o]) /\ [pc |-> "send", o |-> b.o] \in Ao!Subs
      /\ batch' = batch \ {b}
      /\ UNCHANGED <<status, handle, stale, older, items, landed, errors, phase, job, sent,
                     crashes>>
  BY <1>1 DEF Ao!SubmitNext, Ao!rowVars, Ao!deemix, Ao!Subs, Ao!Rows
<1>3. \A q \in Ao!Procs : sub'[q] = sub[q] \/ sub'[q].pc = "send"
  BY <1>1, <1>2, GoesOn
<1>4. Ao!TypeOK'
  BY <1>1, <1>2, GoesOn DEF Ao!TypeOK
<1>5. AoTyped'
  BY <1>1, <1>2, <1>3, <1>4 DEF AoInv, AoTyped, BatchRead, ItemsNamed
<1>6. \A o \in Orders : Taken(o)' <=> Taken(o)
  BY <1>2 DEF Taken
<1> QED
  BY <1>1, <1>2, <1>3, <1>5, <1>6, NothingLearnt DEF AoInv, TakenInHand

\* deemix is sent an order: it takes it and names the item or not, refuses it,
\* or its answer is lost.
LEMMA SendEffect ==
  ASSUME AoBounds, AoTyped, NEW p \in Ao!Procs, NEW o \in Orders, o = sub[p].o, Ao!Send(p)
  PROVE  /\ AoTyped'
         /\ UNCHANGED <<status, handle, stale, older, phase, batch, job, crashes>>
         /\ sent'[o] = IF sent[o] = 2 THEN 2 ELSE sent[o] + 1
         /\ \A q \in Orders : q # o => sent'[q] = sent[q] /\ items'[q] = items[q]
         /\ \A q \in Orders : Len(items[q]) <= Len(items'[q])
                              /\ \A k \in 1..Len(items[q]) : items'[q][k] = items[q][k]
         /\ \A q \in Ao!Procs : q # p => sub'[q] = sub[q]
         /\ sub'[p].pc \in {"idle", "queued", "rejected"}
         /\ sub'[p].pc # "idle" => sub'[p].o = o
         /\ sub'[p].pc = "rejected" => items'[o] = items[o]
<1>1. Ao!TypeOK
  BY DEF AoTyped
<1>2. /\ UNCHANGED <<status, handle, stale, older, phase, batch, job, crashes>>
      /\ sent' = [sent EXCEPT ![o] = IF @ = 2 THEN 2 ELSE @ + 1]
  BY DEF Ao!Send, Ao!rowVars, Ao!tickVars
<1>3. /\ sent' \in [Orders -> 0..2]
      /\ sent'[o] = IF sent[o] = 2 THEN 2 ELSE sent[o] + 1
      /\ \A q \in Orders : q # o => sent'[q] = sent[q]
  <2>1. sent \in [Orders -> 0..2] /\ sent[o] \in 0..2
    BY <1>1 DEF Ao!TypeOK
  <2>2. (IF sent[o] = 2 THEN 2 ELSE sent[o] + 1) \in 0..2
    BY <2>1
  <2> QED
    BY <1>2, <2>1, <2>2
<1>4. \A q \in Orders : Len(items[q]) \in Nat /\ Len(items[q]) <= MaxItems
  BY <1>1 DEF Ao!TypeOK
<1>5. PICK rec \in Ao!Subs :
        /\ Ao!Goes(p, rec) /\ rec.pc \in {"idle", "queued", "rejected"}
        /\ rec.pc # "idle" => rec.o = o
        /\ rec.pc = "queued" => rec.k <= Len(items'[o])
        /\ rec.pc = "rejected" => items' = items
        /\ landed' = landed /\ errors' \in 0..MaxErrors
        /\ Ao!Accepted(o) \/ items' = items
  <2>1. CASE /\ Ao!Accepted(o) /\ UNCHANGED errors
             /\ \E k \in {0, Len(items'[o])} : Ao!Goes(p, [pc |-> "queued", o |-> o, k |-> k])
    <3>1. PICK k \in {0, Len(items'[o])} : Ao!Goes(p, [pc |-> "queued", o |-> o, k |-> k])
      BY <2>1
    <3>2. k \in 0..MaxItems /\ k <= Len(items'[o]) /\ landed' = landed
      BY <1>1, <2>1, Accepts DEF AoBounds
    <3>3. [pc |-> "queued", o |-> o, k |-> k] \in Ao!Subs
      BY <3>2 DEF Ao!Subs
    <3> QED
      BY <1>1, <2>1, <3>1, <3>2, <3>3 DEF Ao!TypeOK
  <2>2. CASE Ao!Goes(p, [pc |-> "rejected", o |-> o]) /\ UNCHANGED Ao!deemix
    <3>1. [pc |-> "rejected", o |-> o] \in Ao!Subs
      BY DEF Ao!Subs
    <3> QED
      BY <1>1, <2>2, <3>1 DEF Ao!TypeOK, Ao!deemix
  <2>3. CASE /\ errors < MaxErrors /\ errors' = errors + 1 /\ Ao!Goes(p, Ao!Idle)
             /\ Ao!Accepted(o) \/ UNCHANGED <<items, landed>>
    <3>1. Ao!Idle \in Ao!Subs /\ Ao!Idle.pc = "idle"
      BY DEF Ao!Subs, Ao!Idle
    <3>2. errors' \in 0..MaxErrors
      BY <1>1, <2>3 DEF Ao!TypeOK, AoBounds
    <3> QED
      BY <1>1, <2>3, <3>1, <3>2, Accepts
  <2> QED
    BY <2>1, <2>2, <2>3 DEF Ao!Send
<1>6. /\ items' \in [Orders -> Seq(States)]
      /\ \A q \in Orders : Len(items'[q]) \in Nat /\ Len(items'[q]) <= MaxItems
      /\ \A q \in Orders : q # o => items'[q] = items[q]
      /\ \A q \in Orders : Len(items[q]) <= Len(items'[q])
                           /\ \A k \in 1..Len(items[q]) : items'[q][k] = items[q][k]
  <2>1. CASE items' = items
    BY <1>1, <1>4, <2>1 DEF Ao!TypeOK, States
  <2>2. CASE Ao!Accepted(o)
    <3>1. /\ items' \in [Orders -> Seq(States)] /\ Len(items'[o]) = Len(items[o]) + 1
          /\ Len(items'[o]) <= MaxItems /\ \A k \in 1..Len(items[o]) : items'[o][k] = items[o][k]
          /\ \A q \in Orders : q # o => items'[q] = items[q]
      BY <1>1, <2>2, Accepts
    <3> QED
      BY <1>4, <3>1
  <2> QED
    BY <1>5, <2>1, <2>2
<1>7. /\ sub' \in [Ao!Procs -> Ao!Subs] /\ sub'[p] = rec
      /\ \A q \in Ao!Procs : q # p => sub'[q] = sub[q]
  BY <1>1, <1>5, GoesOn
<1>8. Ao!TypeOK'
  BY <1>1, <1>2, <1>3, <1>5, <1>6, <1>7 DEF Ao!TypeOK, States
<1>9. BatchRead'
  BY <1>2 DEF AoTyped, BatchRead
<1>10. ItemsNamed'
  <2>1. \A q \in Orders : handle'[q] <= Len(items'[q])
    BY <1>1, <1>2, <1>4, <1>6 DEF AoTyped, ItemsNamed, Ao!TypeOK
  <2>2. \A q \in Ao!Procs : sub'[q].pc = "queued" => sub'[q].k <= Len(items'[sub'[q].o])
    <3> SUFFICES ASSUME NEW q \in Ao!Procs, sub'[q].pc = "queued"
                 PROVE  sub'[q].k <= Len(items'[sub'[q].o])
      OBVIOUS
    <3>1. CASE q = p
      BY <1>5, <1>7, <3>1
    <3>2. CASE q # p
      <4>1. /\ sub'[q] = sub[q] /\ sub[q].o \in Orders /\ sub[q].k \in 0..MaxItems
            /\ sub[q].k <= Len(items[sub[q].o])
        BY <1>1, <1>7, <3>2, SubParts DEF AoTyped, ItemsNamed
      <4> QED
        BY <1>4, <1>6, <4>1 DEF AoBounds
    <3> QED
      BY <3>1, <3>2
  <2>3. phase' \in {"submit", "ask"} => \A b \in batch' : b.handle <= Len(items'[b.o])
    <3> SUFFICES ASSUME phase \in {"submit", "ask"}, NEW b \in batch
                 PROVE  b.handle <= Len(items'[b.o])
      BY <1>2
    <3>1. b.o \in Orders /\ b.handle \in 0..MaxItems /\ b.handle <= Len(items[b.o])
      BY DEF AoTyped, BatchRead, ItemsNamed, Ao!Rows
    <3> QED
      BY <1>4, <1>6, <3>1 DEF AoBounds
  <2> QED
    BY <2>1, <2>2, <2>3 DEF ItemsNamed
<1> QED
  BY <1>2, <1>3, <1>5, <1>6, <1>7, <1>8, <1>9, <1>10 DEF AoTyped

\* An order that is sent for the first time has nothing known of it but that.
LEMMA SendKept ==
  ASSUME AoBounds, AoInv, NEW p \in Ao!Procs, Ao!Send(p)
  PROVE  AoInv'
<1>1. Ao!TypeOK /\ AoTyped /\ sub[p].pc = "send"
  BY DEF AoInv, AoTyped, Ao!Send
<1>2. PICK o \in Orders : o = sub[p].o
  BY <1>1, SubParts
<1>3. /\ AoTyped'
      /\ UNCHANGED <<status, handle, stale, older, phase, batch, job, crashes>>
      /\ sent'[o] = IF sent[o] = 2 THEN 2 ELSE sent[o] + 1
      /\ \A q \in Orders : q # o => sent'[q] = sent[q] /\ items'[q] = items[q]
      /\ \A q \in Orders : Len(items[q]) <= Len(items'[q])
                           /\ \A k \in 1..Len(items[q]) : items'[q][k] = items[q][k]
      /\ \A q \in Ao!Procs : q # p => sub'[q] = sub[q]
      /\ sub'[p].pc \in {"idle", "queued", "rejected"}
      /\ sub'[p].pc # "idle" => sub'[p].o = o
      /\ sub'[p].pc = "rejected" => items'[o] = items[o]
  BY <1>1, <1>2, SendEffect
<1>4. \A q \in Orders : sent[q] \in 0..2
  BY <1>1 DEF Ao!TypeOK
<1>5. \A q \in Orders : q # o => Answered(q)' = Answered(q)
                                  /\ \A r \in Answered(q) : sub'[r] = sub[r]
  BY <1>1, <1>2, <1>3 DEF Answered
<1>6. Answered(o)' \subseteq Answered(o) \cup {p}
  BY <1>3 DEF Answered
<1>7. \A q \in Orders : Taken(q)' <=> Taken(q)
  BY <1>3 DEF Taken
<1>8. sent'[o] \in {1, 2} /\ (sent'[o] = 1 => sent[o] = 0)
  BY <1>3, <1>4
<1>9. SentKnown'
  <2>1. ASSUME NEW q \in Orders, q # o
        PROVE  /\ sent'[q] = 0 => ~Taken(q)' /\ items'[q] = <<>> /\ Answered(q)' = {}
               /\ sent'[q] = 1 /\ Taken(q)' => Answered(q)' = {}
               /\ sent'[q] = 1 => \A x, y \in Answered(q)' : x = y
               /\ sent'[q] = 1 => \A x \in Answered(q)' :
                    sub'[x].pc = "rejected" => items'[q] = <<>>
    BY <1>3, <1>5, <1>7, <2>1 DEF AoInv, SentKnown
  <2>2. /\ sent'[o] # 0
        /\ sent'[o] = 1 => ~Taken(o)' /\ Answered(o)' \subseteq {p}
        /\ sent'[o] = 1 /\ sub'[p].pc = "rejected" => items'[o] = <<>>
    BY <1>3, <1>6, <1>7, <1>8 DEF AoInv, SentKnown
  <2> QED
    BY <2>1, <2>2 DEF SentKnown
<1>10. TakenInHand'
  <2>1. phase \in {"ask", "poll"} => \A b \in batch : b.o \in Orders
    BY DEF AoInv, AoTyped, BatchRead, Ao!Rows, Ao!Polls
  <2> QED
    BY <1>3, <1>7, <2>1 DEF AoInv, TakenInHand
<1>11. ASSUME NEW q \in Orders, sent'[q] = 1, Taken(q)
       PROVE  sent[q] = 1 /\ items'[q] = items[q]
  BY <1>3, <1>8, <1>11 DEF AoInv, SentKnown
<1>12. SaidTrue'
  <2> SUFFICES ASSUME NEW b \in batch, sent'[b.o] = 1, phase \in {"ask", "poll"}
               PROVE  /\ phase = "ask" => b.handle = handle[b.o]
                      /\ phase = "poll" /\ b.says \in {"failed", "lapsed"}
                           => handle[b.o] = 0 \/ items'[b.o][handle[b.o]] # "downloading"
    BY <1>3 DEF SaidTrue
  <2>1. b.o \in Orders /\ Taken(b.o)
    BY DEF AoInv, AoTyped, BatchRead, TakenInHand, Ao!Rows, Ao!Polls
  <2>2. sent[b.o] = 1 /\ items'[b.o] = items[b.o]
    BY <1>11, <2>1
  <2> QED
    BY <2>2 DEF AoInv, SaidTrue
<1>13. FailsKnown'
  <2> SUFFICES ASSUME NEW q \in Orders, status[q] = "failed", sent'[q] < 2
               PROVE  sent'[q] = 1 /\ (handle[q] = 0 \/ items'[q][handle[q]] # "downloading")
    BY <1>3 DEF FailsKnown, Ao!FailsKnown
  <2>1. Taken(q)
    BY DEF Taken
  <2>2. sent'[q] = 1
    BY <1>3, <1>4, <1>8, <2>1 DEF AoInv, SentKnown
  <2> QED
    BY <1>11, <2>1, <2>2 DEF AoInv, FailsKnown, Ao!FailsKnown
<1> QED
  BY <1>3, <1>9, <1>10, <1>12, <1>13 DEF AoInv

\* The row is marked by the answer: by the only one, if the order was sent once.
LEMMA MarkKept ==
  ASSUME AoBounds, AoInv, NEW p \in Ao!Procs, Ao!MarkSubmitted(p)
  PROVE  AoInv'
<1>1. Ao!TypeOK /\ AoTyped /\ sub[p].pc \in {"queued", "rejected"}
  BY DEF AoInv, AoTyped, Ao!MarkSubmitted
<1>2. PICK o \in Orders : o = sub[p].o
  BY <1>1, SubParts
<1>3. PICK s \in {"running", "failed"} :
        /\ Ao!Mark(o, s)
        /\ s = "failed" => sub[p].pc = "rejected" /\ handle' = handle
        /\ s = "running" => /\ sub[p].pc = "queued"
                            /\ handle' = [handle EXCEPT ![o] = sub[p].k]
  BY <1>1, <1>2 DEF Ao!MarkSubmitted
<1>4. /\ Ao!Goes(p, Ao!Idle) /\ Ao!Idle \in Ao!Subs /\ Ao!Idle.pc = "idle"
      /\ UNCHANGED <<items, landed, errors, phase, batch, job, sent, crashes>>
  BY DEF Ao!MarkSubmitted, Ao!deemix, Ao!tickVars, Ao!Subs, Ao!Idle
<1>5. /\ status' \in [Orders -> {"none", "open", "running"} \cup Ao!Settled]
      /\ stale' \in [Orders -> BOOLEAN] /\ older' = older
      /\ status'[o] = s /\ \A q \in Orders : q # o => status'[q] = status[q]
  BY <1>1, <1>3, Marks
<1>6. /\ sub' \in [Ao!Procs -> Ao!Subs] /\ sub'[p].pc = "idle"
      /\ \A q \in Ao!Procs : q # p => sub'[q] = sub[q]
  BY <1>1, <1>4, GoesOn
<1>7. /\ handle' \in [Orders -> 0..MaxItems]
      /\ \A q \in Orders : q # o => handle'[q] = handle[q]
      /\ handle'[o] <= Len(items[o])
      /\ s = "failed" => handle'[o] = handle[o]
  <2>1. CASE s = "failed"
    BY <1>1, <1>3, <2>1 DEF AoTyped, ItemsNamed, Ao!TypeOK
  <2>2. CASE s = "running"
    <3>1. sub[p].k \in 0..MaxItems /\ sub[p].k <= Len(items[o])
      BY <1>1, <1>2, <1>3, <2>2, SubParts DEF AoTyped, ItemsNamed
    <3> QED
      BY <1>1, <1>3, <2>2, <3>1 DEF Ao!TypeOK
  <2> QED
    BY <2>1, <2>2
<1>8. Ao!TypeOK'
  BY <1>1, <1>4, <1>5, <1>6, <1>7 DEF Ao!TypeOK
<1>9. AoTyped'
  BY <1>1, <1>4, <1>6, <1>7, <1>8 DEF AoTyped, BatchRead, ItemsNamed
<1>10. \A q \in Orders : (Taken(q)' <=> Taken(q) \/ q = o)
  BY <1>5 DEF Taken
<1>11. \A q \in Orders : Answered(q)' \subseteq Answered(q) \ {p}
                         /\ \A r \in Answered(q)' : sub'[r] = sub[r]
  BY <1>6 DEF Answered
<1>12. p \in Answered(o)
  BY <1>1, <1>2 DEF Answered
<1>13. sent[o] # 0 /\ (sent[o] = 1 => ~Taken(o) /\ Answered(o)' = {})
  BY <1>11, <1>12 DEF AoInv, SentKnown
<1>14. SentKnown'
  BY <1>4, <1>10, <1>11, <1>13 DEF AoInv, SentKnown
<1>15. phase \in {"ask", "poll"} => \A b \in batch : b.o \in Orders
  BY <1>1 DEF AoTyped, BatchRead, Ao!Rows, Ao!Polls
<1>16. TakenInHand'
  BY <1>4, <1>10, <1>15 DEF AoInv, TakenInHand
<1>17. SaidTrue'
  BY <1>4, <1>7, <1>13, <1>15 DEF AoInv, SaidTrue, TakenInHand
<1>18. ASSUME s = "failed", sent[o] = 1 PROVE handle'[o] = 0
  <2>1. items[o] = <<>> /\ Len(items[o]) = 0
    BY <1>3, <1>12, <1>18 DEF AoInv, SentKnown
  <2> QED
    BY <1>7, <2>1 DEF AoBounds
<1>19. FailsKnown'
  <2>1. \A q \in Orders : sent[q] \in 0..2
    BY <1>1 DEF Ao!TypeOK
  <2> QED
    BY <1>4, <1>5, <1>7, <1>13, <1>18, <2>1 DEF AoInv, FailsKnown, Ao!FailsKnown
<1> QED
  BY <1>9, <1>14, <1>16, <1>17, <1>19 DEF AoInv

\* The rows with a status, as the tick reads them.
LEMMA RowsRead ==
  ASSUME AoTyped, NEW s
  PROVE  /\ Ao!RowsOf(s) \subseteq Ao!Rows
         /\ \A b \in Ao!RowsOf(s) : /\ b.o \in Orders /\ status[b.o] = s
                                    /\ b.handle = handle[b.o]
                                    /\ b.handle <= Len(items[b.o])
<1> SUFFICES ASSUME NEW b \in Ao!RowsOf(s)
             PROVE  /\ b \in Ao!Rows /\ b.o \in Orders /\ status[b.o] = s
                    /\ b.handle = handle[b.o] /\ b.handle <= Len(items[b.o])
  OBVIOUS
<1>1. PICK o \in Orders : status[o] = s /\ b = [o |-> o, handle |-> handle[o], stale |-> stale[o]]
  BY DEF Ao!RowsOf
<1> QED
  BY <1>1 DEF AoTyped, ItemsNamed, Ao!TypeOK, Ao!Rows

\* What the queue says of an item, and what that shows of a row that has not
\* got another handle since.
LEMMA SaysKnown ==
  ASSUME AoTyped, phase = "ask", NEW b \in batch
  PROVE  /\ [o |-> b.o, says |-> Ao!Says(b)] \in Ao!Polls
         /\ Ao!Says(b) \in {"failed", "lapsed"}
              => b.handle = 0 \/ items[b.o][b.handle] # "downloading"
<1>1. /\ b \in Ao!Rows /\ b.o \in Orders /\ b.handle \in 0..MaxItems /\ b.handle <= Len(items[b.o])
      /\ items[b.o] \in Seq(States) /\ Len(items[b.o]) \in Nat /\ b.stale \in BOOLEAN
  BY DEF AoTyped, BatchRead, ItemsNamed, Ao!Rows, Ao!TypeOK, States
<1>2. CASE b.handle = 0
  BY <1>1, <1>2 DEF Ao!Says, Ao!Polls
<1>3. CASE b.handle # 0
  <2>1. b.handle \in 1..Len(items[b.o])
    BY <1>1, <1>3
  <2>2. items[b.o][b.handle] \in States
    BY <1>1, <2>1
  <2> QED
    BY <1>1, <1>3, <2>2 DEF Ao!Says, Ao!Polls, States
<1> QED
  BY <1>2, <1>3

\* The tick reads.
LEMMA ReadKept ==
  ASSUME AoBounds, AoInv,
         \/ Ao!SubmitDone \/ Ao!ReadRunning \/ Ao!PollDone \/ Ao!LeadsDone
         \/ \E ok \in BOOLEAN : Ao!ReadOpen(ok) \/ Ao!GetQueue(ok)
  PROVE  AoInv'
<1>1. Ao!TypeOK /\ AoTyped
  BY DEF AoInv, AoTyped
<1>2. /\ UNCHANGED <<status, handle, stale, older, items, landed, errors, sub, job, sent, crashes>>
      /\ phase' \in {"rest", "submit", "read", "ask", "poll", "lead"}
  BY DEF Ao!SubmitDone, Ao!ReadRunning, Ao!PollDone, Ao!LeadsDone, Ao!ReadOpen, Ao!GetQueue,
         Ao!rowVars, Ao!deemix, Ao!tickVars
<1>3. SentKnown' /\ FailsKnown'
  BY <1>2 DEF AoInv, SentKnown, Taken, Answered, FailsKnown, Ao!FailsKnown
<1>4. \A o \in Orders : job'[o] # Ao!NoJob => Taken(o)'
  BY <1>2 DEF AoInv, TakenInHand, Taken
<1>5. ASSUME batch' = {}
      PROVE  AoInv'
  <2>1. Ao!TypeOK'
    BY <1>1, <1>2, <1>5 DEF Ao!TypeOK
  <2>2. AoTyped'
    BY <1>1, <1>2, <1>5, <2>1 DEF AoTyped, BatchRead, ItemsNamed
  <2> QED
    BY <1>3, <1>4, <1>5, <2>2 DEF AoInv, TakenInHand, SaidTrue
<1>6. CASE Ao!SubmitDone \/ Ao!PollDone \/ Ao!LeadsDone \/ Ao!ReadOpen(FALSE) \/ Ao!GetQueue(FALSE)
  BY <1>1, <1>5, <1>6 DEF AoTyped, BatchRead, Ao!SubmitDone, Ao!PollDone, Ao!LeadsDone,
                          Ao!ReadOpen, Ao!GetQueue
<1>7. ASSUME NEW s, batch' = Ao!RowsOf(s), phase' = "submit" \/ (phase' = "ask" /\ s = "running")
      PROVE  AoInv'
  <2>1. /\ batch' \subseteq Ao!Rows
        /\ \A b \in batch' : /\ b.o \in Orders /\ status[b.o] = s /\ b.handle = handle[b.o]
                             /\ b.handle <= Len(items[b.o])
    BY <1>1, <1>7, RowsRead
  <2>2. Ao!TypeOK'
    BY <1>1, <1>2, <2>1 DEF Ao!TypeOK
  <2>3. AoTyped'
    BY <1>1, <1>2, <1>7, <2>1, <2>2 DEF AoTyped, BatchRead, ItemsNamed
  <2>4. TakenInHand' /\ SaidTrue'
    BY <1>2, <1>4, <1>7, <2>1 DEF TakenInHand, SaidTrue, Taken
  <2> QED
    BY <1>3, <2>3, <2>4 DEF AoInv
<1>8. CASE Ao!ReadOpen(TRUE) \/ Ao!ReadRunning
  BY <1>5, <1>7, <1>8 DEF Ao!ReadOpen, Ao!ReadRunning
<1>9. CASE Ao!GetQueue(TRUE)
  <2>1. phase = "ask" /\ phase' = "poll" /\ batch' = {[o |-> b.o, says |-> Ao!Says(b)] : b \in batch}
    BY <1>9 DEF Ao!GetQueue
  <2>2. batch' \subseteq Ao!Polls
    BY <1>1, <2>1, SaysKnown
  <2>3. Ao!TypeOK'
    BY <1>1, <1>2, <2>2 DEF Ao!TypeOK
  <2>4. AoTyped'
    BY <1>1, <1>2, <2>1, <2>2, <2>3 DEF AoTyped, BatchRead, ItemsNamed
  <2>5. TakenInHand'
    BY <1>2, <1>4, <2>1 DEF AoInv, TakenInHand, Taken
  <2>6. SaidTrue'
    <3> SUFFICES ASSUME NEW c \in batch', sent[c.o] = 1, c.says \in {"failed", "lapsed"}
                 PROVE  handle[c.o] = 0 \/ items[c.o][handle[c.o]] # "downloading"
      BY <1>2, <2>1 DEF SaidTrue
    <3>1. PICK b \in batch : c = [o |-> b.o, says |-> Ao!Says(b)]
      BY <2>1
    <3>2. sent[b.o] = 1 /\ b.handle = handle[b.o]
      BY <2>1, <3>1 DEF AoInv, SaidTrue
    <3> QED
      BY <1>1, <2>1, <3>1, <3>2, SaysKnown
  <2> QED
    BY <1>3, <2>4, <2>5, <2>6 DEF AoInv
<1> QED
  BY <1>6, <1>8, <1>9

\* The tick settles what it has polled.
LEMMA PollKept ==
  ASSUME AoBounds, AoInv, NEW b \in batch, Ao!Poll(b)
  PROVE  AoInv'
<1>1. /\ Ao!TypeOK /\ AoTyped /\ phase = "poll" /\ batch' = batch \ {b}
      /\ b.o \in Orders /\ Taken(b.o)
      /\ UNCHANGED <<items, landed, errors, phase, sub, sent, crashes>>
  BY DEF AoInv, AoTyped, BatchRead, TakenInHand, Ao!Poll, Ao!Polls, Ao!deemix
<1>2. CASE /\ Ao!SpawnIngest(b.o, TRUE) \/ Ao!SpawnIngest(b.o, FALSE) \/ UNCHANGED job
           /\ UNCHANGED Ao!rowVars
  <2>1. PICK t \in BOOLEAN : Ao!SpawnIngest(b.o, t) \/ job' = job
    BY <1>2
  <2>2. [pc |-> "scan", terminal |-> t] \in Ao!Jobs
    BY DEF Ao!Jobs
  <2>3. job' \in [Orders -> Ao!Jobs] /\ \A o \in Orders : o # b.o => job'[o] = job[o]
    BY <1>1, <2>1, <2>2 DEF Ao!SpawnIngest, Ao!TypeOK
  <2>4. UNCHANGED <<status, handle, stale, older>>
    BY <1>2 DEF Ao!rowVars
  <2>5. Ao!TypeOK'
    BY <1>1, <2>3, <2>4 DEF Ao!TypeOK
  <2>6. AoTyped'
    BY <1>1, <2>4, <2>5 DEF AoTyped, BatchRead, ItemsNamed
  <2>7. \A o \in Orders : (Taken(o)' <=> Taken(o)) /\ (job'[o] # Ao!NoJob => Taken(o))
    BY <1>1, <2>3, <2>4 DEF Taken, AoInv, TakenInHand
  <2> QED
    BY <1>1, <2>4, <2>6, <2>7, NothingLearnt
<1>3. CASE b.says \in {"failed", "lapsed"} /\ Ao!Mark(b.o, "failed") /\ UNCHANGED <<handle, job>>
  <2>1. /\ status' \in [Orders -> {"none", "open", "running"} \cup Ao!Settled]
        /\ stale' \in [Orders -> BOOLEAN] /\ older' = older
        /\ status'[b.o] = "failed" /\ \A q \in Orders : q # b.o => status'[q] = status[q]
    BY <1>1, <1>3, Marks
  <2>2. Ao!TypeOK'
    BY <1>1, <1>3, <2>1 DEF Ao!TypeOK
  <2>3. AoTyped'
    BY <1>1, <1>3, <2>2 DEF AoTyped, BatchRead, ItemsNamed
  <2>4. \A o \in Orders : (Taken(o)' <=> Taken(o)) /\ (job'[o] # Ao!NoJob => Taken(o))
    BY <1>1, <1>3, <2>1 DEF Taken, AoInv, TakenInHand
  <2>5. sent[b.o] < 2
          => sent[b.o] = 1 /\ (handle[b.o] = 0 \/ items[b.o][handle[b.o]] # "downloading")
    BY <1>1, <1>3 DEF AoInv, SentKnown, SaidTrue, Ao!TypeOK
  <2> QED
    BY <1>1, <1>3, <2>1, <2>3, <2>4, <2>5, NothingLearnt
<1> QED
  BY <1>2, <1>3 DEF Ao!Poll

\* The ingest of an order whose row is marked.
LEMMA IngestKept ==
  ASSUME AoBounds, AoInv, NEW o \in Orders, Ao!Scan(o) \/ Ao!SettleIngest(o)
  PROVE  AoInv'
<1>1. /\ Ao!TypeOK /\ AoTyped /\ job[o].pc \in {"scan", "added", "nothing"}
      /\ UNCHANGED <<items, landed, errors, phase, batch, sub, sent, crashes, handle>>
  BY DEF AoInv, AoTyped, Ao!Scan, Ao!SettleIngest, Ao!rowVars, Ao!deemix, Ao!tickVars
<1>2. /\ job[o] # Ao!NoJob /\ Taken(o)
      /\ job[o] \in [pc : {"scan", "added", "nothing"}, terminal : BOOLEAN]
  BY <1>1 DEF Ao!NoJob, Ao!TypeOK, Ao!Jobs, AoInv, TakenInHand
<1>3. job' \in [Orders -> Ao!Jobs] /\ \A q \in Orders : q # o => job'[q] = job[q]
  <2>1. CASE Ao!Scan(o)
    <3>1. PICK found \in {"nothing", "added"} : job' = [job EXCEPT ![o].pc = found]
      BY <2>1 DEF Ao!Scan
    <3>2. [job[o] EXCEPT !.pc = found] \in Ao!Jobs
      BY <1>2 DEF Ao!Jobs
    <3> QED
      BY <1>1, <3>1, <3>2 DEF Ao!TypeOK
  <2>2. CASE Ao!SettleIngest(o)
    BY <1>1, <2>2 DEF Ao!SettleIngest, Ao!TypeOK, Ao!Jobs
  <2> QED
    BY <2>1, <2>2
<1>4. /\ status' \in [Orders -> {"none", "open", "running"} \cup Ao!Settled]
      /\ stale' \in [Orders -> BOOLEAN] /\ older' = older
      /\ status'[o] \in {status[o], "done"} /\ \A q \in Orders : q # o => status'[q] = status[q]
  <2>1. CASE Ao!Mark(o, "done")
    BY <1>1, <2>1, Marks
  <2>2. CASE UNCHANGED Ao!rowVars
    BY <1>1, <2>2 DEF Ao!rowVars, Ao!TypeOK
  <2> QED
    BY <2>1, <2>2 DEF Ao!Scan, Ao!SettleIngest
<1>5. Ao!TypeOK'
  BY <1>1, <1>3, <1>4 DEF Ao!TypeOK
<1>6. AoTyped'
  BY <1>1, <1>5 DEF AoTyped, BatchRead, ItemsNamed
<1>7. \A q \in Orders : (Taken(q)' <=> Taken(q)) /\ (job'[q] # Ao!NoJob => Taken(q))
  BY <1>2, <1>3, <1>4 DEF Taken, AoInv, TakenInHand
<1> QED
  BY <1>1, <1>4, <1>6, <1>7, NothingLearnt

\* A row grows stale, or a file lands.
LEMMA StaleKept ==
  ASSUME AoBounds, AoInv, NEW o \in Orders, Ao!GrowStale(o) \/ Ao!Land(o)
  PROVE  AoInv'
<1>1. /\ Ao!TypeOK /\ AoTyped /\ stale' \in [Orders -> BOOLEAN] /\ landed' \subseteq Orders
      /\ UNCHANGED <<status, handle, older, items, errors, phase, batch, sub, job, sent, crashes>>
  BY DEF AoInv, AoTyped, Ao!TypeOK, Ao!GrowStale, Ao!Land, Ao!rowVars, Ao!deemix, Ao!tickVars
<1>2. Ao!TypeOK'
  BY <1>1 DEF Ao!TypeOK
<1>3. AoTyped'
  BY <1>1, <1>2 DEF AoTyped, BatchRead, ItemsNamed
<1>4. \A q \in Orders : Taken(q)' <=> Taken(q)
  BY <1>1 DEF Taken
<1> QED
  BY <1>1, <1>3, <1>4, NothingLearnt DEF AoInv, TakenInHand

\* An item that has ended, or left the queue, is never downloaded again.
LEMMA ItemKept ==
  ASSUME AoBounds, AoInv, NEW o \in Orders, NEW k \in 1..MaxItems,
         Ao!Complete(o, k) \/ Ao!Evict(o, k)
  PROVE  AoInv'
<1>1. /\ Ao!TypeOK /\ AoTyped /\ k \in DOMAIN items[o] /\ landed' \subseteq Orders
      /\ UNCHANGED <<status, handle, stale, older, errors, phase, batch, sub, job, sent, crashes>>
  BY DEF AoInv, AoTyped, Ao!TypeOK, Ao!Complete, Ao!Evict, Ao!rowVars, Ao!tickVars
<1>2. PICK s \in {"success", "failed", "gone"} : Ao!Becomes(o, k, s)
  BY DEF Ao!Complete, Ao!Evict
<1>3. /\ items' \in [Orders -> Seq(States)]
      /\ \A q \in Orders : Len(items'[q]) = Len(items[q]) /\ DOMAIN items'[q] = DOMAIN items[q]
      /\ \A q \in Orders : \A n \in DOMAIN items[q] :
           items'[q][n] = items[q][n] \/ items'[q][n] = s
  BY <1>1, <1>2, Changes DEF States
<1>4. Ao!TypeOK'
  BY <1>1, <1>3 DEF Ao!TypeOK, States
<1>5. phase # "poll" => \A b \in batch : b.o \in Orders
  BY <1>1 DEF AoTyped, BatchRead, Ao!Rows, Ao!TypeOK
<1>6. \A p \in Ao!Procs : sub[p].pc = "queued" => sub[p].o \in Orders
  BY <1>1, SubParts
<1>7. AoTyped'
  BY <1>1, <1>3, <1>4, <1>5, <1>6 DEF AoTyped, BatchRead, ItemsNamed
<1>8. \A q \in Orders : items[q] = <<>> => items'[q] = <<>>
  <2> SUFFICES ASSUME NEW q \in Orders, items[q] = <<>> PROVE items'[q] = <<>>
    OBVIOUS
  <2>1. Len(items'[q]) = 0 /\ items'[q] \in Seq(States)
    BY <1>3
  <2> QED
    BY <2>1
<1>9. SentKnown'
  BY <1>1, <1>8 DEF AoInv, SentKnown, Taken, Answered
<1>10. TakenInHand'
  BY <1>1 DEF AoInv, TakenInHand, Taken
<1>11. \A q \in Orders : handle[q] = 0 \/ handle[q] \in DOMAIN items[q]
  <2> TAKE q \in Orders
  <2>1. /\ handle[q] \in 0..MaxItems /\ handle[q] <= Len(items[q]) /\ Len(items[q]) \in Nat
        /\ DOMAIN items[q] = 1..Len(items[q])
    BY <1>1 DEF AoTyped, ItemsNamed, Ao!TypeOK
  <2> QED
    BY <2>1 DEF AoBounds
<1>12. \A q \in Orders : handle[q] = 0 \/ items[q][handle[q]] # "downloading"
                           => handle[q] = 0 \/ items'[q][handle[q]] # "downloading"
  BY <1>3, <1>11
<1>13. SaidTrue'
  <2>1. \A b \in batch : b.o \in Orders
    BY <1>1 DEF Ao!TypeOK, Ao!Rows, Ao!Polls
  <2> QED
    BY <1>1, <1>12, <2>1 DEF AoInv, SaidTrue
<1>14. FailsKnown'
  BY <1>1, <1>12 DEF AoInv, FailsKnown, Ao!FailsKnown
<1> QED
  BY <1>7, <1>9, <1>10, <1>13, <1>14 DEF AoInv

\* A crash loses what was in hand.
LEMMA CrashKept == ASSUME AoBounds, AoInv, Ao!Crash PROVE AoInv'
<1>1. /\ Ao!TypeOK /\ AoTyped /\ crashes < MaxCrashes /\ crashes' = crashes + 1
      /\ phase' = "rest" /\ batch' = {}
      /\ sub' = [p \in Ao!Procs |-> Ao!Idle] /\ job' = [o \in Orders |-> Ao!NoJob]
      /\ UNCHANGED <<status, handle, stale, older, items, landed, errors, sent>>
  BY DEF AoInv, AoTyped, Ao!Crash, Ao!rowVars, Ao!deemix
<1>2. Ao!TypeOK'
  BY <1>1 DEF Ao!TypeOK, Ao!Subs, Ao!Jobs, AoBounds
<1>3. \A p \in Ao!Procs : sub'[p].pc = "idle"
  BY <1>1 DEF Ao!Idle
<1>4. AoTyped'
  BY <1>1, <1>2, <1>3 DEF AoTyped, BatchRead, ItemsNamed
<1>5. \A q \in Orders : (Taken(q)' <=> Taken(q)) /\ job'[q] = Ao!NoJob
  BY <1>1 DEF Taken
<1> QED
  BY <1>1, <1>3, <1>4, <1>5, NothingLearnt

\* A step of the artist orders.
LEMMA AoStep == ASSUME AoBounds, AoInv, [Ao!Next]_aoVars PROVE AoInv'
<1>1. CASE UNCHANGED aoVars
  BY <1>1 DEF aoVars, AoInv, AoTyped, Ao!TypeOK, BatchRead, ItemsNamed, SentKnown, TakenInHand,
              SaidTrue, Taken, Answered, FailsKnown, Ao!FailsKnown
<1>2. ASSUME NEW o \in Orders, Ao!Post(o) PROVE AoInv'
  <2>1. o \in Ao!Procs
    BY DEF Ao!Procs
  <2> QED
    BY <1>2, <2>1, CreateKept DEF Ao!Post, Ao!deemix, Ao!tickVars
<1>3. ASSUME NEW o \in Orders, Ao!LeadOrder(o) PROVE AoInv'
  <2>1. "tick" \in Ao!Procs
    BY DEF Ao!Procs
  <2> QED
    BY <1>3, <2>1, CreateKept DEF Ao!LeadOrder, Ao!deemix, Ao!tickVars
<1>4. CASE Ao!Tick
  BY <1>3, <1>4, ReadKept, SubmitKept, PollKept DEF Ao!Tick
<1>5. ASSUME NEW p \in Ao!Procs, Ao!Submission(p) PROVE AoInv'
  BY <1>5, SendKept, MarkKept, LoginKept DEF Ao!Submission
<1> QED
  BY <1>1, <1>2, <1>4, <1>5, CrashKept, StaleKept, IngestKept, ItemKept DEF Ao!Next

-----------------------------------------------------------------------------
(* Leads. *)

LeBounds ==
  /\ IsFiniteSet(Refs) /\ Prios \subseteq Nat
  /\ MaxTries \in Nat \ {0} /\ MaxRunning \in Nat \ {0} /\ StaleTicks \in Nat \ {0}
  /\ MaxPosts \in Nat /\ MaxDeaths \in Nat

\* A lead that is still to become an order.
Credit(i) ==
  IF \/ qstate[i] = "queued"
     \/ qstate[i] = "running" /\ ~(lead.pc \in {"submit", "finish", "fail"} /\ lead.i = i)
    THEN 1 ELSE 0
\* The item of the lead in hand is running: the tick, which alone recovers
\* items, is at the lead.
HeldRuns == lead # Le!NoLead => qstate[lead.i] = "running" /\ lePhase = "claim"
\* What is finished, or about to be, has been made an order.
MadeFirst ==
  /\ lead.pc \in {"submit", "finish"} => made[lead.i] > 0
  /\ \A i \in Refs : qstate[i] = "done" => made[i] > 0
\* Orders made, and the one still to be made, are asked for, or owed to a crash.
OrdersPaid == \A i \in Refs : made[i] + Credit(i) <= asked[i] + deaths

LeInv == Le!TypeOK /\ HeldRuns /\ MadeFirst /\ OrdersPaid

\* The size of a set is what it is.
LEMMA SameSize == \A S : Le!Cardinality(S) = Cardinality(S)
BY DEF Le!Cardinality, Cardinality

\* The first state.
LEMMA LeInit == ASSUME LeBounds PROVE Le!Init => LeInv
BY DEF Le!Init, Le!QueueInit, LeInv, Le!TypeOK, Le!QueueTypeOK, Le!QStates, Le!LeadSet,
       Le!NoLead, HeldRuns, MadeFirst, OrdersPaid, Credit, LeBounds

\* The lead in hand is of an item.
LEMMA LeadParts ==
  ASSUME Le!TypeOK, lead # Le!NoLead
  PROVE  /\ lead.i \in Refs
         /\ lead.pc \in {"url", "create", "submit", "finish", "retry", "requeue", "fail"}
         /\ lead = [pc |-> lead.pc, i |-> lead.i]
BY DEF Le!TypeOK, Le!LeadSet

\* Where a lead may go.
LEMMA GoToType ==
  ASSUME Le!TypeOK, lead # Le!NoLead,
         NEW pc \in {"url", "create", "submit", "finish", "retry", "requeue", "fail"},
         Le!GoTo(pc)
  PROVE  lead' = [pc |-> pc, i |-> lead.i] /\ lead' \in Le!LeadSet
<1>1. lead' = [pc |-> pc, i |-> lead.i]
  BY LeadParts DEF Le!GoTo
<1> QED
  BY <1>1, LeadParts DEF Le!LeadSet

\* A row of work_items is queued, once asked for and not before; a running
\* item is left at that.
LEMMA PostedRow ==
  ASSUME LeBounds, Le!TypeOK, NEW i \in Refs, NEW p \in Prios, Le!Enqueue(i, p),
         UNCHANGED Le!drainVars
  PROVE  /\ Le!QueueTypeOK'
         /\ qstate' = IF qstate[i] \in {"queued", "running"} THEN qstate
                      ELSE [qstate EXCEPT ![i] = "queued"]
<1>1. Le!QueueTypeOK
  BY DEF Le!TypeOK
<1>2. p \in Nat
  BY DEF LeBounds
<1>3. Le!Cardinality(Le!Known) \in Nat
  BY SameSize, FS_Subset, FS_CardinalityType DEF Le!Known, LeBounds
<1>4. CASE qstate[i] = "none" /\ Le!Insert(i, p)
  <2>1. qstate' = [qstate EXCEPT ![i] = "queued"] /\ qstate' \in [Refs -> Le!QStates]
    BY <1>1, <1>4 DEF Le!Insert, Le!QueueTypeOK, Le!QStates
  <2>2. prio' \in [Refs -> Nat] /\ born' \in [Refs -> Nat]
    BY <1>1, <1>2, <1>3, <1>4 DEF Le!Insert, Le!QueueTypeOK
  <2> QED
    BY <1>1, <1>4, <2>1, <2>2 DEF Le!Insert, Le!QueueTypeOK, Le!drainVars
<1>5. CASE qstate[i] # "none" /\ Le!Rearm(i, p)
  <2>1. prio' \in [Refs -> Nat] /\ age' \in [Refs -> 0..StaleTicks]
    BY <1>1, <1>2, <1>5 DEF Le!Rearm, Le!QueueTypeOK, LeBounds
  <2>2. CASE qstate[i] \in {"done", "failed"}
    <3>1. /\ qstate' = [qstate EXCEPT ![i] = "queued"]
          /\ tries' = [tries EXCEPT ![i] = 0] /\ held' = [held EXCEPT ![i] = FALSE]
          /\ born' = born
      BY <1>5, <2>2 DEF Le!Rearm
    <3> QED
      BY <1>1, <2>1, <2>2, <3>1 DEF Le!QueueTypeOK, Le!QStates, Le!drainVars
  <2>3. CASE qstate[i] \notin {"done", "failed"}
    <3>1. qstate' = qstate /\ tries' = tries /\ held' = held /\ born' = born
      BY <1>5, <2>3 DEF Le!Rearm
    <3>2. qstate[i] \in {"queued", "running"}
      BY <1>1, <1>5, <2>3 DEF Le!QueueTypeOK, Le!QStates
    <3> QED
      BY <1>1, <2>1, <3>1, <3>2 DEF Le!QueueTypeOK, Le!QStates, Le!drainVars
  <2> QED
    BY <2>2, <2>3
<1> QED
  BY <1>4, <1>5 DEF Le!Enqueue

\* A request.
LEMMA PostKept ==
  ASSUME LeBounds, LeInv, NEW i \in Refs, Le!PostLead(i)
  PROVE  LeInv'
<1>1. PICK p \in Prios : Le!Enqueue(i, p)
  BY DEF Le!PostLead
<1>2. /\ Le!TypeOK /\ UNCHANGED <<Le!drainVars, lead, made, deaths>>
      /\ posts < MaxPosts /\ posts' = posts + 1
      /\ asked' = IF qstate[i] \in {"queued", "running"} THEN asked
                  ELSE [asked EXCEPT ![i] = @ + 1]
  BY DEF LeInv, Le!PostLead
<1>3. /\ Le!QueueTypeOK'
      /\ qstate' = IF qstate[i] \in {"queued", "running"} THEN qstate
                   ELSE [qstate EXCEPT ![i] = "queued"]
  BY <1>1, <1>2, PostedRow
<1>4. Le!TypeOK'
  BY <1>2, <1>3 DEF Le!TypeOK, LeBounds
<1>5. HeldRuns' /\ MadeFirst'
  BY <1>2, <1>3, LeadParts DEF LeInv, HeldRuns, MadeFirst, Le!TypeOK, Le!QueueTypeOK, Le!drainVars
<1>6. OrdersPaid'
  BY <1>2, <1>3 DEF LeInv, OrdersPaid, Credit, Le!TypeOK, Le!QueueTypeOK
<1> QED
  BY <1>4, <1>5, <1>6 DEF LeInv

\* The drain: items without a lead are recovered, and have their credit still.
LEMMA DrainKept == ASSUME LeBounds, LeInv, Le!LeadDrain PROVE LeInv'
<1>1. /\ lead = Le!NoLead /\ UNCHANGED Le!leadVars /\ Le!TypeOK
      /\ Le!QueueTypeOK /\ lead.pc = "none"
  BY DEF LeInv, Le!LeadDrain, Le!TypeOK, Le!NoLead
<1>2. /\ Le!QueueTypeOK'
      /\ \A i \in Refs : \/ qstate'[i] = qstate[i]
                         \/ qstate[i] = "running" /\ qstate'[i] = "queued"
  <2>1. CASE Le!Wake({}, "count")
    <3>1. qstate' \in [Refs -> Le!QStates]
      BY <1>1, <2>1 DEF Le!Wake, Le!QueueTypeOK, Le!QStates
    <3>3. held' \in [Refs -> BOOLEAN]
      BY <1>1, <2>1 DEF Le!Wake, Le!QueueTypeOK
    <3>4. age' \in [Refs -> 0..StaleTicks]
      BY <1>1, <2>1 DEF Le!Wake, Le!QueueTypeOK, LeBounds
    <3>2. \A i \in Le!Stale({}) : qstate[i] = "running"
      BY DEF Le!Stale, Le!Ages, Le!Running
    <3> QED
      BY <1>1, <2>1, <3>1, <3>2, <3>3, <3>4 DEF Le!Wake, Le!QueueTypeOK
  <2>2. CASE Le!CountSlots
    <3>1. Le!Cardinality(Le!Running) \in Nat
      BY SameSize, FS_Subset, FS_CardinalityType DEF Le!Running, LeBounds
    <3>2. Le!FreeSlots \in 0..MaxRunning
      BY <3>1 DEF Le!FreeSlots, LeBounds
    <3> QED
      BY <1>1, <2>2, <3>2 DEF Le!CountSlots, Le!QueueTypeOK, Le!queueVars
  <2>3. CASE Le!NextItems
    BY <1>1, <2>3 DEF Le!NextItems, Le!Due, Le!QueueTypeOK, Le!queueVars, LeBounds
  <2>4. CASE Le!DrainDone
    BY <1>1, <2>4 DEF Le!DrainDone, Le!QueueTypeOK, Le!queueVars
  <2>5. ASSUME NEW i \in Refs, Le!SkipClaimed(i)
        PROVE  Le!QueueTypeOK' /\ qstate' = qstate
    BY <1>1, <2>5 DEF Le!SkipClaimed, Le!QueueTypeOK, Le!queueVars
  <2> QED
    BY <2>1, <2>2, <2>3, <2>4, <2>5 DEF Le!LeadDrain
<1>3. Le!TypeOK' /\ HeldRuns' /\ MadeFirst'
  BY <1>1, <1>2 DEF LeInv, Le!TypeOK, HeldRuns, MadeFirst, Le!leadVars
<1>4. \A i \in Refs : Credit(i)' = Credit(i)
  BY <1>1, <1>2 DEF Credit, Le!leadVars
<1>5. OrdersPaid'
  BY <1>1, <1>4 DEF LeInv, OrdersPaid, Le!leadVars
<1> QED
  BY <1>3, <1>5 DEF LeInv

\* A claim puts the lead in the hands of the tick.
LEMMA ClaimKept ==
  ASSUME LeBounds, LeInv, NEW i \in Refs, Le!ClaimLead(i)
  PROVE  LeInv'
<1>1. /\ lead = Le!NoLead /\ lead' = [pc |-> "url", i |-> i] /\ Le!TypeOK
      /\ UNCHANGED <<made, asked, posts, deaths>>
      /\ lePhase = "claim" /\ lePhase' = "claim" /\ slots' = slots
      /\ leBatch' = leBatch \ {i} /\ Le!ClaimRow(i)
  BY DEF LeInv, Le!ClaimLead, Le!Claim
<1>2. /\ qstate[i] = "queued" /\ qstate' = [qstate EXCEPT ![i] = "running"]
      /\ Le!QueueTypeOK'
  BY <1>1 DEF Le!ClaimRow, Le!TypeOK, Le!QueueTypeOK, Le!QStates, LeBounds
<1>3. Le!TypeOK'
  BY <1>1, <1>2 DEF Le!TypeOK, Le!LeadSet
<1>4. HeldRuns' /\ MadeFirst'
  BY <1>1, <1>2 DEF LeInv, HeldRuns, MadeFirst, Le!TypeOK, Le!QueueTypeOK
<1>5. \A k \in Refs : Credit(k)' = Credit(k)
  BY <1>1, <1>2 DEF Credit, Le!TypeOK, Le!QueueTypeOK, Le!NoLead
<1> QED
  BY <1>1, <1>3, <1>4, <1>5 DEF LeInv, OrdersPaid

\* The lead goes from step to step, and takes its credit to the order.
LEMMA LeadKept ==
  ASSUME LeBounds, LeInv,
         Le!NormalizeUrl \/ Le!CreateOrder \/ Le!SubmitOrder \/ Le!ReadLeadTries
  PROVE  LeInv'
<1>1. /\ Le!TypeOK /\ lead # Le!NoLead
      /\ UNCHANGED <<Le!queueVars, Le!drainVars, asked, posts, deaths>>
  BY DEF LeInv, Le!NormalizeUrl, Le!CreateOrder, Le!SubmitOrder, Le!ReadLeadTries, Le!At,
         Le!NoLead
<1>2. lead.i \in Refs /\ qstate[lead.i] = "running" /\ lePhase = "claim"
  BY <1>1, LeadParts DEF LeInv, HeldRuns
<1>3. Le!QueueTypeOK' /\ qstate' = qstate /\ lePhase' = lePhase
  BY <1>1 DEF Le!TypeOK, Le!QueueTypeOK, Le!queueVars, Le!drainVars
<1>4. ASSUME NEW pc \in {"url", "create", "submit", "finish", "retry", "requeue", "fail"},
             Le!GoTo(pc), made' \in [Refs -> Nat],
             \A i \in Refs : made[i] <= made'[i],
             pc \in {"submit", "finish"} => made'[lead.i] > 0,
             \A i \in Refs : made'[i] + Credit(i)' <= made[i] + Credit(i)
      PROVE  LeInv'
  <2>1. lead' = [pc |-> pc, i |-> lead.i] /\ lead' \in Le!LeadSet
    BY <1>1, <1>4, GoToType
  <2>2. Le!TypeOK'
    BY <1>1, <1>3, <1>4, <2>1 DEF Le!TypeOK
  <2>3. HeldRuns' /\ MadeFirst'
    BY <1>1, <1>2, <1>3, <1>4, <2>1 DEF LeInv, HeldRuns, MadeFirst, Le!TypeOK
  <2>4. OrdersPaid'
    <3> SUFFICES ASSUME NEW i \in Refs PROVE made'[i] + Credit(i)' <= asked'[i] + deaths'
      BY DEF OrdersPaid
    <3>1. Credit(i) \in Nat /\ Credit(i)' \in Nat /\ asked[i] + deaths \in Nat
      BY <1>1 DEF Credit, Le!TypeOK
    <3>2. made[i] + Credit(i) <= asked[i] + deaths
      BY DEF LeInv, OrdersPaid
    <3> QED
      BY <1>1, <1>4, <3>1, <3>2 DEF Le!TypeOK
  <2> QED
    BY <2>2, <2>3, <2>4 DEF LeInv
<1>5. CASE Le!NormalizeUrl
  <2>1. PICK pc \in {"create", "fail"} : Le!GoTo(pc)
    BY <1>5 DEF Le!NormalizeUrl
  <2>2. lead' = [pc |-> pc, i |-> lead.i] /\ lead.pc = "url" /\ made' = made
    BY <1>1, <1>5, <2>1, GoToType DEF Le!NormalizeUrl, Le!At
  <2>3. \A i \in Refs : made'[i] + Credit(i)' <= made[i] + Credit(i)
    BY <1>1, <1>3, <2>1, <2>2 DEF Credit, Le!TypeOK
  <2> QED
    BY <1>1, <1>4, <2>1, <2>2, <2>3 DEF Le!TypeOK
<1>6. CASE Le!CreateOrder
  <2>1. CASE Le!GoTo("submit") /\ made' = [made EXCEPT ![lead.i] = @ + 1]
    <3>1. lead' = [pc |-> "submit", i |-> lead.i] /\ lead.pc = "create"
      BY <1>1, <1>6, <2>1, GoToType DEF Le!CreateOrder, Le!At
    <3>2. \A i \in Refs : made'[i] + Credit(i)' <= made[i] + Credit(i)
      BY <1>1, <1>2, <1>3, <2>1, <3>1 DEF Credit, Le!TypeOK
    <3> QED
      BY <1>1, <1>2, <1>4, <2>1, <3>2 DEF Le!TypeOK
  <2>2. CASE Le!GoTo("retry") /\ UNCHANGED made
    <3>1. lead' = [pc |-> "retry", i |-> lead.i] /\ lead.pc = "create"
      BY <1>1, <1>6, <2>2, GoToType DEF Le!CreateOrder, Le!At
    <3>2. \A i \in Refs : made'[i] + Credit(i)' <= made[i] + Credit(i)
      BY <1>1, <1>3, <2>2, <3>1 DEF Credit, Le!TypeOK
    <3> QED
      BY <1>1, <1>4, <2>2, <3>2 DEF Le!TypeOK
  <2> QED
    BY <1>6, <2>1, <2>2 DEF Le!CreateOrder
<1>7. CASE Le!SubmitOrder
  <2>1. lead' = [pc |-> "finish", i |-> lead.i] /\ lead.pc = "submit" /\ made' = made
    BY <1>1, <1>7, GoToType DEF Le!SubmitOrder, Le!At
  <2>2. \A i \in Refs : made'[i] + Credit(i)' <= made[i] + Credit(i)
    BY <1>1, <1>3, <2>1 DEF Credit, Le!TypeOK
  <2> QED
    BY <1>1, <1>4, <1>7, <2>1, <2>2 DEF Le!TypeOK, Le!SubmitOrder, LeInv, MadeFirst
<1>8. CASE Le!ReadLeadTries
  <2>1. PICK pc \in {"requeue", "fail"} : Le!GoTo(pc)
    BY <1>8 DEF Le!ReadLeadTries
  <2>2. lead' = [pc |-> pc, i |-> lead.i] /\ lead.pc = "retry" /\ made' = made
    BY <1>1, <1>8, <2>1, GoToType DEF Le!ReadLeadTries, Le!At
  <2>3. \A i \in Refs : made'[i] + Credit(i)' <= made[i] + Credit(i)
    BY <1>1, <1>3, <2>1, <2>2 DEF Credit, Le!TypeOK
  <2> QED
    BY <1>1, <1>4, <2>1, <2>2, <2>3 DEF Le!TypeOK
<1> QED
  BY <1>5, <1>6, <1>7, <1>8

\* The lead is settled.
LEMMA SettleKept == ASSUME LeBounds, LeInv, Le!SettleLead PROVE LeInv'
<1>1. /\ Le!TypeOK /\ lead # Le!NoLead /\ lead' = Le!NoLead
      /\ UNCHANGED <<Le!drainVars, made, asked, posts, deaths>>
      /\ lead.pc \in {"finish", "requeue", "fail"}
  BY DEF LeInv, Le!SettleLead, Le!At, Le!NoLead
<1>2. lead.i \in Refs
  BY <1>1, LeadParts
<1>3. PICK s \in {"done", "queued", "failed"}, h \in BOOLEAN :
        /\ Le!Settle(lead.i, s, h)
        /\ s = "done" <=> lead.pc = "finish"
        /\ s = "queued" <=> lead.pc = "requeue"
  BY <1>1, <1>2 DEF Le!SettleLead, Le!At, Le!Finish, Le!Fail, Le!Requeue, Le!TypeOK,
                    Le!QueueTypeOK
<1>4. qstate' = [qstate EXCEPT ![lead.i] = s] /\ Le!QueueTypeOK'
  BY <1>1, <1>2, <1>3 DEF Le!Settle, Le!TypeOK, Le!QueueTypeOK, Le!QStates, Le!drainVars,
                          LeBounds
<1>5. Le!TypeOK'
  BY <1>1, <1>4 DEF Le!TypeOK, Le!LeadSet
<1>6. HeldRuns' /\ MadeFirst'
  BY <1>1, <1>2, <1>3, <1>4 DEF LeInv, HeldRuns, MadeFirst, Le!TypeOK, Le!QueueTypeOK,
                                Le!NoLead
<1>7. qstate[lead.i] = "running"
  BY <1>1 DEF LeInv, HeldRuns
<1>8. \A i \in Refs : Credit(i)' <= Credit(i) /\ Credit(i)' \in Nat /\ Credit(i) \in Nat
  BY <1>1, <1>2, <1>3, <1>4, <1>7 DEF Credit, Le!TypeOK, Le!QueueTypeOK, Le!NoLead
<1>9. OrdersPaid'
  BY <1>1, <1>8 DEF LeInv, OrdersPaid, Le!TypeOK
<1> QED
  BY <1>5, <1>6, <1>9 DEF LeInv

\* A crash owes the order that the lead in hand may be made again.
LEMMA DieKept == ASSUME LeBounds, LeInv, Le!Die PROVE LeInv'
<1>1. /\ Le!TypeOK /\ deaths < MaxDeaths /\ deaths' = deaths + 1
      /\ lePhase' = "rest" /\ slots' = 0 /\ leBatch' = {} /\ lead' = Le!NoLead
      /\ UNCHANGED <<Le!queueVars, made, asked, posts>>
  BY DEF LeInv, Le!Die
<1>2. Le!TypeOK'
  BY <1>1 DEF Le!TypeOK, Le!QueueTypeOK, Le!queueVars, Le!LeadSet, LeBounds
<1>3. HeldRuns' /\ MadeFirst'
  BY <1>1 DEF LeInv, HeldRuns, MadeFirst, Le!queueVars, Le!NoLead
<1>4. \A i \in Refs : Credit(i)' <= Credit(i) + 1 /\ Credit(i)' \in Nat /\ Credit(i) \in Nat
  BY <1>1 DEF Credit
<1>5. OrdersPaid'
  BY <1>1, <1>4 DEF LeInv, OrdersPaid, Le!TypeOK
<1> QED
  BY <1>2, <1>3, <1>5 DEF LeInv

\* A step of the leads.
LEMMA LeStep == ASSUME LeBounds, LeInv, [Le!Next]_leVars PROVE LeInv'
<1>1. ASSUME NEW i \in Refs, Le!LeadDue(i) PROVE LeInv'
  <2>1. /\ UNCHANGED <<qstate, tries, age, prio, born, lePhase, slots, leBatch>>
        /\ UNCHANGED <<lead, made, asked, posts, deaths>> /\ held' \in [Refs -> BOOLEAN]
    BY <1>1 DEF Le!LeadDue, Le!HoldElapses, Le!drainVars, Le!leadVars, LeInv, Le!TypeOK,
                Le!QueueTypeOK
  <2> QED
    BY <2>1 DEF LeInv, Le!TypeOK, Le!QueueTypeOK, HeldRuns, MadeFirst, OrdersPaid, Credit
<1>2. CASE UNCHANGED leVars
  BY <1>2 DEF leVars, LeInv, Le!TypeOK, Le!QueueTypeOK, HeldRuns, MadeFirst, OrdersPaid, Credit
<1> QED
  BY <1>1, <1>2, PostKept, DrainKept, ClaimKept, LeadKept, SettleKept, DieKept
     DEF Le!Next, Le!LeadTick

-----------------------------------------------------------------------------
(* The parts, as MCCrawl puts them beside each other. *)

\* A step of the composition is one of each part, or leaves it alone.
LEMMA PartSteps ==
  ASSUME [MCNext]_<<part, vars, aoVars, leVars>>
  PROVE  [Next]_vars /\ [Ao!Next]_aoVars /\ [Le!Next]_leVars
<1>1. [Next]_vars
  BY DEF MCNext
<1>2. [Ao!Next]_aoVars
  BY DEF MCNext
<1>3. [Le!Next]_leVars
  BY DEF MCNext
<1> QED
  BY <1>1, <1>2, <1>3

LEMMA AoInvariant == ASSUME AoBounds PROVE MCFairSpec => []AoInv
<1>1. MCInit => AoInv
  BY AoInit DEF MCInit
<1>2. AoInv /\ [MCNext]_<<part, vars, aoVars, leVars>> => AoInv'
  BY PartSteps, AoStep
<1> QED
  BY <1>1, <1>2, PTL DEF MCFairSpec

LEMMA LeInvariant == ASSUME LeBounds PROVE MCFairSpec => []LeInv
<1>1. MCInit => LeInv
  BY LeInit DEF MCInit
<1>2. LeInv /\ [MCNext]_<<part, vars, aoVars, leVars>> => LeInv'
  BY PartSteps, LeStep
<1> QED
  BY <1>1, <1>2, PTL DEF MCFairSpec

\* An order that was sent once is not failed while deemix downloads it, nor is
\* one failed that was never sent, through every overlap of the handler's and
\* the tick's submission, lost answers, evictions and crashes.
THEOREM FailsKnownHolds == ASSUME AoBounds PROVE MCFairSpec => []FailsKnown
<1>1. AoInv => FailsKnown
  BY DEF AoInv
<1> QED
  BY <1>1, AoInvariant, PTL

\* A lead that is done has become an order, and makes no more of them than it
\* was asked for and crashes (worker.rs:874), for every number of leads, slots
\* and tries.
THEOREM LeadOrdersHolds == ASSUME LeBounds PROVE MCFairSpec => []LeadOrders
<1>1. LeInv => LeadOrders
  <2> SUFFICES ASSUME LeInv, NEW i \in Refs
               PROVE  /\ qstate[i] = "done" => made[i] > 0
                      /\ made[i] <= asked[i] + deaths
    BY DEF LeadOrders, Le!LeadOrders
  <2>1. made[i] \in Nat /\ asked[i] \in Nat /\ deaths \in Nat /\ Credit(i) \in Nat
    BY DEF LeInv, Le!TypeOK, Credit
  <2>2. made[i] + Credit(i) <= asked[i] + deaths
    BY DEF LeInv, OrdersPaid
  <2> QED
    BY <2>1, <2>2 DEF LeInv, MadeFirst
<1> QED
  BY <1>1, LeInvariant, PTL

\* Every variable of every part keeps its type.
THEOREM PartTypesHold ==
  ASSUME Catalogue, AoBounds, LeBounds PROVE MCFairSpec => []PartTypes
<1>1. MCInit => TypeOK
  BY TypeInit DEF MCInit
<1>2. TypeOK /\ [MCNext]_<<part, vars, aoVars, leVars>> => TypeOK'
  BY PartSteps, TypeStep
<1>3. AoInv /\ LeInv /\ TypeOK => PartTypes
  BY DEF AoInv, AoTyped, LeInv, PartTypes
<1> QED
  BY <1>1, <1>2, <1>3, AoInvariant, LeInvariant, PTL DEF MCFairSpec
=============================================================================
