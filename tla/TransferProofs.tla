---------------------------- MODULE TransferProofs ----------------------------
(***************************************************************************)
(* Proofs about files that are copied while others write them.             *)
(*                                                                         *)
(* HomeTransfer, for any number of files, of transfers of the four kinds   *)
(* and of contents that clients put: archives show the files that a home   *)
(* had at one time, and what a transfer reports as done stays.  Both rest  *)
(* on what a reading that others write beside is worth.  Put by put, files *)
(* get newer; a first reading is therefore nowhere newer than the files at *)
(* its end, and a second one nowhere older than those at its beginning,    *)
(* which lie between the two.  A file that a merge takes back breaks this  *)
(* for the target, and only for that.                                      *)
(*                                                                         *)
(* WorkDocuments, for any documents, places, contents and tools: what the  *)
(* manifest lists is there.  A tool writes only where nothing was, so that *)
(* what is listed or known as evidence is disturbed neither by its copies  *)
(* nor by taking them back.                                                *)
(***************************************************************************)
EXTENDS HomeTransfer, WorkDocuments, FiniteSetTheorems, WellFoundedInduction, SequenceTheorems, TLAPS

(* The last file, and the homes whose contents were put by then            *)
Last == Cardinality(Names)

Numbers(c) == [Names -> 0 .. c]

(* What a process is made of                                               *)
Fields == {"kind", "at", "read", "found", "add", "archive", "line", "applied", "unmarked",
           "directory", "marker", "made"}

Shaped(x, c) ==
    /\ DOMAIN x = Fields
    /\ x.read \in Seq(0 .. c) /\ Len(x.read) <= Last
    /\ x.found \in [Homes -> Numbers(c)]
    /\ x.add \in Numbers(c)
    /\ x.archive \in [Homes -> Numbers(c) \cup {NoArchive}]
    /\ x.made \in SUBSET Names

(* The types                                                               *)
TransferTypes ==
    /\ content \in Nat /\ content > 0
    /\ source \in Numbers(content)
    /\ DOMAIN target = {"there", "marker", "files"}
    /\ target.marker \in BOOLEAN
    /\ target.files \in Numbers(content)
    /\ DOMAIN past = Homes
    /\ past["source"] \subseteq Numbers(content) /\ past["target"] \subseteq Numbers(content)
    /\ source \in past["source"]
    /\ target.files \in past["target"]
    /\ DOMAIN transfer = Transfers
    /\ \A t \in Transfers : Shaped(transfer[t], content)

(* Where the transfers of each kind come by                                *)
Ends == {"undo", "take line", "done", "failed", "dead"}
LinePlaces == {"compare line", "write line", "ask git", "verify"}
InitPlaces == {"check plan", "make", "mark"}
RestorePlaces == {"look empty", "clear", "replace"}
PlanPlaces == {"collect source", "collect target", "read again", "check source", "check target",
               "source again", "target again"}
PutPlaces == {"look", "put", "confirm"}

FitsAt(kind, at) ==
    \/ kind = "none" /\ at = "idle"
    \/ kind = "initialize" /\ at \in InitPlaces \cup LinePlaces \cup Ends
    \/ kind = "restore" /\ at \in RestorePlaces \cup LinePlaces \cup Ends
    \/ /\ kind = "migrate"
       /\ at \in {"collect source", "check source", "take archive"}
                   \cup RestorePlaces \cup LinePlaces \cup Ends
    \/ kind = "merge" /\ at \in PlanPlaces \cup PutPlaces \cup Ends

(* What a process adds, and what it has done of that                       *)
Adds(x) == {p \in Names : x.add[p] # 0}

Orderly(x) ==
    /\ FitsAt(x.kind, x.at)
    /\ x.at = "idle" => x.read = <<>>
    /\ x.kind # "merge" => x.made = {}
    /\ x.kind = "initialize" => Adds(x) = {}
    /\ x.made \subseteq Adds(x)
    /\ x.at \in PlanPlaces => x.made = {}
    /\ x.at = "put" => Adds(x) \ x.made # {}
    /\ x.at = "confirm" => Adds(x) \subseteq x.made
    /\ x.at = "take archive" => x.archive["source"] # NoArchive

(* Contents only get newer: a reading is behind the files that are read    *)
(* later and ahead of those that were read before.                         *)
Behind(f, g) == \A p \in Names : f[p] <= g[p]
ReadBehind(read, g) == \A i \in 1 .. Len(read) : read[i] <= g[i]
ReadAhead(g, read) == \A i \in 1 .. Len(read) : g[i] <= read[i]

(* What was read of the source, whose files are s now and were each of     *)
(* "seen": between the first reading and the second there is a time at     *)
(* which the files were between both, so that they were what was read if   *)
(* the readings are the same.                                              *)
SourceIsSeen(x, s, seen) ==
    /\ x.at \in {"collect source", "read again"} => ReadBehind(x.read, s)
    /\ x.at \in {"collect source", "collect target", "read again"} =>
         x.archive["source"] = NoArchive
    /\ x.at \in {"collect target", "read again", "check source"} =>
         \E f \in seen :
           /\ Behind(x.found["source"], f) /\ Behind(f, s)
           /\ x.at # "collect target" => ReadAhead(f, x.read)
           /\ x.at = "check source" /\ x.kind = "merge" =>
                \A p \in Adds(x) : f[p] <= x.add[p]
    /\ x.at = "check source" /\ x.kind = "merge" =>
         Behind(x.add, s) /\ ReadAhead(x.add, x.read)
    /\ x.archive["source"] \in seen \cup {NoArchive}
    /\ x.kind = "merge" /\ x.archive["source"] # NoArchive =>
         \A p \in Adds(x) : x.add[p] = x.archive["source"][p]

(* The same of the target, whose files are not taken away from             *)
TargetIsSeen(x, files, seen) ==
    /\ x.at = "collect target" => ReadBehind(x.read, files)
    /\ x.at \in {"read again", "check source", "check target"} /\ x.kind = "merge" =>
         \E f \in seen :
           /\ Behind(x.found["target"], f) /\ Behind(f, files)
           /\ x.at = "check target" => ReadAhead(f, x.read)
    /\ x.archive["target"] \in seen \cup {NoArchive}

(* A restore or a migration that has put its archive in place              *)
Carries(x) == x.kind \in {"restore", "migrate"} /\ x.at \in {"verify", "done"}

(* Where a process may have made a marker                                  *)
Late == Ends \cup {"verify"}

(* The marker that a process made is the one that is there, and nobody     *)
(* else takes it away; while none was taken back, all that relies on one   *)
(* finds it.                                                               *)
MarkersStay ==
    /\ \A t \in Transfers :
         /\ transfer[t].at \notin Late => transfer[t].marker = "not made"
         /\ Carries(transfer[t]) => transfer[t].marker = "made"
         /\ transfer[t].marker = "made" => target.marker
    /\ \A t, u \in Transfers :
         transfer[t].marker = "made" /\ transfer[u].marker = "made" => t = u
    /\ ~TookBack => \A t \in Transfers :
         transfer[t].kind = "merge" \/ transfer[t].at = "done" => target.marker

(* What a restore or a migration has put in place stays: merges add other  *)
(* files, and take back those only.  A merge that was planned for a home   *)
(* whose marker was taken back may be late.                                *)
CarriedStays ==
    \A t \in Transfers :
         /\ Carries(transfer[t]) /\ (OtherMerges(t) = {} \/ ~TookBack) =>
              Behind(transfer[t].add, target.files)
         /\ Carries(transfer[t]) /\ ~TookBack => \A m \in Transfers : transfer[m].kind = "merge" =>
              Adds(transfer[t]) \cap Adds(transfer[m]) = {}
         /\ transfer[t].kind = "merge" /\ transfer[t].at = "done" /\ OtherMerges(t) = {} =>
              Behind(transfer[t].add, target.files)

(* The inductive invariant                                                 *)
TransferInv ==
    /\ TransferTypes
    /\ \A t \in Transfers : Orderly(transfer[t])
    /\ \A t \in Transfers : SourceIsSeen(transfer[t], source, past["source"])
    /\ \A t \in Transfers : OtherMerges(t) = {} =>
          TargetIsSeen(transfer[t], target.files, past["target"])
    /\ MarkersStay
    /\ CarriedStays

-----------------------------------------------------------------------------
LEMMA LastIs == Last \in Nat /\ Last > 0 /\ Names = 1 .. Last
  <1>1. Last \in Nat
    BY TransferAssumption, FS_CardinalityType DEF Last
  <1>2. QED
    BY <1>1, TransferAssumption DEF Last

LEMMA NumbersAreSequences ==
    ASSUME NEW c \in Nat
    PROVE  /\ \A f \in Numbers(c) : f \in Seq(0 .. c) /\ Len(f) = Last
           /\ \A r \in Seq(0 .. c) : Len(r) = Last => r \in Numbers(c)
           /\ None \in Numbers(c) /\ Len(None) = Last
  <1>1. ASSUME NEW f \in Numbers(c) PROVE f \in Seq(0 .. c) /\ Len(f) = Last
    <2>1. f \in [1 .. Last -> 0 .. c]
      BY LastIs DEF Numbers
    <2>2. f \in Seq(0 .. c)
      BY <2>1, LastIs, SeqDef
    <2>3. Len(f) = Last
      BY <2>1, <2>2, LastIs, LenProperties
    <2>4. QED
      BY <2>2, <2>3
  <1>2. ASSUME NEW r \in Seq(0 .. c), Len(r) = Last PROVE r \in Numbers(c)
    BY <1>2, LastIs, LenProperties DEF Numbers
  <1>3. None \in Numbers(c)
    BY DEF None, Numbers
  <1>4. QED
    BY <1>1, <1>2, <1>3

LEMMA NumbersGrow ==
    ASSUME NEW c \in Nat, NEW d \in Nat, c <= d
    PROVE  /\ Numbers(c) \subseteq Numbers(d)
           /\ Seq(0 .. c) \subseteq Seq(0 .. d)
           /\ \A x : Shaped(x, c) => Shaped(x, d)
  <1>1. 0 .. c \subseteq 0 .. d
    OBVIOUS
  <1>2. Numbers(c) \subseteq Numbers(d)
    BY <1>1 DEF Numbers
  <1>3. Seq(0 .. c) \subseteq Seq(0 .. d)
    BY <1>1, SeqMonotonic
  <1>4. ASSUME NEW x, Shaped(x, c) PROVE Shaped(x, d)
    <2>1. x.found \in [Homes -> Numbers(d)] /\ x.archive \in [Homes -> Numbers(d) \cup {NoArchive}]
      BY <1>2, <1>4 DEF Shaped
    <2>2. QED
      BY <1>2, <1>3, <1>4, <2>1 DEF Shaped
  <1>5. QED
    BY <1>2, <1>3, <1>4

LEMMA Smallest ==
    ASSUME NEW S, S \subseteq Nat, S # {}
    PROVE  \E p \in S : \A q \in S : p <= q
  <1> DEFINE R == {ss \in Nat \X Nat : ss[1] < ss[2]}
  <1>1. IsWellFoundedOn(R, Nat)
    BY NatLessThanWellFounded, Zenon DEF OpToRel
  <1> HIDE DEF R
  <1>2. PICK p \in S : \A q \in S : <<q, p>> \notin R
    BY <1>1, WFMin
  <1>3. ASSUME NEW q \in S PROVE p <= q
    <2>1. <<q, p>> \in Nat \X Nat /\ <<q, p>>[1] = q /\ <<q, p>>[2] = p
      OBVIOUS
    <2>2. ~ (q < p)
      BY <1>2, <1>3, <2>1 DEF R
    <2>3. QED
      BY <2>2
  <1>4. QED
    BY <1>3

LEMMA Largest ==
    ASSUME NEW n \in Nat, NEW S, S \subseteq 1 .. n, S # {}
    PROVE  \E p \in S : \A q \in S : p >= q
  <1> DEFINE T == {n - q : q \in S}
  <1>1. T \subseteq Nat /\ T # {}
    OBVIOUS
  <1>2. PICK m \in T : \A k \in T : m <= k
    BY <1>1, Smallest
  <1>3. PICK p \in S : m = n - p
    BY <1>2
  <1>4. ASSUME NEW q \in S PROVE p >= q
    <2>1. n - q \in T
      OBVIOUS
    <2>2. n - p <= n - q
      BY <1>2, <1>3, <2>1
    <2>3. QED
      BY <2>2
  <1>5. QED
    BY <1>4

-----------------------------------------------------------------------------
(* What the steps do to a process: the fields that the invariant is about. *)
OthersWait(t) ==
    /\ DOMAIN transfer' = Transfers
    /\ \A u \in Transfers \ {t} : transfer'[u] = transfer[u]

Keeps(x, y) ==
    /\ DOMAIN y = Fields
    /\ y.kind = x.kind /\ y.found = x.found /\ y.add = x.add /\ y.archive = x.archive

Ended(x, y, at) ==
    /\ DOMAIN y = Fields
    /\ y.kind = x.kind /\ y.at = at /\ y.read = <<>> /\ y.found = [h \in Homes |-> None]
    /\ y.add = (IF at = "done" THEN x.add ELSE None)
    /\ y.archive = x.archive /\ y.made = {}

LEMMA BecomeIs ==
    ASSUME TransferTypes, NEW t \in Transfers, NEW y, Become(t, y)
    PROVE  OthersWait(t) /\ transfer'[t] = y
  BY DEF TransferTypes, Become, OthersWait

LEMMA AtRestIs ==
    /\ DOMAIN AtRest = Fields
    /\ AtRest.kind = "none" /\ AtRest.at = "idle" /\ AtRest.read = <<>>
    /\ AtRest.found = [h \in Homes |-> None]
    /\ AtRest.add = None /\ AtRest.archive = [h \in Homes |-> NoArchive] /\ AtRest.made = {}
  BY DEF AtRest, Fields

LEMMA GoesOnIs ==
    ASSUME TransferTypes, NEW t \in Transfers, NEW at, GoesOn(t, at)
    PROVE  /\ OthersWait(t)
           /\ Keeps(transfer[t], transfer'[t])
           /\ transfer'[t].made = transfer[t].made
           /\ transfer'[t].at = at /\ transfer'[t].read = <<>>
  <1> DEFINE x == transfer[t]
             y == [x EXCEPT !.at = at, !.read = <<>>]
  <1>1. DOMAIN x = Fields
    BY DEF TransferTypes, Shaped
  <1>2. Keeps(x, y) /\ y.made = x.made /\ y.at = at /\ y.read = <<>>
    BY <1>1 DEF Keeps, Fields
  <1>3. QED
    BY <1>2, BecomeIs DEF GoesOn

LEMMA EndIs ==
    ASSUME TransferTypes, NEW t \in Transfers, NEW at, End(t, at)
    PROVE  OthersWait(t) /\ Ended(transfer[t], transfer'[t], at)
  <1> DEFINE x == transfer[t]
             y == [AtRest EXCEPT !.kind = x.kind, !.at = at, !.archive = x.archive,
                                 !.marker = x.marker,
                                 !.add = IF at = "done" THEN x.add ELSE None]
  <1>1. Ended(x, y, at)
    BY AtRestIs DEF Ended, Fields
  <1>2. QED
    BY <1>1, BecomeIs DEF End

(* Nothing has been read or made.                                          *)
Fresh(y) ==
    /\ DOMAIN y = Fields
    /\ y.read = <<>> /\ y.made = {}
    /\ y.found = [h \in Homes |-> None]
    /\ y.archive = [h \in Homes |-> NoArchive]

LEMMA PlannedIs ==
    ASSUME NEW kind, NEW at, NEW y, y = Planned(kind, at)
    PROVE  Fresh(y) /\ y.kind = kind /\ y.at = at /\ y.add = None
  BY AtRestIs DEF Planned, Fields, Fresh

LEMMA NothingRead == \A g : ReadBehind(<<>>, g) /\ ReadAhead(g, <<>>)
  <1>1. Len(<<>>) = 0
    OBVIOUS
  <1>2. 1 .. 0 = {}
    OBVIOUS
  <1>3. QED
    BY <1>1, <1>2 DEF ReadBehind, ReadAhead

-----------------------------------------------------------------------------
(* How the parts of the invariant about one process follow it.             *)

LEMMA EmptyIsShaped ==
    ASSUME NEW c \in Nat
    PROVE  <<>> \in Seq(0 .. c) /\ Len(<<>>) = 0 /\ Len(<<>>) <= Last
  BY LastIs

LEMMA KeepsShape ==
    ASSUME NEW c \in Nat, NEW x, NEW y, Shaped(x, c), Keeps(x, y), y.read = <<>>,
           y.made \subseteq Names
    PROVE  Shaped(y, c)
  BY EmptyIsShaped DEF Shaped, Keeps

LEMMA EndedIsShaped ==
    ASSUME NEW c \in Nat, NEW x, NEW y, NEW at, Shaped(x, c), Ended(x, y, at)
    PROVE  Shaped(y, c)
  BY EmptyIsShaped, NumbersAreSequences DEF Shaped, Ended

(* Where a process goes on with what it has read of a home                 *)
Witnessed == {"collect source", "collect target", "read again", "check source", "check target",
              "take archive"}

LEMMA NothingAdded == Adds(AtRest) = {} /\ \A x : x.add = None => Adds(x) = {}
  BY AtRestIs DEF Adds, None

LEMMA SeenStays ==
    ASSUME NEW x, NEW y, y.kind = x.kind, y.archive = x.archive,
           y.add \in {x.add, None} \/ x.kind # "merge", y.at \notin Witnessed,
           NEW s, NEW z, NEW seen, NEW more, seen \subseteq more
    PROVE  /\ SourceIsSeen(x, s, seen) => SourceIsSeen(y, z, more)
           /\ TargetIsSeen(x, s, seen) => TargetIsSeen(y, z, more)
  <1>1. y.add = x.add => Adds(y) = Adds(x)
    BY DEF Adds
  <1>2. y.add = None => Adds(y) = {}
    BY NothingAdded
  <1>3. QED
    BY <1>1, <1>2 DEF SourceIsSeen, TargetIsSeen, Witnessed

(* Files that only get newer contents, and more of which there were        *)
LEMMA SeenAsFilesGrow ==
    ASSUME NEW c \in Nat, NEW x, Shaped(x, c), NEW s \in [Names -> Nat], NEW z \in [Names -> Nat],
           Behind(s, z), NEW seen \in SUBSET [Names -> Nat], NEW more, seen \subseteq more
    PROVE  /\ SourceIsSeen(x, s, seen) => SourceIsSeen(x, z, more)
           /\ TargetIsSeen(x, s, seen) => TargetIsSeen(x, z, more)
  <1>1. ASSUME NEW f \in [Names -> Nat], Behind(f, s) PROVE Behind(f, z)
    BY <1>1 DEF Behind
  <1>2. ReadBehind(x.read, s) => ReadBehind(x.read, z)
    <2>1. ASSUME NEW i \in 1 .. Len(x.read) PROVE i \in Names /\ x.read[i] \in Nat
      BY LastIs, ElementOfSeq DEF Shaped
    <2>2. QED
      BY <2>1 DEF ReadBehind, Behind
  <1>3. Behind(x.add, s) => Behind(x.add, z)
    <2>1. x.add \in [Names -> Nat]
      BY DEF Shaped, Numbers
    <2>2. QED
      BY <1>1, <2>1
  <1>4. SourceIsSeen(x, s, seen) => SourceIsSeen(x, z, more)
    <2>1. SUFFICES ASSUME SourceIsSeen(x, s, seen) PROVE SourceIsSeen(x, z, more)
      OBVIOUS
    <2>2. x.at \in {"collect target", "read again", "check source"} =>
            \E f \in more :
              /\ Behind(x.found["source"], f) /\ Behind(f, z)
              /\ x.at # "collect target" => ReadAhead(f, x.read)
              /\ x.at = "check source" /\ x.kind = "merge" => \A p \in Adds(x) : f[p] <= x.add[p]
      BY <1>1, <2>1 DEF SourceIsSeen
    <2>3. QED
      BY <1>2, <1>3, <2>1, <2>2 DEF SourceIsSeen
  <1>5. TargetIsSeen(x, s, seen) => TargetIsSeen(x, z, more)
    <2>1. SUFFICES ASSUME TargetIsSeen(x, s, seen) PROVE TargetIsSeen(x, z, more)
      OBVIOUS
    <2>2. x.at \in {"read again", "check source", "check target"} /\ x.kind = "merge" =>
            \E f \in more :
              /\ Behind(x.found["target"], f) /\ Behind(f, z)
              /\ x.at = "check target" => ReadAhead(f, x.read)
      BY <1>1, <2>1 DEF TargetIsSeen
    <2>3. QED
      BY <1>2, <2>1, <2>2 DEF TargetIsSeen
  <1>6. QED
    BY <1>4, <1>5

-----------------------------------------------------------------------------
(* One more file is read.                                                  *)
LEMMA AppendIs ==
    ASSUME NEW c \in Nat, NEW r \in Seq(0 .. c), Len(r) < Last, NEW files \in Numbers(c)
    PROVE  /\ Append(r, files[Len(r) + 1]) \in Seq(0 .. c)
           /\ Len(Append(r, files[Len(r) + 1])) = Len(r) + 1
           /\ \A i \in 1 .. Len(r) : Append(r, files[Len(r) + 1])[i] = r[i]
           /\ Append(r, files[Len(r) + 1])[Len(r) + 1] = files[Len(r) + 1]
           /\ Len(r) + 1 \in Names
           /\ \A g \in [Names -> Nat] :
                /\ Behind(files, g) /\ ReadBehind(r, g) => ReadBehind(Append(r, files[Len(r) + 1]), g)
                /\ Behind(g, files) /\ ReadAhead(g, r) => ReadAhead(g, Append(r, files[Len(r) + 1]))
  <1> DEFINE n == Len(r)
             a == Append(r, files[n + 1])
  <1>1. n \in Nat /\ n + 1 \in Names
    BY LastIs, LenProperties
  <1>2. files[n + 1] \in 0 .. c
    BY <1>1 DEF Numbers
  <1>3. /\ a \in Seq(0 .. c) /\ Len(a) = n + 1 /\ \A i \in 1 .. n : a[i] = r[i]
        /\ a[n + 1] = files[n + 1]
    BY <1>1, <1>2, AppendProperties
  <1> HIDE DEF a, n
  <1>4. \A i \in 1 .. n + 1 : i = n + 1 \/ i \in 1 .. n
    BY <1>1
  <1>5. ASSUME NEW g \in [Names -> Nat]
        PROVE  /\ Behind(files, g) /\ ReadBehind(r, g) => ReadBehind(a, g)
               /\ Behind(g, files) /\ ReadAhead(g, r) => ReadAhead(g, a)
    BY <1>1, <1>3, <1>4 DEF Behind, ReadBehind, ReadAhead, n
  <1>6. QED
    BY <1>1, <1>3, <1>5 DEF a, n

-----------------------------------------------------------------------------
(* The steps after which a process relies on no reading any more           *)
Settles(t) ==
    LET x == transfer[t]
        y == transfer'[t]
    IN
    /\ OthersWait(t)
    /\ y.kind = x.kind /\ y.archive = x.archive
    /\ y.add \in {x.add, None} \/ x.kind # "merge"
    /\ y.at \notin Witnessed
    /\ Shaped(y, content)
    /\ Orderly(y)

LEMMA GoesOnSettles ==
    ASSUME TransferInv, NEW t \in Transfers, NEW at, GoesOn(t, at), at \notin Witnessed,
           LET x == transfer[t] IN
           /\ at = "undo" \/ FitsAt(x.kind, at)
           /\ at = "put" => Adds(x) \ x.made # {}
           /\ at = "confirm" => Adds(x) \subseteq x.made
           /\ at \in PlanPlaces => x.made = {}
           /\ x.at # "idle"
    PROVE  Settles(t)
  <1> DEFINE x == transfer[t]
             y == transfer'[t]
  <1>1. /\ OthersWait(t) /\ Keeps(x, y) /\ y.made = x.made /\ y.at = at /\ y.read = <<>>
    BY GoesOnIs DEF TransferInv
  <1>2. Shaped(x, content) /\ content \in Nat /\ Orderly(x)
    BY DEF TransferInv, TransferTypes
  <1>3. Shaped(y, content)
    <2>1. y.made \subseteq Names
      BY <1>1, <1>2 DEF Shaped
    <2>2. QED
      BY <1>1, <1>2, <2>1, KeepsShape
  <1>4. FitsAt(y.kind, y.at)
    BY <1>1, <1>2 DEF Orderly, FitsAt, Keeps, Ends
  <1>5. Adds(y) = Adds(x)
    BY <1>1 DEF Adds, Keeps
  <1>6. Orderly(y)
    BY <1>1, <1>2, <1>4, <1>5 DEF Orderly, Keeps, Witnessed
  <1>7. QED
    BY <1>1, <1>3, <1>6 DEF Settles, Keeps

LEMMA EndSettles ==
    ASSUME TransferInv, NEW t \in Transfers, NEW at, End(t, at),
           at \in {"done", "failed", "dead"}, transfer[t].at # "idle"
    PROVE  Settles(t)
  <1> DEFINE x == transfer[t]
             y == transfer'[t]
  <1>1. OthersWait(t) /\ Ended(x, y, at)
    BY EndIs DEF TransferInv
  <1>2. Shaped(x, content) /\ content \in Nat /\ Orderly(x)
    BY DEF TransferInv, TransferTypes
  <1>3. Shaped(y, content)
    BY <1>1, <1>2, EndedIsShaped
  <1>4. FitsAt(y.kind, y.at)
    BY <1>1, <1>2 DEF Orderly, FitsAt, Ended, Ends
  <1>5. Adds(y) \subseteq Adds(x)
    BY <1>1, NothingAdded DEF Adds, Ended
  <1>6. Orderly(y)
    BY <1>1, <1>2, <1>4, <1>5 DEF Orderly, Ended, PlanPlaces
  <1>7. QED
    BY <1>1, <1>3, <1>6 DEF Settles, Ended, Witnessed

LEMMA SettledIsSeen ==
    ASSUME TransferInv, NEW t \in Transfers, Settles(t),
           past["source"] \subseteq past'["source"], past["target"] \subseteq past'["target"]
    PROVE  /\ SourceIsSeen(transfer'[t], source', past'["source"])
           /\ OtherMerges(t) = {} => TargetIsSeen(transfer'[t], target'.files, past'["target"])
  <1> DEFINE x == transfer[t]
             y == transfer'[t]
  <1>1. SourceIsSeen(x, source, past["source"])
    BY DEF TransferInv
  <1>2. OtherMerges(t) = {} => TargetIsSeen(x, target.files, past["target"])
    BY DEF TransferInv
  <1>3. /\ y.kind = x.kind /\ y.archive = x.archive /\ y.at \notin Witnessed
        /\ y.add \in {x.add, None} \/ x.kind # "merge"
    BY DEF Settles
  <1> HIDE DEF x, y
  <1>4. SourceIsSeen(y, source', past'["source"])
    BY <1>1, <1>3, SeenStays
  <1>5. OtherMerges(t) = {} => TargetIsSeen(y, target'.files, past'["target"])
    BY <1>2, <1>3, SeenStays
  <1>6. QED
    BY <1>4, <1>5 DEF y

LEMMA RefuseSettles ==
    ASSUME TransferInv, NEW t \in Transfers, Refuse(t), transfer[t].at # "idle"
    PROVE  Settles(t)
  BY EndSettles DEF Refuse

LEMMA FailSettles ==
    ASSUME TransferInv, NEW t \in Transfers, Fail(t), transfer[t].at # "idle"
    PROVE  Settles(t)
  BY GoesOnSettles DEF Fail, Witnessed, PlanPlaces

(* What a process knows of itself                                          *)
LEMMA ItselfIs ==
    ASSUME TransferInv, NEW t \in Transfers
    PROVE  /\ content \in Nat
           /\ DOMAIN transfer[t] = Fields
           /\ Shaped(transfer[t], content)
           /\ Orderly(transfer[t])
           /\ FitsAt(transfer[t].kind, transfer[t].at)
  BY DEF TransferInv, TransferTypes, Shaped, Orderly

LEMMA FoundChangedSettles ==
    ASSUME TransferInv, NEW t \in Transfers, NEW h \in Homes, FoundChanged(t, h)
    PROVE  Settles(t)
  <1>1. transfer[t].at # "idle"
    <2>1. Len(transfer[t].read) = Len(None)
      BY DEF FoundChanged, HasRead
    <2>2. Len(None) # 0
      BY NumbersAreSequences, LastIs, ItselfIs
    <2>3. Len(<<>>) = 0
      OBVIOUS
    <2>4. QED
      BY <2>1, <2>2, <2>3, ItselfIs DEF Orderly
  <1>2. QED
    BY <1>1, RefuseSettles DEF FoundChanged

(* The places that a process can be at when it has a kind                  *)
LEMMA CheckPlanSettles ==
    ASSUME TransferInv, NEW t \in Transfers, CheckPlan(t)
    PROVE  Settles(t)
  <1>1. transfer[t].at = "check plan" /\ transfer[t].kind = "initialize"
    BY ItselfIs DEF CheckPlan, At, FitsAt, RestorePlaces, LinePlaces, Ends, PlanPlaces, PutPlaces
  <1>2. CASE GoesOn(t, "compare line")
    BY <1>1, <1>2, GoesOnSettles DEF FitsAt, LinePlaces, Witnessed, PlanPlaces
  <1>3. CASE Refuse(t)
    BY <1>1, <1>3, RefuseSettles
  <1>4. QED
    BY <1>2, <1>3 DEF CheckPlan

(* The exclusion is of an initialization, a restore or a migration.        *)
LEMMA LineIsOf ==
    ASSUME TransferInv, NEW t \in Transfers, transfer[t].at \in LinePlaces
    PROVE  transfer[t].kind \in {"initialize", "restore", "migrate"}
  BY ItselfIs DEF FitsAt, RestorePlaces, LinePlaces, Ends, PlanPlaces, PutPlaces, InitPlaces

LEMMA AfterLineFits ==
    ASSUME TransferInv, NEW t \in Transfers, transfer[t].at \in LinePlaces
    PROVE  /\ FitsAt(transfer[t].kind, AfterLine(t))
           /\ AfterLine(t) \in {"make", "look empty"}
  BY LineIsOf DEF FitsAt, AfterLine, InitPlaces, RestorePlaces

LEMMA CompareLineSettles ==
    ASSUME TransferInv, NEW t \in Transfers, CompareLine(t)
    PROVE  Settles(t)
  <1>1. transfer[t].at = "compare line" /\ transfer[t].at \in LinePlaces
    BY DEF CompareLine, At, LinePlaces
  <1>2. CASE GoesOn(t, AfterLine(t))
    BY <1>1, <1>2, AfterLineFits, GoesOnSettles DEF Witnessed, PlanPlaces
  <1>3. CASE GoesOn(t, "write line")
    <2>1. FitsAt(transfer[t].kind, "write line")
      BY <1>1, LineIsOf DEF FitsAt, LinePlaces
    <2>2. QED
      BY <1>1, <1>3, <2>1, GoesOnSettles DEF Witnessed, PlanPlaces
  <1>4. CASE Fail(t)
    BY <1>1, <1>4, FailSettles
  <1>5. QED
    BY <1>2, <1>3, <1>4 DEF CompareLine

LEMMA WriteLineSettles ==
    ASSUME TransferInv, NEW t \in Transfers, WriteLine(t)
    PROVE  Settles(t)
  <1>1. transfer[t].at = "write line" /\ transfer[t].at \in LinePlaces
    BY DEF WriteLine, At, LinePlaces
  <1>2. FitsAt(transfer[t].kind, "ask git")
    BY <1>1, LineIsOf DEF FitsAt, LinePlaces
  <1>3. QED
    BY <1>1, <1>2, GoesOnSettles DEF WriteLine, Witnessed, PlanPlaces

(* A step that changes nothing the invariant is about but the place        *)
LEMMA KeepsSettles ==
    ASSUME TransferInv, NEW t \in Transfers,
           LET x == transfer[t]
               y == transfer'[t]
           IN
           /\ OthersWait(t) /\ Keeps(x, y) /\ y.made = x.made
           /\ y.read = x.read
           /\ FitsAt(x.kind, y.at)
           /\ y.at \notin Witnessed \cup PlanPlaces \cup {"put", "confirm", "idle"}
    PROVE  Settles(t)
  <1> DEFINE x == transfer[t]
             y == transfer'[t]
  <1>1. Shaped(y, content)
    BY ItselfIs DEF Shaped, Keeps
  <1>2. Adds(y) = Adds(x)
    BY DEF Adds, Keeps
  <1>3. Orderly(y)
    BY <1>2, ItselfIs DEF Orderly, Keeps, Witnessed
  <1>4. QED
    BY <1>1, <1>3 DEF Settles, Keeps

LEMMA AskGitSettles ==
    ASSUME TransferInv, NEW t \in Transfers, AskGit(t)
    PROVE  Settles(t)
  <1> DEFINE x == transfer[t]
             y == [x EXCEPT !.applied = TRUE, !.at = AfterLine(t)]
  <1>1. transfer[t].at = "ask git" /\ transfer[t].at \in LinePlaces
    BY DEF AskGit, At, LinePlaces
  <1>2. CASE Become(t, y)
    <2>1. /\ Keeps(x, y) /\ y.made = x.made /\ y.at = AfterLine(t)
          /\ y.read = x.read
      BY ItselfIs DEF Keeps, Fields
    <2>2. transfer'[t] = y /\ OthersWait(t)
      BY <1>2, BecomeIs DEF TransferInv
    <2>3. QED
      BY <1>1, <2>1, <2>2, AfterLineFits, KeepsSettles DEF Witnessed, PlanPlaces
  <1>3. CASE Fail(t)
    BY <1>1, <1>3, FailSettles
  <1>4. QED
    BY <1>2, <1>3 DEF AskGit

LEMMA MakeDirectorySettles ==
    ASSUME TransferInv, NEW t \in Transfers, MakeDirectory(t)
    PROVE  Settles(t)
  <1> DEFINE x == transfer[t]
             makes == x.unmarked /\ ~target.there
             y == [x EXCEPT !.directory = makes, !.at = IF x.unmarked THEN "mark" ELSE "verify"]
  <1>1. x.at = "make" /\ x.kind = "initialize"
    BY ItselfIs DEF MakeDirectory, At, FitsAt, RestorePlaces, LinePlaces, Ends, PlanPlaces, PutPlaces
  <1>2. Keeps(x, y) /\ y.made = x.made /\ y.read = x.read /\ y.at \in {"mark", "verify"}
    BY ItselfIs DEF Keeps, Fields
  <1>3. transfer'[t] = y /\ OthersWait(t)
    BY BecomeIs DEF TransferInv, MakeDirectory
  <1>4. FitsAt(x.kind, y.at)
    BY <1>1, <1>2 DEF FitsAt, InitPlaces, LinePlaces
  <1>5. QED
    BY <1>1, <1>2, <1>3, <1>4, KeepsSettles DEF Witnessed, PlanPlaces

(* The marker is made, by itself or with a whole home.                     *)
Marked(t) == [transfer[t] EXCEPT !.marker = "made", !.at = "verify"]

LEMMA MarkedIs ==
    ASSUME TransferInv, NEW t \in Transfers, Become(t, Marked(t))
    PROVE  /\ OthersWait(t) /\ Keeps(transfer[t], transfer'[t])
           /\ transfer'[t].made = transfer[t].made /\ transfer'[t].read = transfer[t].read
           /\ transfer'[t].at = "verify" /\ transfer'[t].marker = "made"
  <1> DEFINE x == transfer[t]
             y == Marked(t)
  <1>1. /\ Keeps(x, y) /\ y.made = x.made /\ y.read = x.read
        /\ y.at = "verify" /\ y.marker = "made"
    BY ItselfIs DEF Marked, Keeps, Fields
  <1>2. transfer'[t] = y /\ OthersWait(t)
    BY BecomeIs DEF TransferInv
  <1>3. QED
    BY <1>1, <1>2

LEMMA MarkedSettles ==
    ASSUME TransferInv, NEW t \in Transfers, Become(t, Marked(t)), FitsAt(transfer[t].kind, "verify")
    PROVE  Settles(t)
  BY MarkedIs, KeepsSettles DEF Witnessed, PlanPlaces

LEMMA WriteMarkerSettles ==
    ASSUME TransferInv, NEW t \in Transfers, WriteMarker(t)
    PROVE  Settles(t)
  <1>1. transfer[t].at = "mark" /\ transfer[t].kind = "initialize"
    BY ItselfIs DEF WriteMarker, At, FitsAt, RestorePlaces, LinePlaces, Ends, PlanPlaces, PutPlaces
  <1>2. CASE Become(t, Marked(t))
    BY <1>1, <1>2, MarkedSettles DEF FitsAt, LinePlaces
  <1>3. CASE Fail(t)
    BY <1>1, <1>3, FailSettles
  <1>4. QED
    BY <1>2, <1>3 DEF WriteMarker, Marked

LEMMA VerifySettles ==
    ASSUME TransferInv, NEW t \in Transfers, Verify(t)
    PROVE  Settles(t)
  <1>1. transfer[t].at = "verify"
    BY DEF Verify, At
  <1>2. QED
    BY <1>1, EndSettles, FailSettles DEF Verify

(* A restore and a migration replace the target.                           *)
LEMMA ReplacerIs ==
    ASSUME TransferInv, NEW t \in Transfers, transfer[t].at \in RestorePlaces
    PROVE  transfer[t].kind \in {"restore", "migrate"}
  BY ItselfIs DEF FitsAt, RestorePlaces, LinePlaces, Ends, PlanPlaces, PutPlaces, InitPlaces

LEMMA ReplacementSettles ==
    ASSUME TransferInv, NEW t \in Transfers, FindEmpty(t) \/ Clear(t) \/ Replace(t)
    PROVE  Settles(t)
  <1>1. transfer[t].at \in RestorePlaces /\ transfer[t].at # "idle"
    BY DEF FindEmpty, Clear, Replace, At, RestorePlaces
  <1>2. ASSUME NEW at \in {"clear", "replace", "verify"} PROVE FitsAt(transfer[t].kind, at)
    BY <1>1, ReplacerIs DEF FitsAt, RestorePlaces, LinePlaces
  <1>3. ASSUME NEW at \in {"clear", "replace", "verify"}, GoesOn(t, at) PROVE Settles(t)
    BY <1>1, <1>2, <1>3, GoesOnSettles DEF Witnessed, PlanPlaces
  <1>4. CASE FindEmpty(t)
    BY <1>1, <1>3, <1>4, FailSettles DEF FindEmpty
  <1>5. CASE Clear(t)
    BY <1>1, <1>3, <1>5, FailSettles DEF Clear
  <1>6. CASE Replace(t)
    BY <1>1, <1>2, <1>6, MarkedSettles, FailSettles DEF Replace, Marked
  <1>7. QED
    BY <1>4, <1>5, <1>6

(* Only a merge puts files.                                                *)
LEMMA PutterIs ==
    ASSUME TransferInv, NEW t \in Transfers,
           transfer[t].at \in PutPlaces \cup {"source again", "target again"}
    PROVE  transfer[t].kind = "merge" /\ transfer[t].at # "idle"
  BY ItselfIs DEF FitsAt, RestorePlaces, LinePlaces, Ends, PlanPlaces, PutPlaces, InitPlaces

LEMMA LackingIs ==
    ASSUME NEW t
    PROVE  /\ Lacking(t) = Adds(transfer[t]) \ transfer[t].made
           /\ Lacking(t) # {} => NextFile(t) \in Lacking(t) /\ NextFile(t) \in Names
  <1>1. Lacking(t) = Adds(transfer[t]) \ transfer[t].made
    BY DEF Lacking, Adds
  <1>2. Lacking(t) \subseteq Nat /\ Lacking(t) \subseteq Names
    BY LastIs DEF Lacking
  <1>3. ASSUME Lacking(t) # {} PROVE NextFile(t) \in Lacking(t)
    BY <1>2, <1>3, Smallest DEF NextFile
  <1>4. QED
    BY <1>1, <1>2, <1>3

LEMMA LookForFileSettles ==
    ASSUME TransferInv, NEW t \in Transfers, LookForFile(t)
    PROVE  Settles(t)
  <1>1. transfer[t].at = "look" /\ transfer[t].kind = "merge"
    BY PutterIs DEF LookForFile, At, PutPlaces
  <1>2. FitsAt("merge", "put") /\ FitsAt("merge", "confirm")
    BY DEF FitsAt, PutPlaces
  <1>3. CASE Lacking(t) = {}
    <2>1. GoesOn(t, "confirm")
      BY <1>3 DEF LookForFile
    <2>2. Adds(transfer[t]) \subseteq transfer[t].made
      BY <1>3, LackingIs
    <2>3. QED
      BY <1>1, <1>2, <2>1, <2>2, GoesOnSettles DEF Witnessed, PlanPlaces
  <1>4. CASE Lacking(t) # {} /\ target.files[NextFile(t)] = 0
    <2>1. GoesOn(t, "put")
      BY <1>4 DEF LookForFile
    <2>2. Adds(transfer[t]) \ transfer[t].made # {}
      BY <1>4, LackingIs
    <2>3. QED
      BY <1>1, <1>2, <2>1, <2>2, GoesOnSettles DEF Witnessed, PlanPlaces
  <1>5. CASE Lacking(t) # {} /\ target.files[NextFile(t)] # 0
    BY <1>1, <1>5, FailSettles DEF LookForFile
  <1>6. QED
    BY <1>3, <1>4, <1>5

(* A merge makes a file or takes one back.                                 *)
LEMMA MadeIs ==
    ASSUME TransferInv, NEW t \in Transfers, NEW made, NEW at, transfer[t].kind = "merge",
           Become(t, [transfer[t] EXCEPT !.made = made, !.at = at])
    PROVE  /\ OthersWait(t) /\ Keeps(transfer[t], transfer'[t])
           /\ transfer'[t].made = made /\ transfer'[t].at = at
           /\ transfer'[t].read = transfer[t].read
  <1> DEFINE x == transfer[t]
             y == [x EXCEPT !.made = made, !.at = at]
  <1>1. Keeps(x, y) /\ y.made = made /\ y.at = at /\ y.read = x.read
    BY ItselfIs DEF Keeps, Fields
  <1>2. transfer'[t] = y /\ OthersWait(t)
    BY BecomeIs DEF TransferInv
  <1>3. QED
    BY <1>1, <1>2

LEMMA MadeSettles ==
    ASSUME TransferInv, NEW t \in Transfers, NEW made, NEW at, transfer[t].kind = "merge",
           Become(t, [transfer[t] EXCEPT !.made = made, !.at = at]),
           made \subseteq Adds(transfer[t]), at \in {"look", "undo"}
    PROVE  Settles(t)
  <1> DEFINE x == transfer[t]
             y == transfer'[t]
  <1>1. OthersWait(t) /\ Keeps(x, y) /\ y.made = made /\ y.at = at /\ y.read = x.read
    BY MadeIs
  <1>2. Adds(y) = Adds(x) /\ Adds(x) \subseteq Names
    BY <1>1 DEF Adds, Keeps
  <1>3. Shaped(y, content)
    BY <1>1, <1>2, ItselfIs DEF Shaped, Keeps
  <1>4. Orderly(y)
    BY <1>1, <1>2 DEF Orderly, Keeps, FitsAt, PutPlaces, Ends, PlanPlaces
  <1>5. QED
    BY <1>1, <1>3, <1>4 DEF Settles, Keeps, Witnessed

LEMMA PutFileIs ==
    ASSUME TransferInv, NEW t \in Transfers, PutFile(t)
    PROVE  /\ transfer[t].kind = "merge"
           /\ NextFile(t) \in Adds(transfer[t]) /\ NextFile(t) \in Names
           /\ Settles(t)
  <1>1. transfer[t].at = "put" /\ transfer[t].kind = "merge"
    BY PutterIs DEF PutFile, At, PutPlaces
  <1>2. Lacking(t) # {}
    BY <1>1, ItselfIs, LackingIs DEF Orderly
  <1>3. NextFile(t) \in Adds(transfer[t]) /\ NextFile(t) \in Names
    BY <1>2, LackingIs
  <1>4. Become(t, [transfer[t] EXCEPT !.made = transfer[t].made \cup {NextFile(t)}, !.at = "look"])
    BY DEF PutFile
  <1>5. transfer[t].made \cup {NextFile(t)} \subseteq Adds(transfer[t])
    BY <1>3, ItselfIs DEF Orderly
  <1>6. QED
    BY <1>1, <1>3, <1>4, <1>5, MadeSettles

LEMMA ConfirmMergeSettles ==
    ASSUME TransferInv, NEW t \in Transfers, ConfirmMerge(t)
    PROVE  Settles(t)
  <1>1. transfer[t].at = "confirm"
    BY DEF ConfirmMerge, At
  <1>2. QED
    BY <1>1, EndSettles, FailSettles DEF ConfirmMerge

RemovedFile(t) == CHOOSE p \in transfer[t].made : \A q \in transfer[t].made : p >= q

LEMMA RemoveFileIs ==
    ASSUME TransferInv, NEW t \in Transfers, RemoveFile(t)
    PROVE  /\ transfer[t].kind = "merge"
           /\ RemovedFile(t) \in Adds(transfer[t]) /\ RemovedFile(t) \in Names
           /\ Settles(t)
  <1>1. transfer[t].at = "undo" /\ transfer[t].made # {}
    BY DEF RemoveFile, At
  <1>2. transfer[t].kind = "merge" /\ transfer[t].made \subseteq Adds(transfer[t])
    BY <1>1, ItselfIs DEF Orderly
  <1>3. transfer[t].made \subseteq 1 .. Last
    BY ItselfIs, LastIs DEF Shaped
  <1>4. RemovedFile(t) \in transfer[t].made
    BY <1>1, <1>3, LastIs, Largest DEF RemovedFile
  <1>5. Become(t, [transfer[t] EXCEPT !.made = transfer[t].made \ {RemovedFile(t)}])
    BY DEF RemoveFile, RemovedFile
  <1> DEFINE x == transfer[t]
             y == [x EXCEPT !.made = x.made \ {RemovedFile(t)}]
  <1>6. Keeps(x, y) /\ y.made = x.made \ {RemovedFile(t)} /\ y.at = x.at /\ y.read = x.read
    BY ItselfIs DEF Keeps, Fields
  <1>7. transfer'[t] = y /\ OthersWait(t)
    BY <1>5, BecomeIs DEF TransferInv
  <1>8. Adds(y) = Adds(x) /\ Adds(x) \subseteq Names
    BY <1>6 DEF Adds, Keeps
  <1> HIDE DEF y
  <1>9. Shaped(y, content) /\ Orderly(y)
    BY <1>1, <1>2, <1>6, <1>8, ItselfIs DEF Shaped, Orderly, Keeps, PlanPlaces
  <1>10. QED
    BY <1>1, <1>2, <1>4, <1>6, <1>7, <1>8, <1>9 DEF Settles, Keeps, Witnessed

LEMMA TakeBackSettles ==
    ASSUME TransferInv, NEW t \in Transfers, TakeBack(t)
    PROVE  Settles(t)
  <1> DEFINE x == transfer[t]
             y == [x EXCEPT !.directory = FALSE, !.at = "take line"]
  <1>1. x.at = "undo"
    BY DEF TakeBack, At
  <1>2. Keeps(x, y) /\ y.made = x.made /\ y.read = x.read /\ y.at = "take line"
    BY ItselfIs DEF Keeps, Fields
  <1>3. transfer'[t] = y /\ OthersWait(t)
    BY BecomeIs DEF TransferInv, TakeBack
  <1>4. FitsAt(x.kind, "take line")
    BY <1>1, ItselfIs DEF FitsAt, Ends
  <1>5. QED
    BY <1>2, <1>3, <1>4, KeepsSettles DEF Witnessed, PlanPlaces

(* The initialization without the marker it made                           *)
Unmarked(t) == [transfer[t] EXCEPT !.marker = "taken back"]

LEMMA RemoveMarkerSettles ==
    ASSUME TransferInv, NEW t \in Transfers, RemoveMarker(t)
    PROVE  Settles(t) /\ transfer'[t].at = "undo"
  <1> DEFINE x == transfer[t]
             y == Unmarked(t)
  <1>1. x.at = "undo" /\ FitsAt(x.kind, "undo")
    BY ItselfIs DEF RemoveMarker, At, FitsAt, Ends
  <1>2. Keeps(x, y) /\ y.made = x.made /\ y.read = x.read /\ y.at = "undo"
    BY <1>1, ItselfIs DEF Unmarked, Keeps, Fields
  <1>3. transfer'[t] = y /\ OthersWait(t)
    BY BecomeIs DEF TransferInv, RemoveMarker, Unmarked
  <1>4. QED
    BY <1>1, <1>2, <1>3, KeepsSettles DEF Witnessed, PlanPlaces

LEMMA OverSettles ==
    ASSUME TransferInv, NEW t \in Transfers, RestoreLine(t) \/ Die(t)
    PROVE  Settles(t)
  <1>1. CASE RestoreLine(t)
    BY <1>1, EndSettles DEF RestoreLine, At
  <1>2. CASE Die(t)
    BY <1>2, EndSettles DEF Die
  <1>3. QED
    BY <1>1, <1>2

-----------------------------------------------------------------------------
(* The steps that plan and read: they change no home.                      *)
Proceeds(t) ==
    LET x == transfer[t]
        y == transfer'[t]
    IN
    /\ OthersWait(t)
    /\ y.kind = x.kind \/ x.at = "idle"
    /\ Shaped(y, content) /\ Orderly(y)
    /\ SourceIsSeen(y, source, past["source"])
    /\ OtherMerges(t) = {} => TargetIsSeen(y, target.files, past["target"])

LEMMA PlannedProceeds ==
    ASSUME TransferInv, NEW t \in Transfers, transfer[t].at = "idle",
           NEW kind, NEW at, FitsAt(kind, at), Become(t, Planned(kind, at)),
           at \in {"check plan", "collect source"}
    PROVE  /\ Proceeds(t) /\ Adds(transfer'[t]) = {}
           /\ transfer'[t].kind = kind /\ transfer'[t].at = at
  <1> DEFINE y == transfer'[t]
             x == Planned(kind, at)
  <1>1. OthersWait(t) /\ y = x
    BY BecomeIs DEF TransferInv
  <1>2. Fresh(y) /\ y.kind = kind /\ y.at = at /\ y.add = None
    <2>1. Fresh(x) /\ x.kind = kind /\ x.at = at /\ x.add = None
      BY AtRestIs DEF Planned, Fields, Fresh
    <2> HIDE DEF x
    <2>2. QED
      BY <1>1, <2>1
  <1> HIDE DEF y
  <1>3. Adds(y) = {}
    BY <1>2, NothingAdded
  <1>4. Shaped(y, content)
    BY <1>2, ItselfIs, EmptyIsShaped, NumbersAreSequences DEF Shaped, Fresh
  <1>5. Orderly(y)
    BY <1>2, <1>3 DEF Orderly, PlanPlaces, Fresh
  <1>6. y.archive["source"] = NoArchive /\ y.archive["target"] = NoArchive
    BY <1>2 DEF Homes, Fresh
  <1>7. SourceIsSeen(y, source, past["source"]) /\ TargetIsSeen(y, target.files, past["target"])
    BY <1>2, <1>6, NothingRead DEF SourceIsSeen, TargetIsSeen, Fresh
  <1>8. QED
    BY <1>1, <1>2, <1>3, <1>4, <1>5, <1>7 DEF Proceeds, y

LEMMA RestorePlanned ==
    ASSUME TransferInv, NEW t \in Transfers, transfer[t].at = "idle", PlanRestore(t)
    PROVE  /\ Proceeds(t)
           /\ transfer'[t].kind = "restore" /\ transfer'[t].at = "compare line"
  <1> DEFINE y == transfer'[t]
             x == Planned("restore", "compare line")
  <1>1. PICK a \in Archives : Become(t, [x EXCEPT !.add = a])
    BY DEF PlanRestore
  <1>2. OthersWait(t) /\ y = [x EXCEPT !.add = a]
    BY <1>1, BecomeIs DEF TransferInv
  <1>3. a \in Numbers(content)
    <2>1. Given \in Numbers(content)
      BY TransferAssumption DEF TransferInv, TransferTypes, Numbers
    <2>2. ASSUME NEW u \in Transfers PROVE transfer[u].archive["source"] \in Numbers(content) \cup {NoArchive}
      BY ItselfIs DEF Shaped, Homes
    <2>3. QED
      BY <2>1, <2>2 DEF Archives
  <1>4. Fresh(x) /\ x.kind = "restore" /\ x.at = "compare line"
    BY PlannedIs
  <1> HIDE DEF x
  <1>5. Fresh(y) /\ y.kind = "restore" /\ y.at = "compare line" /\ y.add = a
    BY <1>2, <1>4 DEF Fields, Fresh
  <1> HIDE DEF y
  <1>6. Shaped(y, content)
    BY <1>3, <1>5, ItselfIs, EmptyIsShaped, NumbersAreSequences DEF Shaped, Fresh
  <1>7. Orderly(y)
    BY <1>5 DEF Orderly, PlanPlaces, FitsAt, LinePlaces, Adds, Fresh
  <1>8. y.archive["source"] = NoArchive /\ y.archive["target"] = NoArchive
    BY <1>5 DEF Homes, Fresh
  <1>9. SourceIsSeen(y, source, past["source"]) /\ TargetIsSeen(y, target.files, past["target"])
    BY <1>5, <1>8 DEF SourceIsSeen, TargetIsSeen
  <1>10. QED
    BY <1>2, <1>5, <1>6, <1>7, <1>9 DEF Proceeds, y

LEMMA PlanProceeds ==
    ASSUME TransferInv, NEW t \in Transfers, Plan(t)
    PROVE  /\ Proceeds(t)
           /\ ~Carries(transfer'[t]) /\ transfer'[t].at # "done"
           /\ transfer'[t].kind = "merge" => target.marker /\ Adds(transfer'[t]) = {}
  <1>1. transfer[t].at = "idle"
    BY DEF Plan, At
  <1>2. CASE PlanInitialization(t)
    <2>1. FitsAt("initialize", "check plan")
      BY DEF FitsAt, InitPlaces
    <2>2. Proceeds(t) /\ transfer'[t].kind = "initialize" /\ transfer'[t].at = "check plan"
      BY <1>1, <1>2, <2>1, PlannedProceeds DEF PlanInitialization
    <2>3. QED
      BY <2>2 DEF Carries
  <1>3. CASE PlanHomeMigration(t)
    <2>1. FitsAt("migrate", "collect source")
      BY DEF FitsAt
    <2>2. Proceeds(t) /\ transfer'[t].kind = "migrate" /\ transfer'[t].at = "collect source"
      BY <1>1, <1>3, <2>1, PlannedProceeds DEF PlanHomeMigration
    <2>3. QED
      BY <2>2 DEF Carries
  <1>4. CASE PlanRestore(t)
    BY <1>1, <1>4, RestorePlanned DEF Carries
  <1>5. CASE PlanMerge(t)
    <2>1. FitsAt("merge", "collect source")
      BY DEF FitsAt, PlanPlaces
    <2>2. /\ Proceeds(t) /\ transfer'[t].kind = "merge" /\ transfer'[t].at = "collect source"
          /\ Adds(transfer'[t]) = {}
      BY <1>1, <1>5, <2>1, PlannedProceeds DEF PlanMerge
    <2>3. QED
      BY <1>5, <2>2 DEF Carries, PlanMerge
  <1>6. QED
    BY <1>2, <1>3, <1>4, <1>5 DEF Plan

(* A process knows what it has seen of the homes.                          *)
LEMMA SeenIs ==
    ASSUME TransferInv, NEW t \in Transfers
    PROVE  /\ SourceIsSeen(transfer[t], source, past["source"])
           /\ OtherMerges(t) = {} => TargetIsSeen(transfer[t], target.files, past["target"])
           /\ source \in past["source"] /\ target.files \in past["target"]
           /\ source \in Numbers(content) /\ target.files \in Numbers(content)
           /\ past["source"] \subseteq Numbers(content) /\ past["target"] \subseteq Numbers(content)
  BY DEF TransferInv, TransferTypes

LEMMA NumbersAre == ASSUME NEW c \in Nat PROVE Numbers(c) \subseteq [Names -> Nat]
  BY DEF Numbers

LEMMA ReadFileProceeds ==
    ASSUME TransferInv, NEW t \in Transfers, ReadFile(t)
    PROVE  Proceeds(t) /\ Keeps(transfer[t], transfer'[t]) /\ transfer'[t].at = transfer[t].at
  <1> DEFINE x == transfer[t]
             files == IF x.at \in ReadsSource THEN source ELSE target.files
             r == Append(x.read, files[Len(x.read) + 1])
             y == [x EXCEPT !.read = r]
  <1>1. /\ x.at \in ReadsSource \cup ReadsTarget /\ Len(x.read) < Len(None)
        /\ Become(t, y)
    BY DEF ReadFile
  <1>2. transfer'[t] = y /\ OthersWait(t)
    BY <1>1, BecomeIs DEF TransferInv
  <1>3. Keeps(x, y) /\ y.made = x.made /\ y.at = x.at /\ y.read = r
    BY ItselfIs DEF Keeps, Fields
  <1>4. files \in Numbers(content) /\ content \in Nat
    BY SeenIs, ItselfIs
  <1>5. x.read \in Seq(0 .. content) /\ Len(x.read) < Last /\ Len(x.read) \in Nat
    BY <1>1, <1>4, ItselfIs, NumbersAreSequences, LenProperties DEF Shaped
  <1>6. /\ r \in Seq(0 .. content) /\ Len(r) = Len(x.read) + 1
        /\ \A g \in [Names -> Nat] :
             /\ Behind(files, g) /\ ReadBehind(x.read, g) => ReadBehind(r, g)
             /\ Behind(g, files) /\ ReadAhead(g, x.read) => ReadAhead(g, r)
    BY <1>4, <1>5, AppendIs
  <1> HIDE DEF r, y
  <1>7. Shaped(y, content)
    BY <1>3, <1>5, <1>6, ItselfIs, LastIs DEF Shaped, Keeps
  <1>8. Adds(y) = Adds(x)
    BY <1>3 DEF Adds, Keeps
  <1>9. Orderly(y)
    BY <1>1, <1>3, <1>8, ItselfIs DEF Orderly, Keeps, ReadsSource, ReadsTarget
  <1>10. \A g \in Numbers(content) : g \in [Names -> Nat] /\ Behind(g, g)
    BY <1>4, NumbersAre DEF Behind
  <1>11. x.at \in ReadsSource => files = source
    OBVIOUS
  <1>12. x.at \in ReadsTarget => files = target.files
    BY DEF ReadsSource, ReadsTarget
  <1> HIDE DEF files
  <1>13. SourceIsSeen(y, source, past["source"])
    <2>1. SourceIsSeen(x, source, past["source"])
      BY SeenIs
    <2>2. x.at \in {"collect source", "read again"} => ReadBehind(y.read, source)
      BY <1>3, <1>6, <1>10, <1>11, <2>1, SeenIs DEF SourceIsSeen, ReadsSource
    <2>3. x.at \in {"collect target", "read again", "check source"} =>
            \E f \in past["source"] :
              /\ Behind(x.found["source"], f) /\ Behind(f, source)
              /\ x.at # "collect target" => ReadAhead(f, y.read)
              /\ x.at = "check source" /\ x.kind = "merge" => \A p \in Adds(x) : f[p] <= x.add[p]
      BY <1>3, <1>6, <1>10, <1>11, <2>1, SeenIs DEF SourceIsSeen, ReadsSource
    <2>4. x.at = "check source" /\ x.kind = "merge" =>
            Behind(x.add, source) /\ ReadAhead(x.add, y.read)
      BY <1>3, <1>6, <1>10, <1>11, <2>1, ItselfIs DEF SourceIsSeen, ReadsSource, Shaped
    <2>5. QED
      BY <1>3, <1>8, <2>1, <2>2, <2>3, <2>4 DEF SourceIsSeen, Keeps
  <1>14. ASSUME OtherMerges(t) = {} PROVE TargetIsSeen(y, target.files, past["target"])
    <2>1. TargetIsSeen(x, target.files, past["target"])
      BY <1>14, SeenIs
    <2>2. x.at = "collect target" => ReadBehind(y.read, target.files)
      BY <1>3, <1>6, <1>10, <1>12, <2>1, SeenIs DEF TargetIsSeen, ReadsTarget
    <2>3. x.at \in {"read again", "check source", "check target"} /\ x.kind = "merge" =>
            \E f \in past["target"] :
              /\ Behind(x.found["target"], f) /\ Behind(f, target.files)
              /\ x.at = "check target" => ReadAhead(f, y.read)
      BY <1>3, <1>6, <1>10, <1>12, <2>1, SeenIs DEF TargetIsSeen, ReadsTarget
    <2>4. QED
      BY <1>3, <2>1, <2>2, <2>3 DEF TargetIsSeen, Keeps
  <1>15. QED
    BY <1>2, <1>3, <1>7, <1>9, <1>13, <1>14 DEF Proceeds, Keeps

(* What a complete reading is                                              *)
LEMMA ReadIs ==
    ASSUME TransferInv, NEW t \in Transfers, NEW at, HasRead(t, at)
    PROVE  /\ transfer[t].at = at
           /\ transfer[t].read \in Numbers(content)
           /\ Len(transfer[t].read) = Last
           /\ \A g : /\ ReadBehind(transfer[t].read, g) <=> Behind(transfer[t].read, g)
                     /\ ReadAhead(g, transfer[t].read) <=> Behind(g, transfer[t].read)
  <1> DEFINE r == transfer[t].read
  <1>1. r \in Seq(0 .. content) /\ Len(r) = Last /\ r \in Numbers(content)
    BY ItselfIs, NumbersAreSequences DEF HasRead, Shaped
  <1>2. 1 .. Len(r) = Names
    BY <1>1, LastIs
  <1> HIDE DEF r
  <1>3. \A g : (ReadBehind(r, g) <=> Behind(r, g)) /\ (ReadAhead(g, r) <=> Behind(g, r))
    BY <1>2 DEF ReadBehind, ReadAhead, Behind
  <1>4. QED
    BY <1>1, <1>3 DEF r, HasRead, At

LEMMA BehindItself == ASSUME NEW c \in Nat, NEW f \in Numbers(c) PROVE Behind(f, f)
  <1>1. \A p \in Names : f[p] \in Nat
    BY DEF Numbers
  <1>2. QED
    BY <1>1 DEF Behind

(* A process goes on with other findings.                                  *)
FoundOf(x, y, h) ==
    /\ DOMAIN y = Fields
    /\ y.kind = x.kind /\ y.read = <<>> /\ y.add = x.add
    /\ y.archive = x.archive /\ y.made = x.made
    /\ y.found[h] = x.read /\ \A g \in Homes \ {h} : y.found[g] = x.found[g]

LEMMA FoundIs ==
    ASSUME TransferInv, NEW t \in Transfers, NEW h \in Homes, NEW at, NEW next,
           Found(t, at, h, next)
    PROVE  /\ transfer[t].at = at /\ OthersWait(t)
           /\ FoundOf(transfer[t], transfer'[t], h)
           /\ transfer'[t].at = next
           /\ Shaped(transfer'[t], content)
  <1> DEFINE x == transfer[t]
             found == [x.found EXCEPT ![h] = x.read]
             y == [x EXCEPT !.found[h] = x.read, !.read = <<>>, !.at = next,
                            !.unmarked = ~target.marker]
  <1>1. DOMAIN x = Fields /\ x.at = at
    BY ItselfIs, ReadIs DEF Found
  <1>2. /\ DOMAIN y = Fields /\ y.kind = x.kind /\ y.at = next /\ y.read = <<>> /\ y.add = x.add
        /\ y.archive = x.archive /\ y.made = x.made /\ y.found = found
    BY <1>1 DEF Fields
  <1>3. transfer'[t] = y /\ OthersWait(t)
    BY BecomeIs DEF TransferInv, Found
  <1> HIDE DEF y
  <1>4. found \in [Homes -> Numbers(content)]
    BY ItselfIs, ReadIs DEF Found, Shaped
  <1>5. found[h] = x.read /\ \A g \in Homes \ {h} : found[g] = x.found[g]
    BY ItselfIs DEF Shaped
  <1>6. Shaped(y, content)
    BY <1>2, <1>4, ItselfIs, EmptyIsShaped DEF Shaped
  <1>7. QED
    BY <1>1, <1>2, <1>3, <1>5, <1>6 DEF FoundOf

LEMMA SourceIsFound ==
    ASSUME TransferInv, NEW t \in Transfers, NEW next,
           Found(t, "collect source", "source", next),
           \/ transfer[t].kind = "migrate" /\ next = "check source"
           \/ transfer[t].kind = "merge" /\ next = "collect target"
    PROVE  Proceeds(t) /\ Adds(transfer'[t]) = Adds(transfer[t]) /\ transfer'[t].at = next
  <1> DEFINE x == transfer[t]
             y == transfer'[t]
  <1>0. /\ x.at = "collect source" /\ OthersWait(t) /\ y.at = next /\ Shaped(y, content)
        /\ FoundOf(x, y, "source")
    BY FoundIs DEF Homes
  <1>1. /\ x.at = "collect source" /\ OthersWait(t)
        /\ y.kind = x.kind /\ y.at = next /\ y.read = <<>> /\ y.add = x.add
        /\ y.archive = x.archive /\ y.made = x.made
        /\ y.found["source"] = x.read
        /\ Shaped(y, content)
        /\ \/ x.kind = "migrate" /\ next = "check source"
           \/ x.kind = "merge" /\ next = "collect target"
    BY <1>0 DEF FoundOf
  <1>2. SourceIsSeen(x, source, past["source"]) /\ Orderly(x)
    BY SeenIs, ItselfIs
  <1>3. Behind(x.read, source) /\ source \in past["source"]
    BY <1>1, <1>2, ReadIs, SeenIs DEF SourceIsSeen, Found
  <1>4. Behind(source, source)
    BY SeenIs, ItselfIs, BehindItself
  <1>5. OtherMerges(t) = {} => TargetIsSeen(x, target.files, past["target"])
    BY SeenIs
  <1> HIDE DEF x, y
  <1>6. Adds(y) = Adds(x)
    BY <1>1 DEF Adds
  <1>7. Orderly(y)
    BY <1>1, <1>2, <1>6 DEF Orderly, FitsAt, PlanPlaces
  <1>8. SourceIsSeen(y, source, past["source"])
    <2>1. y.archive["source"] = NoArchive
      BY <1>1, <1>2 DEF SourceIsSeen
    <2>2. Behind(y.found["source"], source) /\ ReadAhead(source, y.read)
      BY <1>1, <1>3, NothingRead
    <2>3. QED
      BY <1>1, <1>3, <1>4, <2>1, <2>2 DEF SourceIsSeen
  <1>9. OtherMerges(t) = {} => TargetIsSeen(y, target.files, past["target"])
    BY <1>1, <1>5, NothingRead DEF TargetIsSeen
  <1>10. QED
    BY <1>1, <1>6, <1>7, <1>8, <1>9 DEF Proceeds, x, y

LEMMA TargetIsFound ==
    ASSUME TransferInv, NEW t \in Transfers,
           Found(t, "collect target", "target", "read again"), transfer[t].kind = "merge"
    PROVE  Proceeds(t) /\ Adds(transfer'[t]) = Adds(transfer[t]) /\ transfer'[t].at = "read again"
  <1> DEFINE x == transfer[t]
             y == transfer'[t]
  <1>0. /\ x.at = "collect target" /\ OthersWait(t) /\ y.at = "read again" /\ Shaped(y, content)
        /\ FoundOf(x, y, "target")
    BY FoundIs DEF Homes
  <1>1. /\ x.at = "collect target" /\ OthersWait(t)
        /\ y.kind = x.kind /\ y.at = "read again" /\ y.read = <<>> /\ y.add = x.add
        /\ y.archive = x.archive /\ y.made = x.made
        /\ y.found["target"] = x.read /\ y.found["source"] = x.found["source"]
        /\ Shaped(y, content)
    BY <1>0 DEF FoundOf, Homes
  <1>2. SourceIsSeen(x, source, past["source"]) /\ Orderly(x)
    BY SeenIs, ItselfIs
  <1>3. OtherMerges(t) = {} => TargetIsSeen(x, target.files, past["target"])
    BY SeenIs
  <1>4. OtherMerges(t) = {} => Behind(x.read, target.files)
    BY <1>1, <1>3, ReadIs DEF TargetIsSeen, Found
  <1>5. target.files \in past["target"] /\ Behind(target.files, target.files)
    BY SeenIs, ItselfIs, BehindItself
  <1>6. x.kind = "merge"
    OBVIOUS
  <1> HIDE DEF x, y
  <1>7. Adds(y) = Adds(x)
    BY <1>1 DEF Adds
  <1>8. Orderly(y)
    BY <1>1, <1>2, <1>6, <1>7 DEF Orderly, FitsAt, PlanPlaces
  <1>9. SourceIsSeen(y, source, past["source"])
    BY <1>1, <1>2, NothingRead DEF SourceIsSeen
  <1>10. ASSUME OtherMerges(t) = {} PROVE TargetIsSeen(y, target.files, past["target"])
    <2>1. Behind(y.found["target"], target.files)
      BY <1>1, <1>4, <1>10
    <2>2. y.archive["target"] \in past["target"] \cup {NoArchive}
      BY <1>1, <1>3, <1>10 DEF TargetIsSeen
    <2>3. QED
      BY <1>1, <1>5, <2>1, <2>2 DEF TargetIsSeen
  <1>11. QED
    BY <1>1, <1>7, <1>8, <1>9, <1>10 DEF Proceeds, x, y

(* What a merge adds is what it has read, where the target lacks it.       *)
Lacks(read) == [p \in Names |-> IF target.files[p] = 0 THEN read[p] ELSE 0]

LEMMA ComparedIs ==
    ASSUME TransferInv, NEW t \in Transfers, Compare(t), ~Refuse(t)
    PROVE  /\ transfer[t].at = "read again" /\ OthersWait(t) /\ Quiet
           /\ LET x == transfer[t]
                  y == transfer'[t]
              IN
              /\ DOMAIN y = Fields
              /\ y.kind = x.kind /\ y.at = "check source" /\ y.read = <<>>
              /\ y.found = x.found /\ y.archive = x.archive /\ y.made = x.made
              /\ y.add = Lacks(x.read)
  <1> DEFINE x == transfer[t]
             lacks == {p \in Names : target.files[p] = 0}
             add == [p \in Names |-> IF p \in lacks THEN x.read[p] ELSE 0]
             y == [x EXCEPT !.add = add, !.read = <<>>, !.at = "check source"]
  <1>1. Become(t, y) /\ Quiet
    BY DEF Compare
  <1>2. transfer'[t] = y /\ OthersWait(t)
    BY <1>1, BecomeIs DEF TransferInv
  <1>3. add = Lacks(x.read)
    BY DEF Lacks
  <1> HIDE DEF add
  <1>4. /\ DOMAIN y = Fields
        /\ y.kind = x.kind /\ y.at = "check source" /\ y.read = <<>>
        /\ y.found = x.found /\ y.archive = x.archive /\ y.made = x.made
        /\ y.add = add
    BY ItselfIs DEF Fields
  <1>5. x.at = "read again"
    BY ReadIs DEF Compare
  <1>6. QED
    BY <1>1, <1>2, <1>3, <1>4, <1>5

LEMMA CompareProceeds ==
    ASSUME TransferInv, NEW t \in Transfers, Compare(t), ~Refuse(t), transfer[t].kind = "merge"
    PROVE  /\ Proceeds(t) /\ Quiet
           /\ transfer'[t].at = "check source"
           /\ \A p \in Adds(transfer'[t]) : target.files[p] = 0
  <1> DEFINE x == transfer[t]
             y == transfer'[t]
  <1>1. /\ x.at = "read again" /\ OthersWait(t) /\ DOMAIN y = Fields
        /\ y.kind = x.kind /\ y.at = "check source" /\ y.read = <<>>
        /\ y.found = x.found /\ y.archive = x.archive /\ y.made = x.made
        /\ y.add = Lacks(x.read)
    BY ComparedIs
  <1>2. x.kind = "merge" /\ y.kind = "merge"
    BY <1>1
  <1>3. SourceIsSeen(x, source, past["source"]) /\ Orderly(x) /\ Shaped(x, content)
    BY SeenIs, ItselfIs
  <1>4. OtherMerges(t) = {} => TargetIsSeen(x, target.files, past["target"])
    BY SeenIs
  <1>5. /\ x.read \in Numbers(content) /\ content \in Nat
        /\ \A g : /\ ReadBehind(x.read, g) <=> Behind(x.read, g)
                  /\ ReadAhead(g, x.read) <=> Behind(g, x.read)
    BY ReadIs, ItselfIs DEF Compare
  <1> HIDE DEF x, y
  <1>6. y.add \in Numbers(content)
    <2>1. x.read \in Numbers(content) /\ 0 \in 0 .. content
      BY <1>5
    <2>2. Lacks(x.read) \in Numbers(content)
      BY <2>1 DEF Lacks, Numbers
    <2>3. QED
      BY <1>1, <2>2
  <1>7. Shaped(y, content)
    BY <1>1, <1>3, <1>5, <1>6, EmptyIsShaped DEF Shaped
  <1>8. Orderly(y)
    BY <1>1, <1>2, <1>3 DEF Orderly, FitsAt, PlanPlaces
  <1>9. \A p \in Adds(y) : y.add[p] = x.read[p] /\ target.files[p] = 0
    BY <1>1 DEF Adds, Lacks
  <1>10. \A f \in Numbers(content) : \A p \in Names : f[p] \in Nat
    BY DEF Numbers
  <1>11. Behind(y.add, source)
    <2>1. Behind(x.read, source)
      BY <1>1, <1>3, <1>5 DEF SourceIsSeen
    <2>2. \A p \in Names : y.add[p] = x.read[p] \/ y.add[p] = 0
      BY <1>1 DEF Lacks
    <2>3. QED
      BY <1>10, <2>1, <2>2, SeenIs DEF Behind
  <1>12. SourceIsSeen(y, source, past["source"])
    <2>1. PICK f \in past["source"] :
            Behind(x.found["source"], f) /\ Behind(f, source) /\ ReadAhead(f, x.read)
      BY <1>1, <1>3 DEF SourceIsSeen
    <2>2. \A p \in Adds(y) : f[p] <= y.add[p]
      BY <1>5, <1>9, <2>1 DEF Behind, Adds
    <2>3. y.archive["source"] = NoArchive
      BY <1>1, <1>3 DEF SourceIsSeen
    <2>4. QED
      BY <1>1, <1>11, <2>1, <2>2, <2>3, NothingRead DEF SourceIsSeen
  <1>13. OtherMerges(t) = {} => TargetIsSeen(y, target.files, past["target"])
    BY <1>1, <1>2, <1>4 DEF TargetIsSeen
  <1>14. QED
    BY <1>1, <1>7, <1>8, <1>9, <1>12, <1>13, ComparedIs DEF Proceeds, x, y

-----------------------------------------------------------------------------
(* A process has another archive.                                          *)
Archived(x, y, h) ==
    /\ DOMAIN y = Fields
    /\ y.kind = x.kind /\ y.read = <<>> /\ y.found = x.found /\ y.add = x.add
    /\ y.made = x.made
    /\ y.archive[h] = x.found[h] /\ \A g \in Homes \ {h} : y.archive[g] = x.archive[g]

LEMMA ArchiveIs ==
    ASSUME TransferInv, NEW t \in Transfers, NEW h \in Homes, NEW at, NEW next,
           Archive(t, at, h, next)
    PROVE  /\ transfer[t].at = at /\ OthersWait(t)
           /\ Archived(transfer[t], transfer'[t], h)
           /\ transfer'[t].at = next
           /\ Shaped(transfer'[t], content)
           /\ transfer[t].read = transfer[t].found[h]
           /\ transfer[t].found[h] \in Numbers(content)
  <1> DEFINE x == transfer[t]
             archive == [x.archive EXCEPT ![h] = x.found[h]]
             y == [x EXCEPT !.archive[h] = x.found[h], !.read = <<>>, !.at = next]
  <1>1. DOMAIN x = Fields /\ x.at = at /\ x.read = x.found[h]
    BY ItselfIs, ReadIs DEF Archive, AsFound
  <1>2. /\ DOMAIN y = Fields /\ y.kind = x.kind /\ y.at = next /\ y.read = <<>> /\ y.add = x.add
        /\ y.found = x.found /\ y.made = x.made /\ y.archive = archive
    BY <1>1 DEF Fields
  <1>3. transfer'[t] = y /\ OthersWait(t)
    BY BecomeIs DEF TransferInv, Archive
  <1> HIDE DEF y
  <1>4. x.found[h] \in Numbers(content)
    BY ItselfIs DEF Shaped
  <1>5. archive \in [Homes -> Numbers(content) \cup {NoArchive}]
    BY <1>4, ItselfIs DEF Shaped
  <1>6. archive[h] = x.found[h] /\ \A g \in Homes \ {h} : archive[g] = x.archive[g]
    BY ItselfIs DEF Shaped
  <1>7. Shaped(y, content)
    BY <1>2, <1>5, ItselfIs, EmptyIsShaped DEF Shaped
  <1>8. QED
    BY <1>1, <1>2, <1>3, <1>4, <1>6, <1>7 DEF Archived

LEMMA OrderIs == \A m, n \in Nat : m <= n /\ n <= m => m = n
  OBVIOUS

(* Files that lie between two equal readings are what was read.            *)
LEMMA BetweenIs ==
    ASSUME NEW c \in Nat, NEW f \in Numbers(c), NEW g \in Numbers(c), Behind(f, g), Behind(g, f)
    PROVE  f = g
  <1>1. \A p \in Names : f[p] \in Nat /\ g[p] \in Nat
    BY DEF Numbers
  <1>2. \A p \in Names : f[p] = g[p]
    BY <1>1 DEF Behind
  <1>3. QED
    BY <1>2 DEF Numbers

LEMMA NotNothing == ASSUME NEW c \in Nat, NEW f \in Numbers(c) PROVE f # NoArchive
  <1>1. Len(f) = Last /\ Last > 0
    BY NumbersAreSequences, LastIs
  <1>2. Len(<<>>) = 0
    OBVIOUS
  <1>3. QED
    BY <1>1, <1>2 DEF NoArchive

LEMMA SourceIsArchived ==
    ASSUME TransferInv, NEW t \in Transfers, NEW next,
           Archive(t, "check source", "source", next),
           \/ transfer[t].kind = "migrate" /\ next = "take archive"
           \/ transfer[t].kind = "merge" /\ next = "check target"
    PROVE  Proceeds(t) /\ Adds(transfer'[t]) = Adds(transfer[t]) /\ transfer'[t].at = next
  <1> DEFINE x == transfer[t]
             y == transfer'[t]
             a == x.found["source"]
  <1>1. /\ x.at = "check source" /\ OthersWait(t) /\ y.at = next /\ Shaped(y, content)
        /\ Archived(x, y, "source") /\ x.read = a /\ a \in Numbers(content)
    BY ArchiveIs DEF Homes
  <1>2. /\ y.kind = x.kind /\ y.read = <<>> /\ y.found = x.found /\ y.add = x.add
        /\ y.made = x.made /\ y.archive["source"] = a
        /\ y.archive["target"] = x.archive["target"]
        /\ \/ x.kind = "migrate" /\ next = "take archive"
           \/ x.kind = "merge" /\ next = "check target"
    BY <1>1 DEF Archived, Homes
  <1>3. SourceIsSeen(x, source, past["source"]) /\ Orderly(x) /\ Shaped(x, content)
    BY SeenIs, ItselfIs
  <1>4. OtherMerges(t) = {} => TargetIsSeen(x, target.files, past["target"])
    BY SeenIs
  <1>5. content \in Nat /\ \A g : ReadAhead(g, a) <=> Behind(g, a)
    BY <1>1, ReadIs, ItselfIs DEF Archive
  <1> HIDE DEF x, y, a
  <1>6. PICK f \in past["source"] :
          /\ Behind(a, f) /\ ReadAhead(f, a)
          /\ x.kind = "merge" => \A p \in Adds(x) : f[p] <= x.add[p]
    BY <1>1, <1>3 DEF SourceIsSeen, a
  <1>7. f \in Numbers(content)
    BY SeenIs
  <1>8. a = f
    BY <1>1, <1>5, <1>6, <1>7, BetweenIs
  <1>9. Adds(y) = Adds(x)
    BY <1>2 DEF Adds
  <1>10. a # NoArchive
    BY <1>1, <1>5, NotNothing
  <1>11. Orderly(y)
    BY <1>1, <1>2, <1>3, <1>9, <1>10 DEF Orderly, FitsAt, PlanPlaces
  <1>12. x.kind = "merge" => \A p \in Adds(x) : x.add[p] = a[p]
    <2>1. SUFFICES ASSUME x.kind = "merge", NEW p \in Adds(x) PROVE x.add[p] = a[p]
      OBVIOUS
    <2>2. a[p] <= x.add[p]
      BY <1>6, <1>8, <2>1
    <2>3. Behind(x.add, a)
      BY <1>1, <1>3, <1>5, <2>1 DEF SourceIsSeen
    <2>4. p \in Names
      BY <2>1 DEF Adds
    <2>5. x.add \in [Names -> Nat] /\ a \in [Names -> Nat]
      BY <1>1, <1>3, <1>5, NumbersAre DEF Shaped
    <2>6. x.add[p] \in Nat /\ a[p] \in Nat
      BY <2>4, <2>5
    <2>7. x.add[p] <= a[p]
      BY <2>3, <2>4 DEF Behind
    <2>8. QED
      BY <2>2, <2>6, <2>7, OrderIs, Zenon
  <1>13. SourceIsSeen(y, source, past["source"])
    <2>1. y.at \in {"take archive", "check target"}
      BY <1>1, <1>2
    <2>2. y.archive["source"] \in past["source"]
      BY <1>2, <1>6, <1>8
    <2>3. y.kind = "merge" => \A p \in Adds(y) : y.add[p] = y.archive["source"][p]
      BY <1>2, <1>9, <1>12
    <2>4. QED
      BY <2>1, <2>2, <2>3 DEF SourceIsSeen
  <1>14. ASSUME OtherMerges(t) = {} PROVE TargetIsSeen(y, target.files, past["target"])
    BY <1>1, <1>2, <1>4, <1>14, NothingRead DEF TargetIsSeen
  <1>15. QED
    BY <1>1, <1>2, <1>9, <1>11, <1>13, <1>14 DEF Proceeds, x, y

LEMMA TargetIsArchived ==
    ASSUME TransferInv, NEW t \in Transfers, transfer[t].kind = "merge",
           Archive(t, "check target", "target", "source again")
    PROVE  Proceeds(t) /\ Adds(transfer'[t]) = Adds(transfer[t]) /\ transfer'[t].at = "source again"
  <1> DEFINE x == transfer[t]
             y == transfer'[t]
             a == x.found["target"]
  <1>1. /\ x.at = "check target" /\ OthersWait(t) /\ y.at = "source again" /\ Shaped(y, content)
        /\ Archived(x, y, "target") /\ x.read = a /\ a \in Numbers(content)
    BY ArchiveIs DEF Homes
  <1>2. /\ y.kind = x.kind /\ y.read = <<>> /\ y.found = x.found /\ y.add = x.add
        /\ y.made = x.made /\ y.archive["target"] = a
        /\ y.archive["source"] = x.archive["source"] /\ x.kind = "merge"
    BY <1>1 DEF Archived, Homes
  <1>3. SourceIsSeen(x, source, past["source"]) /\ Orderly(x)
    BY SeenIs, ItselfIs
  <1>4. OtherMerges(t) = {} => TargetIsSeen(x, target.files, past["target"])
    BY SeenIs
  <1>5. content \in Nat /\ \A g : ReadAhead(g, a) <=> Behind(g, a)
    BY <1>1, ReadIs, ItselfIs DEF Archive
  <1> HIDE DEF x, y, a
  <1>6. Adds(y) = Adds(x)
    BY <1>2 DEF Adds
  <1>7. Orderly(y)
    BY <1>1, <1>2, <1>3, <1>6 DEF Orderly, FitsAt, PlanPlaces
  <1>8. SourceIsSeen(y, source, past["source"])
    BY <1>1, <1>2, <1>3, <1>6 DEF SourceIsSeen
  <1>9. ASSUME OtherMerges(t) = {} PROVE TargetIsSeen(y, target.files, past["target"])
    <2>1. PICK f \in past["target"] : Behind(a, f) /\ ReadAhead(f, a)
      BY <1>1, <1>2, <1>4, <1>9 DEF TargetIsSeen, a
    <2>2. f \in Numbers(content)
      BY SeenIs
    <2>3. a = f
      BY <1>1, <1>5, <2>1, <2>2, BetweenIs
    <2>4. QED
      BY <1>1, <1>2, <2>1, <2>3 DEF TargetIsSeen
  <1>10. QED
    BY <1>1, <1>2, <1>6, <1>7, <1>8, <1>9 DEF Proceeds, x, y

(* A migration puts the archive in place.                                  *)
TakesArchive(t) ==
    /\ At(t, "take archive")
    /\ TargetIsEmpty
    /\ Become(t, [transfer[t] EXCEPT !.add = transfer[t].archive["source"], !.at = "compare line"])

LEMMA ArchiveIsTaken ==
    ASSUME TransferInv, NEW t \in Transfers, TakesArchive(t)
    PROVE  Proceeds(t) /\ transfer'[t].kind = "migrate" /\ transfer'[t].at = "compare line"
  <1> DEFINE x == transfer[t]
             a == x.archive["source"]
             y == [x EXCEPT !.add = a, !.at = "compare line"]
  <1>1. x.at = "take archive" /\ x.kind = "migrate"
    BY ItselfIs DEF TakesArchive, At, FitsAt, RestorePlaces, LinePlaces, Ends, PlanPlaces, PutPlaces,
                    InitPlaces
  <1>2. transfer'[t] = y /\ OthersWait(t)
    BY BecomeIs DEF TransferInv, TakesArchive
  <1>3. a \in Numbers(content)
    BY <1>1, ItselfIs DEF Orderly, Shaped, Homes
  <1> HIDE DEF a
  <1>4. /\ DOMAIN y = Fields /\ y.kind = x.kind /\ y.at = "compare line" /\ y.read = x.read
        /\ y.add = a /\ y.found = x.found /\ y.archive = x.archive /\ y.made = x.made
    BY ItselfIs DEF Fields
  <1>5. SourceIsSeen(x, source, past["source"]) /\ Orderly(x) /\ Shaped(x, content)
    BY SeenIs, ItselfIs
  <1>6. OtherMerges(t) = {} => TargetIsSeen(x, target.files, past["target"])
    BY SeenIs
  <1> HIDE DEF x, y
  <1>7. Shaped(y, content)
    BY <1>3, <1>4, <1>5 DEF Shaped
  <1>8. Orderly(y)
    BY <1>1, <1>4, <1>5 DEF Orderly, FitsAt, LinePlaces, PlanPlaces, Adds
  <1>9. SourceIsSeen(y, source, past["source"])
    BY <1>1, <1>4, <1>5 DEF SourceIsSeen
  <1>10. OtherMerges(t) = {} => TargetIsSeen(y, target.files, past["target"])
    BY <1>1, <1>4, <1>6 DEF TargetIsSeen
  <1>11. QED
    BY <1>1, <1>2, <1>4, <1>7, <1>8, <1>9, <1>10 DEF Proceeds, x

(* The last readings of a merge                                            *)
LEMMA SameSettles ==
    ASSUME TransferInv, NEW t \in Transfers,
           \/ Same(t, "source again", "source", "target again")
           \/ Same(t, "target again", "target", "look")
    PROVE  Settles(t) /\ transfer'[t].at \in {"target again", "look"}
  <1>1. transfer[t].at \in {"source again", "target again"}
    BY DEF Same, HasRead, At
  <1>2. transfer[t].kind = "merge" /\ transfer[t].at # "idle"
    BY <1>1, PutterIs
  <1>3. transfer[t].made = {}
    BY <1>1, ItselfIs DEF Orderly, PlanPlaces
  <1>4. FitsAt("merge", "target again") /\ FitsAt("merge", "look")
    BY DEF FitsAt, PlanPlaces, PutPlaces
  <1>5. ASSUME NEW at \in {"target again", "look"}, GoesOn(t, at) PROVE Settles(t) /\ transfer'[t].at = at
    BY <1>2, <1>3, <1>4, <1>5, GoesOnSettles, GoesOnIs DEF Witnessed, TransferInv
  <1>6. QED
    BY <1>5 DEF Same

-----------------------------------------------------------------------------
(* What a step does to the target: nothing to its files, to take the place *)
(* of an empty home, or to put or to take back what a merge adds.          *)
TargetShape ==
    /\ DOMAIN target' = {"there", "marker", "files"}
    /\ target'.marker \in BOOLEAN
    /\ target'.files \in Numbers(content)

PastGrows ==
    /\ DOMAIN past' = Homes
    /\ past'["source"] = past["source"]
    /\ past'["target"] = past["target"] \cup {target'.files}

FilesKept == target'.files = target.files /\ past' = past

HomeReplaced == TargetIsEmpty /\ PastGrows

FilesTouched(t) ==
    /\ transfer[t].kind = "merge"
    /\ \A p \in Names \ Adds(transfer[t]) : target'.files[p] = target.files[p]
    /\ PastGrows

HomeStep(t) == TargetShape /\ (FilesKept \/ HomeReplaced \/ FilesTouched(t))

(* What a step leaves of the process itself                                *)
Progress(t) ==
    LET x == transfer[t]
        y == transfer'[t]
    IN
    /\ OthersWait(t)
    /\ y.kind = x.kind \/ x.at = "idle"
    /\ Shaped(y, content) /\ Orderly(y)
    /\ SourceIsSeen(y, source, past'["source"])
    /\ OtherMerges(t) = {} => TargetIsSeen(y, target'.files, past'["target"])

Carried(t) ==
    LET y == transfer'[t] IN
    /\ Carries(y) /\ (OtherMerges(t) = {} \/ ~TookBack) => Behind(y.add, target'.files)
    /\ Carries(y) /\ ~TookBack => \A m \in Transfers \ {t} : transfer[m].kind = "merge" =>
                        Adds(y) \cap Adds(transfer[m]) = {}
    /\ y.kind = "merge" /\ ~TookBack => \A u \in Transfers \ {t} : Carries(transfer[u]) =>
                              Adds(y) \cap Adds(transfer[u]) = {}
    /\ y.kind = "merge" /\ y.at = "done" /\ OtherMerges(t) = {} => Behind(y.add, target'.files)

LEMMA IdleIs ==
    ASSUME TransferInv, NEW t \in Transfers, transfer[t].at = "idle"
    PROVE  transfer[t].kind = "none"
  BY ItselfIs DEF FitsAt, RestorePlaces, LinePlaces, Ends, PlanPlaces, PutPlaces, InitPlaces

(* A merge stays one.                                                      *)
LEMMA MergesStay ==
    ASSUME TransferInv, NEW t \in Transfers, OthersWait(t),
           transfer'[t].kind = transfer[t].kind \/ transfer[t].at = "idle"
    PROVE  /\ \A u \in Transfers : transfer[u].kind = "merge" => transfer'[u].kind = "merge"
           /\ \A u \in Transfers : OtherMerges(u) \subseteq OtherMerges(u)'
           /\ OtherMerges(t)' = OtherMerges(t)
  <1>1. ASSUME NEW u \in Transfers, transfer[u].kind = "merge" PROVE transfer'[u].kind = "merge"
    BY <1>1, IdleIs DEF OthersWait
  <1>2. \A u \in Transfers : OtherMerges(u) \subseteq OtherMerges(u)'
    BY <1>1 DEF OtherMerges
  <1>3. OtherMerges(t)' = OtherMerges(t)
    BY DEF OtherMerges, OthersWait
  <1>4. QED
    BY <1>1, <1>2, <1>3

(* What the lemmas below suppose of the markers; MarkersKept shows it.     *)
MarkersGoOn == (TookBack => TookBack') /\ MarkersStay'

LEMMA TypesStay ==
    ASSUME TransferInv, NEW t \in Transfers, HomeStep(t), Progress(t),
           UNCHANGED <<source, content>>
    PROVE  TransferTypes'
  <1>1. TransferTypes
    BY DEF TransferInv
  <1>2. TargetShape
    BY DEF HomeStep
  <1>3. (past' = past /\ target'.files = target.files) \/ PastGrows
    BY DEF HomeStep, FilesKept, HomeReplaced, FilesTouched
  <1>4. /\ DOMAIN past' = Homes
        /\ past'["source"] \subseteq Numbers(content) /\ past'["target"] \subseteq Numbers(content)
        /\ source \in past'["source"] /\ target'.files \in past'["target"]
    BY <1>1, <1>2, <1>3 DEF TransferTypes, PastGrows, TargetShape
  <1>5. DOMAIN transfer' = Transfers /\ \A u \in Transfers : Shaped(transfer'[u], content)
    BY <1>1 DEF TransferTypes, Progress, OthersWait
  <1>6. QED
    BY <1>1, <1>2, <1>4, <1>5 DEF TransferTypes, TargetShape

LEMMA NoneIsBehind == ASSUME NEW c \in Nat, NEW f \in Numbers(c) PROVE Behind(None, f)
  <1>1. \A p \in Names : f[p] \in Nat
    BY DEF Numbers
  <1>2. QED
    BY <1>1 DEF Behind, None

(* The others have seen what they have seen.                               *)
LEMMA OthersHaveSeen ==
    ASSUME TransferInv, NEW t \in Transfers, HomeStep(t), Progress(t),
           UNCHANGED <<source, content>>, NEW u \in Transfers \ {t}
    PROVE  /\ SourceIsSeen(transfer'[u], source', past'["source"])
           /\ OtherMerges(u)' = {} => TargetIsSeen(transfer'[u], target'.files, past'["target"])
  <1>1. transfer'[u] = transfer[u] /\ past'["source"] = past["source"]
    BY DEF Progress, OthersWait, HomeStep, FilesKept, HomeReplaced, FilesTouched, PastGrows
  <1>2. SourceIsSeen(transfer'[u], source', past'["source"])
    BY <1>1, SeenIs
  <1>3. ASSUME OtherMerges(u)' = {} PROVE TargetIsSeen(transfer'[u], target'.files, past'["target"])
    <2>1. OtherMerges(u) = {}
      BY <1>3, MergesStay DEF Progress
    <2>2. TargetIsSeen(transfer[u], target.files, past["target"])
      BY <2>1, SeenIs
    <2>3. CASE FilesKept
      BY <1>1, <2>2, <2>3 DEF FilesKept
    <2>4. CASE HomeReplaced
      <3>1. target.files = None /\ target'.files \in Numbers(content) /\ content \in Nat
        BY <2>4, ItselfIs DEF HomeReplaced, TargetIsEmpty, HomeStep, TargetShape
      <3>2. Behind(target.files, target'.files)
        BY <3>1, NoneIsBehind
      <3>3. past["target"] \in SUBSET [Names -> Nat] /\ past["target"] \subseteq past'["target"]
        BY <2>4, <3>1, SeenIs, NumbersAre DEF HomeReplaced, PastGrows
      <3>4. target.files \in [Names -> Nat] /\ target'.files \in [Names -> Nat]
        BY <3>1, SeenIs, NumbersAre
      <3>5. Shaped(transfer[u], content)
        BY ItselfIs
      <3>6. TargetIsSeen(transfer[u], target'.files, past'["target"])
        BY <2>2, <3>1, <3>2, <3>3, <3>4, <3>5, SeenAsFilesGrow
      <3>7. QED
        BY <1>1, <3>6
    <2>5. CASE FilesTouched(t)
      <3>1. t \in OtherMerges(u)
        BY <2>5 DEF FilesTouched, OtherMerges
      <3>2. QED
        BY <2>1, <3>1
    <2>6. QED
      BY <2>3, <2>4, <2>5 DEF HomeStep
  <1>4. QED
    BY <1>2, <1>3

LEMMA TargetIs ==
    ASSUME TransferInv
    PROVE  /\ DOMAIN target = {"there", "marker", "files"}
           /\ target.marker \in BOOLEAN /\ target.files \in Numbers(content)
           /\ DOMAIN past = Homes /\ content \in Nat
  BY DEF TransferInv, TransferTypes

(* What others have carried stays.                                         *)
LEMMA CarriedIs ==
    ASSUME TransferInv, NEW u \in Transfers
    PROVE  /\ Carries(transfer[u]) => target.marker
           /\ ~TookBack /\ transfer[u].kind = "merge" => target.marker
           /\ Carries(transfer[u]) /\ (OtherMerges(u) = {} \/ ~TookBack) =>
                Behind(transfer[u].add, target.files)
           /\ Carries(transfer[u]) /\ ~TookBack =>
                \A m \in Transfers : transfer[m].kind = "merge" =>
                  Adds(transfer[u]) \cap Adds(transfer[m]) = {}
           /\ transfer[u].kind = "merge" /\ transfer[u].at = "done" /\ OtherMerges(u) = {} =>
                Behind(transfer[u].add, target.files)
  BY DEF TransferInv, CarriedStays, MarkersStay

LEMMA BehindGoesOn ==
    ASSUME NEW f \in [Names -> Nat], NEW g \in [Names -> Nat], NEW h \in [Names -> Nat],
           Behind(f, g), Behind(g, h)
    PROVE  Behind(f, h)
  BY DEF Behind

LEMMA OthersStay ==
    ASSUME TransferInv, NEW t \in Transfers, HomeStep(t), Progress(t), MarkersGoOn,
           UNCHANGED <<source, content>>, NEW u \in Transfers \ {t}
    PROVE  /\ Carries(transfer[u]) /\ (OtherMerges(u)' = {} \/ ~TookBack') =>
                Behind(transfer[u].add, target'.files)
           /\ transfer[u].kind = "merge" /\ transfer[u].at = "done" /\ OtherMerges(u)' = {} =>
                Behind(transfer[u].add, target'.files)
  <1>1. OtherMerges(u)' = {} => OtherMerges(u) = {}
    BY MergesStay DEF Progress
  <1>2. ~TookBack' => ~TookBack
    BY DEF MarkersGoOn
  <1>3. CASE FilesKept
    BY <1>1, <1>2, <1>3, CarriedIs DEF FilesKept
  <1>4. CASE HomeReplaced
    <2>1. ~Carries(transfer[u])
      BY <1>4, CarriedIs DEF HomeReplaced, TargetIsEmpty
    <2>2. ASSUME Behind(transfer[u].add, target.files) PROVE Behind(transfer[u].add, target'.files)
      <3>1. /\ target.files = None /\ target'.files \in Numbers(content) /\ content \in Nat
            /\ transfer[u].add \in Numbers(content) /\ target.files \in Numbers(content)
        BY <1>4, ItselfIs, TargetIs DEF HomeReplaced, TargetIsEmpty, HomeStep, TargetShape, Shaped
      <3>2. Behind(target.files, target'.files)
        BY <3>1, NoneIsBehind
      <3>3. QED
        BY <2>2, <3>1, <3>2, NumbersAre, BehindGoesOn
    <2>3. QED
      BY <1>1, <2>1, <2>2, CarriedIs
  <1>5. CASE FilesTouched(t)
    <2>1. t \in OtherMerges(u) /\ OtherMerges(u)' # {}
      BY <1>1, <1>5 DEF FilesTouched, OtherMerges
    <2>2. ASSUME Carries(transfer[u]), ~TookBack' PROVE Behind(transfer[u].add, target'.files)
      <3>1. Behind(transfer[u].add, target.files) /\ Adds(transfer[u]) \cap Adds(transfer[t]) = {}
        BY <1>2, <1>5, <2>2, CarriedIs DEF FilesTouched
      <3>2. \A p \in Names : target'.files[p] \in Nat
        BY ItselfIs, NumbersAre DEF HomeStep, TargetShape
      <3>3. ASSUME NEW p \in Names PROVE transfer[u].add[p] <= target'.files[p]
        <4>1. CASE p \in Adds(transfer[u])
          BY <1>5, <3>1, <4>1 DEF FilesTouched, Behind
        <4>2. CASE transfer[u].add[p] = 0
          BY <3>2, <4>2
        <4>3. QED
          BY <4>1, <4>2 DEF Adds
      <3>4. QED
        BY <3>3 DEF Behind
    <2>3. QED
      BY <2>1, <2>2
  <1>6. QED
    BY <1>3, <1>4, <1>5 DEF HomeStep

LEMMA CarriedStaysOn ==
    ASSUME TransferInv, NEW t \in Transfers, HomeStep(t), Progress(t), Carried(t), MarkersGoOn,
           UNCHANGED <<source, content>>
    PROVE  CarriedStays'
  <1>1. OtherMerges(t)' = OtherMerges(t)
    BY MergesStay DEF Progress
  <1>2. \A u \in Transfers \ {t} : transfer'[u] = transfer[u]
    BY DEF Progress, OthersWait
  <1>3. ~TookBack' => ~TookBack
    BY DEF MarkersGoOn
  <1>4. ASSUME NEW u \in Transfers
        PROVE  /\ Carries(transfer'[u]) /\ (OtherMerges(u)' = {} \/ ~TookBack') =>
                    Behind(transfer'[u].add, target'.files)
               /\ transfer'[u].kind = "merge" /\ transfer'[u].at = "done" /\ OtherMerges(u)' = {} =>
                    Behind(transfer'[u].add, target'.files)
    <2>1. CASE u = t
      BY <1>1, <1>3, <2>1 DEF Carried
    <2>2. CASE u # t
      BY <1>2, <2>2, OthersStay
    <2>3. QED
      BY <2>1, <2>2
  <1>5. ASSUME NEW u \in Transfers, Carries(transfer'[u]), ~TookBack', NEW m \in Transfers,
               transfer'[m].kind = "merge"
        PROVE  Adds(transfer'[u]) \cap Adds(transfer'[m]) = {}
    <2>1. CASE u = t /\ m = t
      BY <1>5, <2>1 DEF Carries
    <2>2. CASE u = t /\ m # t
      BY <1>2, <1>3, <1>5, <2>2 DEF Carried
    <2>3. CASE u # t /\ m = t
      BY <1>2, <1>3, <1>5, <2>3 DEF Carried
    <2>4. CASE u # t /\ m # t
      BY <1>2, <1>3, <1>5, <2>4, CarriedIs
    <2>5. QED
      BY <2>1, <2>2, <2>3, <2>4
  <1>6. QED
    BY <1>4, <1>5 DEF CarriedStays

LEMMA StepKeeps ==
    ASSUME TransferInv, NEW t \in Transfers, HomeStep(t), Progress(t), Carried(t), MarkersGoOn,
           UNCHANGED <<source, content>>
    PROVE  TransferInv'
  <1>1. TransferTypes'
    BY TypesStay
  <1>2. ASSUME NEW u \in Transfers PROVE Orderly(transfer'[u])
    BY ItselfIs DEF Progress, OthersWait
  <1>3. ASSUME NEW u \in Transfers
        PROVE  /\ SourceIsSeen(transfer'[u], source', past'["source"])
               /\ OtherMerges(u)' = {} => TargetIsSeen(transfer'[u], target'.files, past'["target"])
    <2>1. CASE u = t
      <3>1. OtherMerges(t)' = OtherMerges(t)
        BY MergesStay DEF Progress
      <3>2. QED
        BY <2>1, <3>1 DEF Progress
    <2>2. CASE u # t
      BY <2>2, OthersHaveSeen
    <2>3. QED
      BY <2>1, <2>2
  <1>4. CarriedStays'
    BY CarriedStaysOn
  <1>5. QED
    BY <1>1, <1>2, <1>3, <1>4 DEF TransferInv, MarkersGoOn

-----------------------------------------------------------------------------
(* What each step does to the target                                       *)
LEMMA QuietIs ==
    ASSUME TransferInv, NEW t, UNCHANGED <<target, past>>
    PROVE  HomeStep(t)
  BY TargetIs DEF HomeStep, TargetShape, FilesKept

LEMMA HoldsIs ==
    ASSUME TransferInv, NEW home, Holds(home)
    PROVE  target' = home /\ PastGrows /\ UNCHANGED <<source, content>>
  BY TargetIs DEF Holds, PastGrows, Homes

LEMMA DirectoryIs ==
    ASSUME TransferInv, NEW t, NEW there, target' = [target EXCEPT !.there = there], past' = past
    PROVE  HomeStep(t) /\ target'.marker = target.marker /\ target'.files = target.files
  BY TargetIs DEF HomeStep, TargetShape, FilesKept

LEMMA MarkerIs ==
    ASSUME TransferInv, NEW t, NEW marker \in BOOLEAN,
           target' = [target EXCEPT !.marker = marker], past' = past
    PROVE  HomeStep(t)
  BY TargetIs DEF HomeStep, TargetShape, FilesKept

LEMMA FileIs ==
    ASSUME TransferInv, NEW t \in Transfers, transfer[t].kind = "merge",
           NEW p \in Adds(transfer[t]), NEW v \in 0 .. content,
           NEW home, DOMAIN home = {"there", "marker", "files"}, home.marker = target.marker,
           home.files = [target.files EXCEPT ![p] = v], Holds(home)
    PROVE  HomeStep(t) /\ UNCHANGED <<source, content>>
  <1> DEFINE files == [target.files EXCEPT ![p] = v]
  <1>1. files \in Numbers(content) /\ \A q \in Names \ {p} : files[q] = target.files[q]
    BY TargetIs DEF Numbers
  <1> HIDE DEF files
  <1>2. target' = home /\ PastGrows /\ UNCHANGED <<source, content>>
    BY HoldsIs
  <1>3. home.files = files
    BY DEF files
  <1>4. QED
    BY <1>1, <1>2, <1>3, TargetIs DEF HomeStep, TargetShape, FilesTouched

LEMMA ReplacedIs ==
    ASSUME TransferInv, NEW t, NEW there, NEW marker \in BOOLEAN, NEW files \in Numbers(content),
           TargetIsEmpty, Holds([there |-> there, marker |-> marker, files |-> files])
    PROVE  /\ HomeStep(t) /\ UNCHANGED <<source, content>>
           /\ target'.marker = marker /\ target'.files = files
  BY HoldsIs DEF HomeStep, TargetShape, HomeReplaced

-----------------------------------------------------------------------------
(* The invariant after the steps of each kind                              *)
LEMMA UnloadedIsCarried ==
    ASSUME TransferInv, MarkersGoOn, NEW t \in Transfers, HomeStep(t),
           ~Carries(transfer'[t]), transfer'[t].at # "done",
           transfer'[t].kind = "merge" =>
             transfer[t].kind = "merge" /\ Adds(transfer'[t]) \subseteq Adds(transfer[t])
    PROVE  Carried(t)
  <1>1. ASSUME transfer'[t].kind = "merge", ~TookBack, NEW u \in Transfers \ {t},
               Carries(transfer[u])
        PROVE  Adds(transfer'[t]) \cap Adds(transfer[u]) = {}
    <2>1. Adds(transfer[u]) \cap Adds(transfer[t]) = {}
      BY <1>1, CarriedIs
    <2>2. QED
      BY <1>1, <2>1
  <1>2. QED
    BY <1>1 DEF Carried

LEMMA ProceedsKeeps ==
    ASSUME TransferInv, MarkersGoOn, NEW t \in Transfers, Proceeds(t), Quiet, Carried(t)
    PROVE  TransferInv'
  <1>1. HomeStep(t)
    BY QuietIs DEF Quiet
  <1>2. Progress(t)
    BY DEF Proceeds, Progress, Quiet
  <1>3. QED
    BY <1>1, <1>2, StepKeeps DEF Quiet

LEMMA SettlesKeeps ==
    ASSUME TransferInv, MarkersGoOn, NEW t \in Transfers, Settles(t), HomeStep(t), Carried(t),
           UNCHANGED <<source, content>>
    PROVE  TransferInv'
  <1>1. past["source"] \subseteq past'["source"] /\ past["target"] \subseteq past'["target"]
    BY DEF HomeStep, FilesKept, HomeReplaced, FilesTouched, PastGrows
  <1>2. Progress(t)
    BY <1>1, SettledIsSeen DEF Settles, Progress
  <1>3. QED
    BY <1>2, StepKeeps

LEMMA UnloadedKeeps ==
    ASSUME TransferInv, MarkersGoOn, NEW t \in Transfers, Settles(t), HomeStep(t),
           UNCHANGED <<source, content>>,
           transfer'[t].at # "done",
           transfer'[t].at # "verify" \/ transfer[t].kind = "initialize"
    PROVE  TransferInv'
  <1>1. ~Carries(transfer'[t]) /\ transfer'[t].at # "done"
    BY DEF Carries, Settles
  <1>2. transfer'[t].kind = "merge" =>
          transfer[t].kind = "merge" /\ Adds(transfer'[t]) \subseteq Adds(transfer[t])
    <2>1. transfer'[t].add = transfer[t].add => Adds(transfer'[t]) = Adds(transfer[t])
      BY DEF Adds
    <2>2. QED
      BY <2>1, NothingAdded DEF Settles
  <1>3. QED
    BY <1>1, <1>2, UnloadedIsCarried, SettlesKeeps

-----------------------------------------------------------------------------
(* One lemma for each step                                                 *)
LEMMA PlaceIs ==
    ASSUME TransferInv, NEW t \in Transfers
    PROVE  /\ \A at : GoesOn(t, at) => transfer'[t].at = at
           /\ \A at : End(t, at) => transfer'[t].at = at
           /\ Fail(t) => transfer'[t].at = "undo"
           /\ Refuse(t) => transfer'[t].at = "failed"
  <1>1. \A at : GoesOn(t, at) => transfer'[t].at = at
    BY GoesOnIs DEF TransferInv
  <1>2. \A at : End(t, at) => transfer'[t].at = at
    BY EndIs DEF TransferInv, Ended
  <1>3. QED
    BY <1>1, <1>2 DEF Fail, Refuse

LEMMA QuietKeeps ==
    ASSUME TransferInv, MarkersGoOn, NEW t \in Transfers, Settles(t), Quiet,
           transfer'[t].at # "done",
           transfer'[t].at # "verify" \/ transfer[t].kind = "initialize"
    PROVE  TransferInv'
  BY QuietIs, UnloadedKeeps DEF Quiet

LEMMA FailKeeps ==
    ASSUME TransferInv, MarkersGoOn, NEW t \in Transfers, Fail(t), transfer[t].at # "idle"
    PROVE  TransferInv'
  BY FailSettles, PlaceIs, QuietKeeps DEF Fail

LEMMA RefuseKeeps ==
    ASSUME TransferInv, MarkersGoOn, NEW t \in Transfers, Refuse(t), transfer[t].at # "idle"
    PROVE  TransferInv'
  BY RefuseSettles, PlaceIs, QuietKeeps DEF Refuse

LEMMA PlanKeeps ==
    ASSUME TransferInv, MarkersGoOn, NEW t \in Transfers, Plan(t)
    PROVE  TransferInv'
  <1>1. /\ Proceeds(t) /\ Quiet /\ ~Carries(transfer'[t]) /\ transfer'[t].at # "done"
        /\ transfer'[t].kind = "merge" => target.marker /\ Adds(transfer'[t]) = {}
    BY PlanProceeds DEF Plan
  <1>2. Carried(t)
    BY <1>1 DEF Carried, Quiet
  <1>3. QED
    BY <1>1, <1>2, ProceedsKeeps

LEMMA ProceedsUnloaded ==
    ASSUME TransferInv, MarkersGoOn, NEW t \in Transfers, Proceeds(t), Quiet,
           transfer[t].at # "idle", Adds(transfer'[t]) = Adds(transfer[t]),
           transfer'[t].at \notin {"verify", "done"}
    PROVE  TransferInv'
  <1>1. HomeStep(t)
    BY QuietIs DEF Quiet
  <1>2. ~Carries(transfer'[t]) /\ transfer'[t].kind = transfer[t].kind
    BY DEF Carries, Proceeds
  <1>3. QED
    BY <1>1, <1>2, UnloadedIsCarried, ProceedsKeeps

LEMMA ReadFileKeeps ==
    ASSUME TransferInv, MarkersGoOn, NEW t \in Transfers, ReadFile(t)
    PROVE  TransferInv'
  <1>1. transfer[t].at \in ReadsSource \cup ReadsTarget /\ Quiet
    BY DEF ReadFile
  <1>2. Proceeds(t) /\ transfer'[t].at = transfer[t].at /\ Adds(transfer'[t]) = Adds(transfer[t])
    BY ReadFileProceeds DEF Keeps, Adds
  <1>3. QED
    BY <1>1, <1>2, ProceedsUnloaded DEF ReadsSource, ReadsTarget

LEMMA FoundChangedKeeps ==
    ASSUME TransferInv, MarkersGoOn, NEW t \in Transfers, NEW h \in Homes, FoundChanged(t, h)
    PROVE  TransferInv'
  BY FoundChangedSettles, PlaceIs, QuietKeeps DEF FoundChanged, Refuse

LEMMA CheckPlanKeeps ==
    ASSUME TransferInv, MarkersGoOn, NEW t \in Transfers, CheckPlan(t)
    PROVE  TransferInv'
  <1>1. Quiet /\ transfer'[t].at \in {"compare line", "failed"}
    BY PlaceIs DEF CheckPlan, Refuse
  <1>2. QED
    BY <1>1, CheckPlanSettles, QuietKeeps

LEMMA CompareLineKeeps ==
    ASSUME TransferInv, MarkersGoOn, NEW t \in Transfers, CompareLine(t)
    PROVE  TransferInv'
  <1>1. Quiet /\ transfer'[t].at \in {"make", "look empty", "write line", "undo"}
    BY PlaceIs DEF CompareLine, AfterLine, Fail
  <1>2. QED
    BY <1>1, CompareLineSettles, QuietKeeps

LEMMA WriteLineKeeps ==
    ASSUME TransferInv, MarkersGoOn, NEW t \in Transfers, WriteLine(t)
    PROVE  TransferInv'
  <1>1. HomeStep(t) /\ transfer'[t].at = "ask git" /\ UNCHANGED <<source, content>>
    BY PlaceIs, QuietIs DEF WriteLine
  <1>2. QED
    BY <1>1, WriteLineSettles, UnloadedKeeps

LEMMA AskGitKeeps ==
    ASSUME TransferInv, MarkersGoOn, NEW t \in Transfers, AskGit(t)
    PROVE  TransferInv'
  <1> DEFINE y == [transfer[t] EXCEPT !.applied = TRUE, !.at = AfterLine(t)]
  <1>1. CASE Become(t, y) /\ Quiet
    <2>1. transfer'[t] = y
      BY <1>1, BecomeIs DEF TransferInv
    <2>2. y.at = AfterLine(t)
      BY ItselfIs DEF Fields
    <2>3. transfer'[t].at \in {"make", "look empty"}
      BY <2>1, <2>2 DEF AfterLine
    <2>4. QED
      BY <1>1, <2>3, AskGitSettles, QuietKeeps
  <1>2. CASE Fail(t)
    BY <1>2, FailKeeps DEF AskGit, At
  <1>3. QED
    BY <1>1, <1>2 DEF AskGit

LEMMA MakeDirectoryKeeps ==
    ASSUME TransferInv, MarkersGoOn, NEW t \in Transfers, MakeDirectory(t)
    PROVE  TransferInv'
  <1> DEFINE makes == transfer[t].unmarked /\ ~target.there
             y == [transfer[t] EXCEPT !.directory = makes,
                                      !.at = IF transfer[t].unmarked THEN "mark" ELSE "verify"]
  <1>1. Become(t, y)
    BY DEF MakeDirectory
  <1>2. transfer'[t] = y
    BY <1>1, BecomeIs DEF TransferInv
  <1>3. y.at \in {"mark", "verify"}
    BY ItselfIs DEF Fields
  <1> HIDE DEF y
  <1>4. transfer[t].kind = "initialize"
    BY ItselfIs DEF MakeDirectory, At, FitsAt, RestorePlaces, LinePlaces, Ends, PlanPlaces, PutPlaces
  <1>5. HomeStep(t) /\ UNCHANGED <<source, content>>
    BY DirectoryIs DEF MakeDirectory
  <1>6. QED
    BY <1>2, <1>3, <1>4, <1>5, MakeDirectorySettles, UnloadedKeeps

LEMMA WriteMarkerKeeps ==
    ASSUME TransferInv, MarkersGoOn, NEW t \in Transfers, WriteMarker(t)
    PROVE  TransferInv'
  <1>1. transfer[t].kind = "initialize" /\ transfer[t].at = "mark"
    BY ItselfIs DEF WriteMarker, At, FitsAt, RestorePlaces, LinePlaces, Ends, PlanPlaces, PutPlaces
  <1>2. CASE Become(t, Marked(t)) /\ target' = [target EXCEPT !.marker = TRUE]
             /\ UNCHANGED <<source, excluded, content, past>>
    <2>1. HomeStep(t) /\ transfer'[t].at = "verify"
      BY <1>2, MarkerIs, MarkedIs
    <2>2. QED
      BY <1>1, <1>2, <2>1, WriteMarkerSettles, UnloadedKeeps
  <1>3. CASE Fail(t)
    BY <1>1, <1>3, FailKeeps
  <1>4. QED
    BY <1>2, <1>3 DEF WriteMarker, Marked

LEMMA VerifyKeeps ==
    ASSUME TransferInv, MarkersGoOn, NEW t \in Transfers, Verify(t)
    PROVE  TransferInv'
  <1> DEFINE x == transfer[t]
             y == transfer'[t]
  <1>1. x.at = "verify" /\ x.kind \in {"initialize", "restore", "migrate"}
    BY LineIsOf DEF Verify, At, LinePlaces
  <1>2. CASE target.marker /\ End(t, "done") /\ Quiet
    <2>1. Ended(x, y, "done") /\ Settles(t)
      BY <1>1, <1>2, EndIs, EndSettles DEF TransferInv
    <2>2. HomeStep(t) /\ UNCHANGED <<source, content, target>>
      BY <1>2, QuietIs DEF Quiet
    <2>3. y.kind = x.kind /\ y.add = x.add /\ Adds(y) = Adds(x)
      BY <2>1 DEF Ended, Adds
    <2>4. Carries(y) => Carries(x)
      BY <1>1, <2>3 DEF Carries
    <2>5. Carried(t)
      BY <1>1, <1>2, <2>2, <2>3, <2>4, CarriedIs DEF Carried
    <2>6. QED
      BY <2>1, <2>2, <2>5, SettlesKeeps
  <1>3. CASE Fail(t)
    BY <1>1, <1>3, FailKeeps
  <1>4. QED
    BY <1>2, <1>3 DEF Verify

LEMMA FindEmptyKeeps ==
    ASSUME TransferInv, MarkersGoOn, NEW t \in Transfers, FindEmpty(t)
    PROVE  TransferInv'
  <1>1. Quiet /\ transfer'[t].at \in {"clear", "undo"}
    BY PlaceIs DEF FindEmpty, Fail
  <1>2. QED
    BY <1>1, ReplacementSettles, QuietKeeps

LEMMA ClearKeeps ==
    ASSUME TransferInv, MarkersGoOn, NEW t \in Transfers, Clear(t)
    PROVE  TransferInv'
  <1>1. CASE /\ TargetIsEmpty /\ GoesOn(t, "replace")
             /\ Holds([there |-> FALSE, marker |-> FALSE, files |-> None])
    <2>1. None \in Numbers(content)
      BY TargetIs, NumbersAreSequences
    <2>2. HomeStep(t) /\ UNCHANGED <<source, content>>
      BY <1>1, <2>1, ReplacedIs
    <2>3. transfer'[t].at = "replace"
      BY <1>1, PlaceIs
    <2>4. QED
      BY <2>2, <2>3, ReplacementSettles, UnloadedKeeps
  <1>2. CASE Fail(t)
    BY <1>2, FailKeeps DEF Clear, At
  <1>3. QED
    BY <1>1, <1>2 DEF Clear, Removable

LEMMA ReplaceKeeps ==
    ASSUME TransferInv, MarkersGoOn, NEW t \in Transfers, Replace(t)
    PROVE  TransferInv'
  <1> DEFINE x == transfer[t]
             y == transfer'[t]
  <1>1. x.at = "replace" /\ x.kind \in {"restore", "migrate"}
    BY ReplacerIs DEF Replace, At, RestorePlaces
  <1>2. CASE /\ TargetIsEmpty /\ Become(t, Marked(t))
             /\ Holds([there |-> TRUE, marker |-> TRUE, files |-> x.add])
    <2>1. x.add \in Numbers(content) /\ content \in Nat
      BY ItselfIs DEF Shaped
    <2>2. /\ HomeStep(t) /\ UNCHANGED <<source, content>>
          /\ target'.marker /\ target'.files = x.add
      BY <1>2, <2>1, ReplacedIs
    <2>3. y.kind = x.kind /\ y.add = x.add
      BY <1>2, MarkedIs DEF Keeps
    <2>4. ~TookBack => \A m \in Transfers : transfer[m].kind # "merge"
      BY <1>2, CarriedIs DEF TargetIsEmpty
    <2>5. Behind(x.add, x.add)
      BY <2>1, BehindItself
    <2>6. Carried(t)
      BY <1>1, <2>2, <2>3, <2>4, <2>5 DEF Carried
    <2>7. Settles(t)
      BY ReplacementSettles
    <2>8. QED
      BY <2>2, <2>6, <2>7, SettlesKeeps
  <1>3. CASE Fail(t)
    BY <1>1, <1>3, FailKeeps
  <1>4. QED
    BY <1>2, <1>3 DEF Replace, Marked

LEMMA MigratesHomeKeeps ==
    ASSUME TransferInv, MarkersGoOn, NEW t \in Transfers, MigratesHome(t)
    PROVE  TransferInv'
  <1>1. CASE Found(t, "collect source", "source", "check source") /\ transfer[t].kind = "migrate"
    <2>1. /\ Proceeds(t) /\ Adds(transfer'[t]) = Adds(transfer[t])
          /\ transfer'[t].at = "check source"
      BY <1>1, SourceIsFound
    <2>2. Quiet /\ transfer[t].at # "idle"
      BY <1>1 DEF Found, HasRead, At
    <2>3. QED
      BY <2>1, <2>2, ProceedsUnloaded
  <1>2. CASE Archive(t, "check source", "source", "take archive") /\ transfer[t].kind = "migrate"
    <2>1. /\ Proceeds(t) /\ Adds(transfer'[t]) = Adds(transfer[t])
          /\ transfer'[t].at = "take archive"
      BY <1>2, SourceIsArchived
    <2>2. Quiet /\ transfer[t].at # "idle"
      BY <1>2 DEF Archive, HasRead, At
    <2>3. QED
      BY <2>1, <2>2, ProceedsUnloaded
  <1>3. CASE TakesArchive(t) /\ Quiet
    <2>1. Proceeds(t) /\ transfer'[t].kind = "migrate" /\ transfer'[t].at = "compare line"
      BY <1>3, ArchiveIsTaken
    <2>2. HomeStep(t)
      BY <1>3, QuietIs DEF Quiet
    <2>3. Carried(t)
      BY <2>1 DEF Carried, Carries
    <2>4. QED
      BY <1>3, <2>1, <2>3, ProceedsKeeps
  <1>4. CASE Refuse(t) /\ At(t, "take archive")
    BY <1>4, RefuseKeeps DEF At
  <1>5. QED
    BY <1>1, <1>2, <1>3, <1>4 DEF MigratesHome, TakesArchive

LEMMA CompareKeeps ==
    ASSUME TransferInv, MarkersGoOn, NEW t \in Transfers, Compare(t), transfer[t].kind = "merge"
    PROVE  TransferInv'
  <1>1. CASE Refuse(t)
    <2>1. transfer[t].at # "idle"
      BY DEF Compare, HasRead, At
    <2>2. QED
      BY <1>1, <2>1, RefuseKeeps
  <1>2. CASE ~Refuse(t)
    <2>1. /\ Proceeds(t) /\ Quiet /\ transfer'[t].at = "check source"
          /\ \A p \in Adds(transfer'[t]) : target.files[p] = 0
      BY <1>2, CompareProceeds
    <2>2. ASSUME NEW u \in Transfers \ {t}, Carries(transfer[u]), ~TookBack
          PROVE  Adds(transfer'[t]) \cap Adds(transfer[u]) = {}
      <3>1. Behind(transfer[u].add, target.files)
        BY <2>2, CarriedIs
      <3>2. transfer[u].add \in Numbers(content) /\ content \in Nat
        BY ItselfIs DEF Shaped
      <3>3. \A p \in Names : transfer[u].add[p] \in Nat
        BY <3>2, NumbersAre
      <3>4. ASSUME NEW p \in Adds(transfer[u]), p \in Adds(transfer'[t]) PROVE FALSE
        <4>1. p \in Names /\ transfer[u].add[p] # 0
          BY DEF Adds
        <4>2. target.files[p] = 0
          BY <2>1, <3>4
        <4>3. transfer[u].add[p] <= 0
          BY <3>1, <4>1, <4>2 DEF Behind
        <4>4. transfer[u].add[p] \in Nat
          BY <3>3, <4>1
        <4>5. \A n \in Nat : n <= 0 => n = 0
          OBVIOUS
        <4>6. QED
          BY <4>1, <4>3, <4>4, <4>5, Zenon
      <3>5. QED
        BY <3>4
    <2>3. Carried(t)
      BY <2>1, <2>2 DEF Carried, Carries
    <2>4. QED
      BY <2>1, <2>3, ProceedsKeeps
  <1>3. QED
    BY <1>1, <1>2

LEMMA PutFileKeeps ==
    ASSUME TransferInv, MarkersGoOn, NEW t \in Transfers, PutFile(t)
    PROVE  TransferInv'
  <1> DEFINE p == NextFile(t)
  <1>1. transfer[t].kind = "merge" /\ p \in Adds(transfer[t]) /\ Settles(t)
    BY PutFileIs
  <1>2. p \in Names
    BY <1>1 DEF Adds
  <1>3. transfer[t].add[p] \in 0 .. content
    BY <1>2, ItselfIs DEF Shaped, Numbers
  <1> DEFINE home == [target EXCEPT !.there = TRUE, !.files[p] = transfer[t].add[p]]
  <1>4. Holds(home)
    BY DEF PutFile
  <1>5. /\ DOMAIN home = {"there", "marker", "files"} /\ home.marker = target.marker
        /\ home.files = [target.files EXCEPT ![p] = transfer[t].add[p]]
    BY TargetIs
  <1> HIDE DEF home, p
  <1>6. HomeStep(t) /\ UNCHANGED <<source, content>>
    BY <1>1, <1>3, <1>4, <1>5, FileIs
  <1>7. transfer'[t].at = "look"
    BY <1>1, MadeIs DEF PutFile, p
  <1>8. QED
    BY <1>1, <1>6, <1>7, UnloadedKeeps

LEMMA RemoveFileKeeps ==
    ASSUME TransferInv, MarkersGoOn, NEW t \in Transfers, RemoveFile(t)
    PROVE  TransferInv'
  <1> DEFINE p == RemovedFile(t)
             y == [transfer[t] EXCEPT !.made = transfer[t].made \ {p}]
  <1>1. transfer[t].kind = "merge" /\ p \in Adds(transfer[t]) /\ Settles(t)
    BY RemoveFileIs
  <1>2. 0 \in 0 .. content
    BY TargetIs
  <1> DEFINE home == [target EXCEPT !.files[p] = 0]
  <1>3. Holds(home) /\ Become(t, y)
    BY DEF RemoveFile, RemovedFile
  <1>4. HomeStep(t) /\ UNCHANGED <<source, content>>
    <2>1. /\ DOMAIN home = {"there", "marker", "files"} /\ home.marker = target.marker
          /\ home.files = [target.files EXCEPT ![p] = 0]
      BY TargetIs
    <2> HIDE DEF home, p
    <2>2. QED
      BY <1>1, <1>2, <1>3, <2>1, FileIs
  <1>5. transfer'[t] = y
    BY <1>3, BecomeIs DEF TransferInv
  <1>6. y.at = "undo"
    BY ItselfIs DEF RemoveFile, At, Fields
  <1>7. QED
    BY <1>1, <1>4, <1>5, <1>6, UnloadedKeeps

LEMMA ConfirmMergeKeeps ==
    ASSUME TransferInv, MarkersGoOn, NEW t \in Transfers, ConfirmMerge(t)
    PROVE  TransferInv'
  <1> DEFINE x == transfer[t]
             y == transfer'[t]
  <1>1. x.at = "confirm" /\ x.kind = "merge"
    BY PutterIs DEF ConfirmMerge, At, PutPlaces
  <1>2. CASE /\ \A p \in x.made : target.files[p] = x.add[p]
             /\ End(t, "done") /\ Quiet
    <2>1. Ended(x, y, "done") /\ Settles(t)
      BY <1>1, <1>2, EndIs, EndSettles DEF TransferInv
    <2>2. HomeStep(t) /\ UNCHANGED <<source, content, target>>
      BY <1>2, QuietIs DEF Quiet
    <2>3. y.kind = "merge" /\ y.add = x.add /\ Adds(y) = Adds(x) /\ y.at = "done"
      BY <1>1, <2>1 DEF Ended, Adds
    <2>4. \A p \in Names : x.add[p] \in Nat /\ target.files[p] \in Nat
      BY ItselfIs, TargetIs, NumbersAre DEF Shaped
    <2>5. ASSUME NEW p \in Names PROVE x.add[p] <= target.files[p]
      <3>1. CASE p \in Adds(x)
        <4>1. p \in x.made
          BY <1>1, <3>1, ItselfIs DEF Orderly
        <4>2. QED
          BY <1>2, <2>4, <4>1
      <3>2. CASE x.add[p] = 0
        BY <2>4, <3>2
      <3>3. QED
        BY <3>1, <3>2 DEF Adds
    <2>6. Behind(y.add, target'.files)
      BY <2>2, <2>3, <2>5 DEF Behind
    <2>7. ASSUME NEW u \in Transfers \ {t}, Carries(transfer[u]), ~TookBack
          PROVE  Adds(y) \cap Adds(transfer[u]) = {}
      BY <1>1, <2>3, <2>7, CarriedIs
    <2>8. Carried(t)
      BY <2>3, <2>6, <2>7 DEF Carried, Carries
    <2>9. QED
      BY <2>1, <2>2, <2>8, SettlesKeeps
  <1>3. CASE Fail(t)
    BY <1>1, <1>3, FailKeeps
  <1>4. QED
    BY <1>2, <1>3 DEF ConfirmMerge

LEMMA RemoveMarkerKeeps ==
    ASSUME TransferInv, MarkersGoOn, NEW t \in Transfers, RemoveMarker(t)
    PROVE  TransferInv'
  <1>1. HomeStep(t) /\ UNCHANGED <<source, content>>
    BY MarkerIs DEF RemoveMarker
  <1>2. QED
    BY <1>1, RemoveMarkerSettles, UnloadedKeeps

LEMMA TakeBackKeeps ==
    ASSUME TransferInv, MarkersGoOn, NEW t \in Transfers, TakeBack(t)
    PROVE  TransferInv'
  <1> DEFINE y == [transfer[t] EXCEPT !.directory = FALSE, !.at = "take line"]
  <1>1. HomeStep(t) /\ UNCHANGED <<source, content>>
    BY DirectoryIs DEF TakeBack
  <1>2. transfer'[t] = y
    BY BecomeIs DEF TransferInv, TakeBack
  <1>3. y.at = "take line"
    BY ItselfIs DEF Fields
  <1>4. QED
    BY <1>1, <1>2, <1>3, TakeBackSettles, UnloadedKeeps

LEMMA OverKeeps ==
    ASSUME TransferInv, MarkersGoOn, NEW t \in Transfers, RestoreLine(t) \/ Die(t)
    PROVE  TransferInv'
  <1>1. transfer'[t].at \in {"failed", "dead"} /\ UNCHANGED <<source, content, target, past>>
    BY PlaceIs DEF RestoreLine, Die, Quiet
  <1>2. HomeStep(t)
    BY <1>1, QuietIs
  <1>3. QED
    BY <1>1, <1>2, OverSettles, UnloadedKeeps

LEMMA MergesKeeps ==
    ASSUME TransferInv, MarkersGoOn, NEW t \in Transfers, Merges(t)
    PROVE  TransferInv'
  <1>1. transfer[t].kind = "merge"
    BY DEF Merges
  <1>2. transfer[t].at # "idle"
    BY <1>1, IdleIs
  <1>3. CASE Found(t, "collect source", "source", "collect target")
    <2>1. /\ Proceeds(t) /\ Adds(transfer'[t]) = Adds(transfer[t])
          /\ transfer'[t].at = "collect target"
      BY <1>1, <1>3, SourceIsFound
    <2>2. QED
      BY <1>2, <1>3, <2>1, ProceedsUnloaded DEF Found
  <1>4. CASE Found(t, "collect target", "target", "read again")
    <2>1. /\ Proceeds(t) /\ Adds(transfer'[t]) = Adds(transfer[t])
          /\ transfer'[t].at = "read again"
      BY <1>1, <1>4, TargetIsFound
    <2>2. QED
      BY <1>2, <1>4, <2>1, ProceedsUnloaded DEF Found
  <1>5. CASE Compare(t)
    BY <1>1, <1>5, CompareKeeps
  <1>6. CASE Archive(t, "check source", "source", "check target")
    <2>1. /\ Proceeds(t) /\ Adds(transfer'[t]) = Adds(transfer[t])
          /\ transfer'[t].at = "check target"
      BY <1>1, <1>6, SourceIsArchived
    <2>2. QED
      BY <1>2, <1>6, <2>1, ProceedsUnloaded DEF Archive
  <1>7. CASE Archive(t, "check target", "target", "source again")
    <2>1. /\ Proceeds(t) /\ Adds(transfer'[t]) = Adds(transfer[t])
          /\ transfer'[t].at = "source again"
      BY <1>1, <1>7, TargetIsArchived
    <2>2. QED
      BY <1>2, <1>7, <2>1, ProceedsUnloaded DEF Archive
  <1>8. CASE \/ Same(t, "source again", "source", "target again")
             \/ Same(t, "target again", "target", "look")
    <2>1. Settles(t) /\ transfer'[t].at \in {"target again", "look"} /\ Quiet
      BY <1>8, SameSettles DEF Same
    <2>2. QED
      BY <2>1, QuietKeeps
  <1>9. CASE LookForFile(t)
    <2>1. Quiet /\ transfer'[t].at \in {"put", "confirm", "undo"}
      BY <1>9, PlaceIs DEF LookForFile, Fail
    <2>2. QED
      BY <1>9, <2>1, LookForFileSettles, QuietKeeps
  <1>10. QED
    BY <1>3, <1>4, <1>5, <1>6, <1>7, <1>8, <1>9, PutFileKeeps, ConfirmMergeKeeps DEF Merges

-----------------------------------------------------------------------------
(* What a step does to the marker and to what its process knows of it      *)
MarkerStep(t) ==
    LET x == transfer[t]
        y == transfer'[t]
    IN
    /\ OthersWait(t)
    /\ y.at \notin Late => x.at \notin Late
    /\ y.kind = "merge" \/ y.at = "done" => x.kind = "merge" \/ target.marker
    /\ Carries(y) => Carries(x) \/ y.marker = "made"
    /\ \/ y.marker = x.marker /\ target'.marker = target.marker
       \/ /\ x.at \notin Late /\ y.at \in Late
          /\ y.marker = "made" /\ ~target.marker /\ target'.marker
       \/ x.marker = "made" /\ y.marker = "taken back" /\ y.at = "undo"

LEMMA MarkersKept ==
    ASSUME TransferInv, NEW t \in Transfers, MarkerStep(t)
    PROVE  MarkersGoOn
  <1> DEFINE x == transfer[t]
             y == transfer'[t]
  <1>1. \A u \in Transfers \ {t} : transfer'[u] = transfer[u]
    BY DEF MarkerStep, OthersWait
  <1>2. MarkersStay
    BY DEF TransferInv
  <1>3. CASE y.marker = x.marker /\ target'.marker = target.marker
    <2>1. \A u \in Transfers : transfer'[u].marker = transfer[u].marker
      BY <1>1, <1>3
    <2>2. TookBack' <=> TookBack
      BY <2>1 DEF TookBack
    <2>3. QED
      BY <1>1, <1>2, <1>3, <2>1, <2>2 DEF MarkersGoOn, MarkersStay, MarkerStep
  <1>4. CASE /\ x.at \notin Late /\ y.at \in Late
             /\ y.marker = "made" /\ ~target.marker /\ target'.marker
    <2>1. x.marker = "not made" /\ \A u \in Transfers : transfer[u].marker # "made"
      BY <1>2, <1>4 DEF MarkersStay
    <2>2. TookBack => TookBack'
      BY <1>1, <2>1 DEF TookBack
    <2>3. QED
      BY <1>1, <1>2, <1>4, <2>1, <2>2 DEF MarkersGoOn, MarkersStay, MarkerStep
  <1>5. CASE x.marker = "made" /\ y.marker = "taken back" /\ y.at = "undo"
    <2>1. \A u \in Transfers \ {t} : transfer[u].marker # "made"
      BY <1>2, <1>5 DEF MarkersStay
    <2>2. TookBack'
      BY <1>5 DEF TookBack
    <2>3. y.at \in Late /\ ~Carries(y)
      BY <1>5 DEF Late, Ends, Carries
    <2>4. QED
      BY <1>1, <1>2, <1>5, <2>1, <2>2, <2>3 DEF MarkersGoOn, MarkersStay
  <1>6. QED
    BY <1>3, <1>4, <1>5 DEF MarkerStep

(* Most steps have nothing to do with it.                                  *)
LEMMA MarkerKept ==
    ASSUME TransferInv, NEW t \in Transfers, NEW y, Become(t, y),
           y.marker = transfer[t].marker, target'.marker = target.marker,
           y.kind = transfer[t].kind \/ target.marker \/ y.kind # "merge",
           y.at \in Late \/ transfer[t].at \notin Late,
           y.at # "done", y.at = "verify" => y.kind = "initialize"
    PROVE  MarkerStep(t)
  <1>1. transfer'[t] = y /\ OthersWait(t)
    BY BecomeIs DEF TransferInv
  <1>2. QED
    BY <1>1 DEF MarkerStep, Carries

LEMMA GoesOnKeepsMarker ==
    ASSUME TransferInv, NEW t \in Transfers, NEW at, GoesOn(t, at), target'.marker = target.marker,
           at \in Late \/ transfer[t].at \notin Late, at \notin {"verify", "done"}
    PROVE  MarkerStep(t)
  <1> DEFINE y == [transfer[t] EXCEPT !.at = at, !.read = <<>>]
  <1>1. y.marker = transfer[t].marker /\ y.kind = transfer[t].kind /\ y.at = at
    BY ItselfIs DEF Fields
  <1>2. Become(t, y)
    BY DEF GoesOn
  <1> HIDE DEF y
  <1>3. QED
    BY <1>1, <1>2, MarkerKept

LEMMA EndKeepsMarker ==
    ASSUME TransferInv, NEW t \in Transfers, NEW at \in {"failed", "dead", "done"}, End(t, at),
           target'.marker = target.marker,
           at = "done" => /\ transfer[t].kind = "merge" \/ target.marker
                          /\ transfer[t].kind \in {"restore", "migrate"} => transfer[t].at = "verify"
    PROVE  MarkerStep(t)
  <1> DEFINE x == transfer[t]
             y == [AtRest EXCEPT !.kind = x.kind, !.at = at, !.archive = x.archive,
                                 !.marker = x.marker,
                                 !.add = IF at = "done" THEN x.add ELSE None]
  <1>1. y.marker = x.marker /\ y.kind = x.kind /\ y.at = at
    BY AtRestIs DEF Fields
  <1>2. Become(t, y)
    BY DEF End
  <1> HIDE DEF y
  <1>3. transfer'[t] = y /\ OthersWait(t)
    BY <1>2, BecomeIs DEF TransferInv
  <1>4. at \in Late
    BY DEF Late, Ends
  <1>5. QED
    BY <1>1, <1>3, <1>4 DEF MarkerStep, Carries

LEMMA FailKeepsMarker ==
    ASSUME TransferInv, NEW t \in Transfers, Fail(t) \/ Refuse(t)
    PROVE  MarkerStep(t)
  <1>1. CASE Fail(t)
    BY <1>1, GoesOnKeepsMarker DEF Fail, Quiet, Late, Ends
  <1>2. CASE Refuse(t)
    BY <1>2, EndKeepsMarker DEF Refuse, Quiet
  <1>3. QED
    BY <1>1, <1>2

LEMMA PlanKeepsMarker ==
    ASSUME TransferInv, NEW t \in Transfers, Plan(t)
    PROVE  MarkerStep(t)
  <1>1. transfer[t].at = "idle" /\ transfer[t].at \notin Late /\ target' = target
    BY DEF Plan, At, Late, Ends, Quiet
  <1>2. transfer[t].marker = "not made"
    BY <1>1 DEF TransferInv, MarkersStay
  <1>3. ASSUME NEW kind, NEW at
        PROVE  /\ Planned(kind, at).marker = "not made" /\ Planned(kind, at).kind = kind
               /\ Planned(kind, at).at = at /\ DOMAIN Planned(kind, at) = Fields
    <2>1. AtRest.marker = "not made"
      BY DEF AtRest
    <2>2. QED
      BY <2>1, AtRestIs DEF Planned, Fields
  <1>4. ASSUME NEW kind, NEW at \in {"check plan", "collect source"}, Become(t, Planned(kind, at)),
               kind # "merge" \/ target.marker
        PROVE  MarkerStep(t)
    <2>1. /\ Planned(kind, at).marker = "not made" /\ Planned(kind, at).kind = kind
          /\ Planned(kind, at).at = at
      BY <1>3, Zenon
    <2>2. PICK y : y = Planned(kind, at)
      OBVIOUS
    <2>3. y.marker = transfer[t].marker /\ y.kind = kind /\ y.at = at
      BY <1>2, <2>1, <2>2
    <2>4. Become(t, y)
      BY <1>4, <2>2
    <2>5. QED
      BY <1>1, <1>4, <2>3, <2>4, MarkerKept
  <1>5. CASE PlanRestore(t)
    <2> DEFINE x == Planned("restore", "compare line")
    <2>1. PICK a \in Archives : Become(t, [x EXCEPT !.add = a])
      BY <1>5 DEF PlanRestore
    <2> DEFINE y == [x EXCEPT !.add = a]
    <2>2. y.marker = "not made" /\ y.kind = "restore" /\ y.at = "compare line"
      <3>1. x.marker = "not made" /\ x.kind = "restore" /\ x.at = "compare line" /\ DOMAIN x = Fields
        BY <1>3
      <3> HIDE DEF x
      <3>2. QED
        BY <3>1 DEF Fields
    <2> HIDE DEF y, x
    <2>3. QED
      BY <1>1, <1>2, <2>1, <2>2, MarkerKept DEF y
  <1>6. QED
    BY <1>4, <1>5 DEF Plan, PlanInitialization, PlanHomeMigration, PlanMerge

(* The steps that read and compare                                         *)
LEMMA ReadingKeepsMarker ==
    ASSUME TransferInv, NEW t \in Transfers,
           \/ ReadFile(t) \/ MigratesHome(t) \/ Compare(t)
           \/ \E h \in Homes, at \in PlanPlaces, next \in PlanPlaces \cup {"look"} :
                Found(t, at, h, next) \/ Archive(t, at, h, next) \/ Same(t, at, h, next)
    PROVE  MarkerStep(t)
  <1> DEFINE x == transfer[t]
  <1>1. DOMAIN x = Fields
    BY ItselfIs
  <1>2. /\ ReadsSource \cup ReadsTarget \subseteq PlanPlaces
        /\ \A at \in PlanPlaces \cup {"take archive", "look", "compare line"} :
             at \notin Late /\ at \notin {"verify", "done"}
    BY DEF ReadsSource, ReadsTarget, PlanPlaces, Late, Ends
  <1>3. ASSUME NEW at \in PlanPlaces \cup {"take archive", "look", "compare line"}, NEW y,
               Become(t, y), y.at = at, y.marker = x.marker, y.kind = x.kind,
               x.at \notin Late, target' = target
        PROVE  MarkerStep(t)
    BY <1>2, <1>3, MarkerKept
  <1>4. CASE ReadFile(t)
    <2> DEFINE files == IF x.at \in ReadsSource THEN source ELSE target.files
               y == [x EXCEPT !.read = Append(x.read, files[Len(x.read) + 1])]
    <2>1. Become(t, y) /\ target' = target /\ x.at \in PlanPlaces
      BY <1>2, <1>4 DEF ReadFile, Quiet
    <2>2. y.at = x.at /\ y.marker = x.marker /\ y.kind = x.kind
      BY <1>1 DEF Fields
    <2> HIDE DEF y
    <2>3. QED
      BY <1>2, <1>3, <2>1, <2>2
  <1>5. ASSUME NEW h \in Homes, NEW at \in PlanPlaces, NEW next \in PlanPlaces \cup {"look", "take archive"},
               Found(t, at, h, next) \/ Archive(t, at, h, next) \/ Same(t, at, h, next)
        PROVE  MarkerStep(t)
    <2>1. x.at = at /\ target' = target
      BY <1>5 DEF Found, Archive, Same, HasRead, At, Quiet
    <2>2. CASE Found(t, at, h, next)
      <3> DEFINE y == [x EXCEPT !.found[h] = x.read, !.read = <<>>, !.at = next,
                                !.unmarked = ~target.marker]
      <3>1. y.at = next /\ y.marker = x.marker /\ y.kind = x.kind
        BY <1>1 DEF Fields
      <3>2. Become(t, y)
        BY <2>2 DEF Found
      <3> HIDE DEF y
      <3>3. QED
        BY <1>2, <1>3, <2>1, <3>1, <3>2
    <2>3. CASE Archive(t, at, h, next)
      <3> DEFINE y == [x EXCEPT !.archive[h] = x.found[h], !.read = <<>>, !.at = next]
      <3>1. y.at = next /\ y.marker = x.marker /\ y.kind = x.kind
        BY <1>1 DEF Fields
      <3>2. Become(t, y)
        BY <2>3 DEF Archive
      <3> HIDE DEF y
      <3>3. QED
        BY <1>2, <1>3, <2>1, <3>1, <3>2
    <2>4. CASE Same(t, at, h, next)
      BY <1>2, <2>1, <2>4, GoesOnKeepsMarker DEF Same
    <2>5. QED
      BY <1>5, <2>2, <2>3, <2>4
  <1>6. CASE MigratesHome(t)
    <2>1. CASE \/ Found(t, "collect source", "source", "check source")
               \/ Archive(t, "check source", "source", "take archive")
      BY <1>5, <2>1 DEF Homes, PlanPlaces
    <2>2. CASE TakesArchive(t) /\ Quiet
      <3> DEFINE y == [x EXCEPT !.add = x.archive["source"], !.at = "compare line"]
      <3>1. y.at = "compare line" /\ y.marker = x.marker /\ y.kind = x.kind
        BY <1>1 DEF Fields
      <3>2. Become(t, y) /\ x.at = "take archive" /\ target' = target
        BY <2>2 DEF TakesArchive, At, Quiet
      <3> HIDE DEF y
      <3>3. QED
        BY <1>2, <1>3, <3>1, <3>2
    <2>3. QED
      BY <1>6, <2>1, <2>2, FailKeepsMarker DEF MigratesHome, TakesArchive
  <1>7. CASE Compare(t)
    <2> DEFINE added == [p \in Names |-> IF p \in {q \in Names : target.files[q] = 0} THEN x.read[p] ELSE 0]
               y == [x EXCEPT !.add = added, !.read = <<>>, !.at = "check source"]
    <2>1. y.at = "check source" /\ y.marker = x.marker /\ y.kind = x.kind
      BY <1>1 DEF Fields
    <2>2. x.at = "read again" /\ x.at \in PlanPlaces /\ "check source" \in PlanPlaces
      BY <1>7 DEF Compare, HasRead, At, PlanPlaces
    <2>3. Refuse(t) \/ (Become(t, y) /\ target' = target)
      BY <1>7 DEF Compare, Quiet
    <2> HIDE DEF y
    <2>4. QED
      BY <1>2, <1>3, <2>1, <2>2, <2>3, FailKeepsMarker
  <1>8. QED
    BY <1>4, <1>5, <1>6, <1>7

(* The steps of an initialization, a restore and a migration               *)
LEMMA MarkingIs ==
    ASSUME TransferInv, NEW t \in Transfers,
           \/ CheckPlan(t) \/ CompareLine(t) \/ WriteLine(t) \/ AskGit(t)
           \/ MakeDirectory(t) \/ WriteMarker(t) \/ Verify(t)
           \/ FindEmpty(t) \/ Clear(t) \/ Replace(t)
    PROVE  MarkerStep(t)
  <1> DEFINE x == transfer[t]
  <1>1. DOMAIN x = Fields
    BY ItselfIs
  <1>2. \A at \in {"check plan", "compare line", "write line", "ask git", "make", "mark", "look empty",
                   "clear", "replace"} : at \notin Late /\ at \notin {"verify", "done"}
    BY DEF Late, Ends
  <1>3. CASE CheckPlan(t)
    BY <1>2, <1>3, GoesOnKeepsMarker, FailKeepsMarker DEF CheckPlan, At, Quiet
  <1>4. AfterLine(t) \in {"make", "look empty"}
    BY DEF AfterLine
  <1>5. CASE CompareLine(t)
    BY <1>2, <1>4, <1>5, GoesOnKeepsMarker, FailKeepsMarker DEF CompareLine, At, Quiet
  <1>6. CASE WriteLine(t)
    BY <1>2, <1>6, GoesOnKeepsMarker DEF WriteLine, At
  <1>7. CASE AskGit(t)
    <2> DEFINE y == [x EXCEPT !.applied = TRUE, !.at = AfterLine(t)]
    <2>1. y.at = AfterLine(t) /\ y.marker = x.marker /\ y.kind = x.kind
      BY <1>1 DEF Fields
    <2>2. Fail(t) \/ (Become(t, y) /\ target' = target)
      BY <1>7 DEF AskGit, Quiet
    <2> HIDE DEF y
    <2>3. x.at \notin Late
      BY <1>2, <1>7 DEF AskGit, At
    <2>4. QED
      BY <1>2, <1>4, <2>1, <2>2, <2>3, MarkerKept, FailKeepsMarker
  <1>8. CASE MakeDirectory(t)
    <2> DEFINE makes == x.unmarked /\ ~target.there
               y == [x EXCEPT !.directory = makes, !.at = IF x.unmarked THEN "mark" ELSE "verify"]
    <2>1. y.at \in {"mark", "verify"} /\ y.marker = x.marker /\ y.kind = x.kind
      BY <1>1 DEF Fields
    <2>2. Become(t, y) /\ target'.marker = target.marker
      BY <1>8, DirectoryIs DEF MakeDirectory
    <2> HIDE DEF y
    <2>3. x.kind = "initialize" /\ x.at \notin Late
      BY <1>2, <1>8, ItselfIs DEF MakeDirectory, At, FitsAt, RestorePlaces, LinePlaces, Ends, PlanPlaces,
                                 PutPlaces
    <2>4. QED
      BY <1>2, <2>1, <2>2, <2>3, MarkerKept
  <1>9. ASSUME Become(t, Marked(t)), x.at \notin Late, ~target.marker, target'.marker, x.kind # "merge"
        PROVE  MarkerStep(t)
    BY <1>9, MarkedIs DEF MarkerStep, Keeps, Late
  <1>10. CASE WriteMarker(t)
    <2>1. x.kind = "initialize" /\ x.at \notin Late
      BY <1>2, <1>10, ItselfIs DEF WriteMarker, At, FitsAt, RestorePlaces, LinePlaces, Ends, PlanPlaces,
                                 PutPlaces
    <2>2. CASE ~target.marker /\ target' = [target EXCEPT !.marker = TRUE] /\ Become(t, Marked(t))
      BY <1>9, <2>1, <2>2, TargetIs
    <2>3. QED
      BY <1>10, <2>2, FailKeepsMarker DEF WriteMarker, Marked
  <1>11. CASE Verify(t)
    <2>1. x.at = "verify" /\ x.kind # "merge"
      BY <1>11, LineIsOf DEF Verify, At, LinePlaces
    <2>2. QED
      BY <1>11, <2>1, EndKeepsMarker, FailKeepsMarker DEF Verify, Quiet
  <1>12. CASE FindEmpty(t)
    BY <1>2, <1>12, GoesOnKeepsMarker, FailKeepsMarker DEF FindEmpty, At, Quiet
  <1>13. CASE Clear(t)
    <2>1. CASE /\ TargetIsEmpty /\ GoesOn(t, "replace")
               /\ Holds([there |-> FALSE, marker |-> FALSE, files |-> None])
      <3>1. target'.marker = target.marker
        BY <2>1, TargetIs DEF Holds, TargetIsEmpty
      <3>2. QED
        BY <1>2, <1>13, <2>1, <3>1, GoesOnKeepsMarker DEF Clear, At
    <2>2. QED
      BY <1>13, <2>1, FailKeepsMarker DEF Clear, Removable
  <1>14. CASE Replace(t)
    <2>1. x.kind # "merge" /\ x.at \notin Late
      BY <1>2, <1>14, ReplacerIs DEF Replace, At, RestorePlaces
    <2>2. CASE /\ TargetIsEmpty /\ Become(t, Marked(t))
               /\ Holds([there |-> TRUE, marker |-> TRUE, files |-> x.add])
      BY <1>9, <2>1, <2>2 DEF Holds, TargetIsEmpty
    <2>3. QED
      BY <1>14, <2>2, FailKeepsMarker DEF Replace, Marked
  <1>15. QED
    BY <1>3, <1>5, <1>6, <1>7, <1>8, <1>10, <1>11, <1>12, <1>13, <1>14

(* The steps of a merge                                                    *)
LEMMA MergingKeepsMarker ==
    ASSUME TransferInv, NEW t \in Transfers, Merges(t)
    PROVE  MarkerStep(t)
  <1> DEFINE x == transfer[t]
  <1>1. x.kind = "merge" /\ DOMAIN x = Fields
    BY ItselfIs DEF Merges
  <1>2. \A at \in PutPlaces : at \notin Late /\ at \notin {"verify", "done"}
    BY DEF Late, Ends, PutPlaces
  <1>3. CASE LookForFile(t)
    BY <1>2, <1>3, GoesOnKeepsMarker, FailKeepsMarker DEF LookForFile, At, Quiet, PutPlaces
  <1>4. CASE PutFile(t)
    <2> DEFINE p == NextFile(t)
               y == [x EXCEPT !.made = x.made \cup {p}, !.at = "look"]
    <2>1. y.at = "look" /\ y.marker = x.marker /\ y.kind = x.kind
      BY <1>1 DEF Fields
    <2>2. Become(t, y) /\ Holds([target EXCEPT !.there = TRUE, !.files[p] = x.add[p]]) /\ x.at = "put"
      BY <1>4 DEF PutFile, At
    <2> HIDE DEF y, p
    <2>3. target'.marker = target.marker
      BY <2>2, TargetIs DEF Holds
    <2>4. QED
      BY <1>2, <2>1, <2>2, <2>3, MarkerKept DEF PutPlaces
  <1>5. CASE ConfirmMerge(t)
    BY <1>1, <1>5, EndKeepsMarker, FailKeepsMarker DEF ConfirmMerge, Quiet
  <1>6. QED
    BY <1>3, <1>4, <1>5, ReadingKeepsMarker DEF Merges, Homes, PlanPlaces

(* What takes back                                                         *)
LEMMA UndoingMarker ==
    ASSUME TransferInv, NEW t \in Transfers,
           RemoveFile(t) \/ RemoveMarker(t) \/ TakeBack(t) \/ RestoreLine(t) \/ Die(t)
    PROVE  MarkerStep(t)
  <1> DEFINE x == transfer[t]
  <1>1. DOMAIN x = Fields /\ {"undo", "take line"} \subseteq Late
    BY ItselfIs DEF Late, Ends
  <1>2. CASE RemoveFile(t)
    <2> DEFINE p == RemovedFile(t)
               y == [x EXCEPT !.made = x.made \ {p}]
    <2>1. y.at = x.at /\ y.marker = x.marker /\ y.kind = x.kind
      BY <1>1 DEF Fields
    <2>2. Become(t, y) /\ Holds([target EXCEPT !.files[p] = 0]) /\ x.at = "undo"
      BY <1>2 DEF RemoveFile, RemovedFile, At
    <2> HIDE DEF y, p
    <2>3. target'.marker = target.marker
      BY <2>2, TargetIs DEF Holds
    <2>4. QED
      BY <1>1, <2>1, <2>2, <2>3, MarkerKept
  <1>3. CASE RemoveMarker(t)
    <2>1. /\ Unmarked(t).marker = "taken back" /\ Unmarked(t).at = x.at /\ Unmarked(t).kind = x.kind
      BY <1>1 DEF Unmarked, Fields
    <2>2. /\ Become(t, Unmarked(t)) /\ x.at = "undo"
          /\ x.marker = "made" /\ x.kind = "initialize"
      BY <1>3 DEF RemoveMarker, RemovesMarker, Unmarked, At
    <2>3. transfer'[t] = Unmarked(t) /\ OthersWait(t)
      BY <2>2, BecomeIs DEF TransferInv
    <2>4. QED
      BY <1>1, <2>1, <2>2, <2>3 DEF MarkerStep, Carries
  <1>4. CASE TakeBack(t)
    <2> DEFINE y == [x EXCEPT !.directory = FALSE, !.at = "take line"]
    <2>1. y.at = "take line" /\ y.marker = x.marker /\ y.kind = x.kind
      BY <1>1 DEF Fields
    <2>2. Become(t, y) /\ target'.marker = target.marker
      BY <1>4, DirectoryIs DEF TakeBack
    <2> HIDE DEF y
    <2>3. QED
      BY <1>1, <2>1, <2>2, MarkerKept
  <1>5. CASE RestoreLine(t)
    BY <1>5, EndKeepsMarker DEF RestoreLine
  <1>6. CASE Die(t)
    BY <1>6, EndKeepsMarker DEF Die, Quiet
  <1>7. QED
    BY <1>2, <1>3, <1>4, <1>5, <1>6

LEMMA MarkerOf ==
    ASSUME TransferInv, NEW t \in Transfers, Works(t)
    PROVE  MarkerStep(t)
  <1>1. ASSUME NEW h \in Homes, FoundChanged(t, h) PROVE MarkerStep(t)
    BY <1>1, FailKeepsMarker DEF FoundChanged
  <1>2. QED
    BY <1>1, PlanKeepsMarker, ReadingKeepsMarker, MarkingIs, MergingKeepsMarker, UndoingMarker
       DEF Works

LEMMA WorksKeeps ==
    ASSUME TransferInv, NEW t \in Transfers, Works(t)
    PROVE  TransferInv'
  <1>0. MarkersGoOn
    BY MarkerOf, MarkersKept
  <1>1. CASE Plan(t) \/ ReadFile(t) \/ \E h \in Homes : FoundChanged(t, h)
    BY <1>0, <1>1, PlanKeeps, ReadFileKeeps, FoundChangedKeeps
  <1>2. CASE CheckPlan(t) \/ CompareLine(t) \/ WriteLine(t) \/ AskGit(t)
    BY <1>0, <1>2, CheckPlanKeeps, CompareLineKeeps, WriteLineKeeps, AskGitKeeps
  <1>3. CASE MakeDirectory(t) \/ WriteMarker(t) \/ Verify(t)
    BY <1>0, <1>3, MakeDirectoryKeeps, WriteMarkerKeeps, VerifyKeeps
  <1>4. CASE FindEmpty(t) \/ Clear(t) \/ Replace(t)
    BY <1>0, <1>4, FindEmptyKeeps, ClearKeeps, ReplaceKeeps
  <1>5. CASE MigratesHome(t) \/ Merges(t)
    BY <1>0, <1>5, MigratesHomeKeeps, MergesKeeps
  <1>6. CASE RemoveFile(t) \/ RemoveMarker(t) \/ TakeBack(t) \/ RestoreLine(t) \/ Die(t)
    BY <1>0, <1>6, RemoveFileKeeps, RemoveMarkerKeeps, TakeBackKeeps, OverKeeps
  <1>7. QED
    BY <1>1, <1>2, <1>3, <1>4, <1>5, <1>6 DEF Works

-----------------------------------------------------------------------------
(* A client's put makes the files newer.                                   *)
LEMMA FilesGrowKeeps ==
    ASSUME TransferInv, UNCHANGED transfer, content' \in Nat, content' > content,
           source' \in Numbers(content'), Behind(source, source'),
           DOMAIN target' = {"there", "marker", "files"}, target'.marker = target.marker,
           target'.files \in Numbers(content'), Behind(target.files, target'.files),
           DOMAIN past' = Homes,
           past["source"] \subseteq past'["source"], past'["source"] \subseteq Numbers(content'),
           past["target"] \subseteq past'["target"], past'["target"] \subseteq Numbers(content'),
           source' \in past'["source"], target'.files \in past'["target"]
    PROVE  TransferInv'
  <1>1. /\ content \in Nat /\ target.marker \in BOOLEAN /\ DOMAIN transfer = Transfers
        /\ source \in [Names -> Nat] /\ target.files \in [Names -> Nat]
        /\ past["source"] \in SUBSET [Names -> Nat] /\ past["target"] \in SUBSET [Names -> Nat]
    BY NumbersAre DEF TransferInv, TransferTypes
  <1>2. source' \in [Names -> Nat] /\ target'.files \in [Names -> Nat]
    BY NumbersAre
  <1>3. \A t \in Transfers : Shaped(transfer[t], content')
    BY <1>1, ItselfIs, NumbersGrow
  <1>4. TransferTypes'
    BY <1>1, <1>3 DEF TransferTypes
  <1>5. ASSUME NEW t \in Transfers
        PROVE  /\ SourceIsSeen(transfer[t], source', past'["source"])
               /\ OtherMerges(t) = {} => TargetIsSeen(transfer[t], target'.files, past'["target"])
    <2>1. Shaped(transfer[t], content)
      BY ItselfIs
    <2>2. SourceIsSeen(transfer[t], source, past["source"])
      BY SeenIs
    <2>3. SourceIsSeen(transfer[t], source', past'["source"])
      BY <1>1, <1>2, <2>1, <2>2, SeenAsFilesGrow
    <2>4. OtherMerges(t) = {} => TargetIsSeen(transfer[t], target.files, past["target"])
      BY SeenIs
    <2>5. OtherMerges(t) = {} => TargetIsSeen(transfer[t], target'.files, past'["target"])
      BY <1>1, <1>2, <2>1, <2>4, SeenAsFilesGrow
    <2>6. QED
      BY <2>3, <2>5
  <1>6. \A t \in Transfers : OtherMerges(t)' = OtherMerges(t)
    BY DEF OtherMerges
  <1>7. ASSUME NEW t \in Transfers, Behind(transfer[t].add, target.files)
        PROVE  Behind(transfer[t].add, target'.files)
    <2>1. transfer[t].add \in [Names -> Nat]
      BY <1>1, ItselfIs, NumbersAre DEF Shaped
    <2>2. QED
      BY <1>1, <1>2, <1>7, <2>1, BehindGoesOn
  <1>8. TookBack' <=> TookBack
    BY DEF TookBack
  <1>9. CarriedStays'
    BY <1>6, <1>7, <1>8, CarriedIs DEF CarriedStays
  <1>10. MarkersStay'
    BY <1>8 DEF TransferInv, MarkersStay
  <1>11. \A t \in Transfers : Orderly(transfer'[t])
    BY ItselfIs
  <1>12. QED
    BY <1>4, <1>5, <1>6, <1>9, <1>10, <1>11 DEF TransferInv

LEMMA PutIs ==
    ASSUME NEW c \in Nat, NEW f \in Numbers(c), NEW p \in Names
    PROVE  [f EXCEPT ![p] = c + 1] \in Numbers(c + 1) /\ Behind(f, [f EXCEPT ![p] = c + 1])
  <1> DEFINE g == [f EXCEPT ![p] = c + 1]
  <1>1. \A q \in Names : f[q] \in 0 .. c
    BY DEF Numbers
  <1>2. \A q \in Names : g[q] = IF q = p THEN c + 1 ELSE f[q]
    BY DEF Numbers
  <1>3. \A q \in Names : g[q] \in 0 .. (c + 1) /\ f[q] <= g[q]
    BY <1>1, <1>2
  <1>4. g \in Numbers(c + 1)
    BY <1>3 DEF Numbers
  <1>5. QED
    BY <1>3, <1>4 DEF Behind

LEMMA ClientPutsKeeps ==
    ASSUME TransferInv, NEW p \in Names, ClientPuts(p)
    PROVE  TransferInv'
  <1>1. /\ content \in Nat /\ source \in Numbers(content) /\ target.files \in Numbers(content)
        /\ DOMAIN target = {"there", "marker", "files"} /\ DOMAIN past = Homes
        /\ past["source"] \subseteq Numbers(content) /\ past["target"] \subseteq Numbers(content)
        /\ source \in past["source"] /\ target.files \in past["target"]
    BY DEF TransferInv, TransferTypes
  <1>2. /\ content' = content + 1 /\ content' \in Nat /\ content' > content
        /\ UNCHANGED transfer
    BY <1>1 DEF ClientPuts
  <1>3. Numbers(content) \subseteq Numbers(content')
    BY <1>1, <1>2, NumbersGrow
  <1>4. Behind(source, source) /\ Behind(target.files, target.files)
    BY <1>1, BehindItself
  <1>5. CASE /\ source' = [source EXCEPT ![p] = content + 1]
             /\ past' = [past EXCEPT !["source"] = @ \cup {source'}]
             /\ UNCHANGED target
    <2>1. source' \in Numbers(content') /\ Behind(source, source')
      BY <1>1, <1>2, <1>5, PutIs
    <2>2. /\ DOMAIN past' = Homes
          /\ past'["source"] = past["source"] \cup {source'} /\ past'["target"] = past["target"]
      BY <1>1, <1>5 DEF Homes
    <2>3. QED
      BY <1>1, <1>2, <1>3, <1>4, <1>5, <2>1, <2>2, FilesGrowKeeps
  <1>6. CASE /\ target' = [target EXCEPT !.files[p] = content + 1]
             /\ past' = [past EXCEPT !["target"] = @ \cup {target'.files}]
             /\ UNCHANGED source
    <2>1. /\ target'.files = [target.files EXCEPT ![p] = content + 1]
          /\ target'.marker = target.marker /\ DOMAIN target' = {"there", "marker", "files"}
      BY <1>1, <1>6
    <2>2. target'.files \in Numbers(content') /\ Behind(target.files, target'.files)
      BY <1>1, <1>2, <2>1, PutIs
    <2>3. /\ DOMAIN past' = Homes
          /\ past'["target"] = past["target"] \cup {target'.files} /\ past'["source"] = past["source"]
      BY <1>1, <1>6 DEF Homes
    <2>4. QED
      BY <1>1, <1>2, <1>3, <1>4, <1>6, <2>1, <2>2, <2>3, FilesGrowKeeps
  <1>7. QED
    BY <1>5, <1>6 DEF ClientPuts

(* It holds in the beginning.                                              *)
LEMMA InitKeeps == TransferInit => TransferInv
  <1> SUFFICES ASSUME TransferInit PROVE TransferInv
    OBVIOUS
  <1>1. \A t \in Transfers : transfer[t] = AtRest
    BY DEF TransferInit
  <1>2. content = 1 /\ source \in [Names -> {0, 1}]
    BY DEF TransferInit
  <1>3. source \in Numbers(1) /\ None \in Numbers(1)
    BY <1>2, NumbersAreSequences DEF Numbers
  <1>4. /\ DOMAIN target = {"there", "marker", "files"} /\ target.marker \in BOOLEAN
        /\ target.files \in Numbers(1)
    <2>1. [None EXCEPT ![1] = 1] \in Numbers(1)
      BY <1>3, TransferAssumption DEF Numbers
    <2>2. CASE target \in [there : BOOLEAN, marker : {FALSE}, files : {None}]
      BY <1>3, <2>2
    <2>3. CASE target \in [there : {TRUE}, marker : {TRUE}, files : {None, [None EXCEPT ![1] = 1]}]
      BY <1>3, <2>1, <2>3
    <2>4. QED
      BY <2>2, <2>3 DEF TransferInit
  <1>5. DOMAIN past = Homes /\ past["source"] = {source} /\ past["target"] = {target.files}
    BY DEF TransferInit, Homes
  <1>6. Fresh(AtRest) /\ Shaped(AtRest, 1) /\ Adds(AtRest) = {}
    <2>1. Fresh(AtRest)
      BY AtRestIs DEF Fresh
    <2>2. QED
      BY <1>3, <2>1, AtRestIs, EmptyIsShaped, NothingAdded DEF Shaped, Fresh
  <1>7. Orderly(AtRest)
    BY <1>6, AtRestIs DEF Orderly, FitsAt, PlanPlaces
  <1>8. AtRest.archive["source"] = NoArchive /\ AtRest.archive["target"] = NoArchive
    BY AtRestIs DEF Homes
  <1>9. \A s, seen : SourceIsSeen(AtRest, s, seen) /\ TargetIsSeen(AtRest, s, seen)
    BY <1>8, AtRestIs DEF SourceIsSeen, TargetIsSeen
  <1>10. TransferTypes
    <2>1. DOMAIN transfer = Transfers /\ \A t \in Transfers : Shaped(transfer[t], content)
      BY <1>1, <1>2, <1>6 DEF TransferInit
    <2>2. QED
      BY <1>2, <1>3, <1>4, <1>5, <2>1 DEF TransferTypes
  <1>11. CarriedStays /\ MarkersStay
    <2>1. AtRest.marker = "not made" /\ AtRest.kind = "none" /\ AtRest.at = "idle"
      BY DEF AtRest
    <2>2. QED
      BY <1>1, <2>1 DEF CarriedStays, MarkersStay, Carries
  <1>12. QED
    BY <1>1, <1>7, <1>9, <1>10, <1>11 DEF TransferInv

(* Whatever transfers of the four kinds run, fail or die beside clients of *)
(* both homes: what each has read, planned, archived and made, together    *)
(* with the files that the homes had.                                      *)
THEOREM TransferInvariant == TransferSpec => []TransferInv
  <1>1. TransferInv /\ [TransferNext]_transferVars => TransferInv'
    <2>1. SUFFICES ASSUME TransferInv, [TransferNext]_transferVars PROVE TransferInv'
      OBVIOUS
    <2>2. CASE TransferNext
      BY <2>1, <2>2, WorksKeeps, ClientPutsKeeps DEF TransferNext
    <2>3. CASE UNCHANGED transferVars
      <3>1. \A t \in Transfers : OtherMerges(t)' = OtherMerges(t)
        BY <2>3 DEF OtherMerges, transferVars
      <3>2. TookBack' <=> TookBack
        BY <2>3 DEF TookBack, transferVars
      <3>3. TransferTypes' /\ MarkersStay' /\ CarriedStays'
        BY <2>1, <2>3, <3>1, <3>2
           DEF TransferInv, TransferTypes, MarkersStay, CarriedStays, transferVars
      <3>4. QED
        BY <2>1, <2>3, <3>1, <3>3 DEF TransferInv, transferVars
    <2>4. QED
      BY <2>1, <2>2, <2>3
  <1>2. QED
    BY <1>1, InitKeeps, PTL DEF TransferSpec

(* An archive shows the files that its home had at one time, however they  *)
(* changed while they were read file by file, and a merge adds only what   *)
(* the archive of its source holds; of a target, unless another merge may  *)
(* put files and take them back (apply_portable_backup,                    *)
(* _apply_local_backup).                                                   *)
THEOREM ArchivesShowOneTime == TransferSpec => []ArchivesAreSnapshots
  <1>1. TransferInv => ArchivesAreSnapshots
    <2>1. SUFFICES ASSUME TransferInv PROVE ArchivesAreSnapshots
      OBVIOUS
    <2>2. ASSUME NEW t \in Transfers
          PROVE  /\ transfer[t].archive["source"] \in past["source"] \cup {NoArchive}
                 /\ OtherMerges(t) = {} => transfer[t].archive["target"] \in past["target"] \cup {NoArchive}
                 /\ transfer[t].kind = "merge" /\ transfer[t].archive["source"] # NoArchive =>
                      \A p \in Names : transfer[t].add[p] \in {0, transfer[t].archive["source"][p]}
      BY <2>1, SeenIs DEF SourceIsSeen, TargetIsSeen, Adds
    <2>3. QED
      BY <2>2 DEF ArchivesAreSnapshots, Homes
  <1>2. QED
    BY <1>1, TransferInvariant, PTL

(* The home that a transfer reports as done has the marker that this       *)
(* brought, whatever others do; a marker that it found, and each file that *)
(* it carried or what clients made of it since, unless an initialization   *)
(* took back the marker it had made, and the files then too without a      *)
(* merge; what a merge carried without another merge                       *)
(* (project_home_initialization.py, project_home_portability.py,           *)
(* project_home_merge.py).                                                 *)
THEOREM SuccessStays == TransferSpec => []SuccessIsKept
  <1>1. TransferInv => SuccessIsKept
    <2>1. SUFFICES ASSUME TransferInv, NEW t \in Transfers, transfer[t].at = "done"
                   PROVE  /\ transfer[t].marker = "made" \/ ~TookBack => target.marker
                          /\ OtherMerges(t) = {} \/ (transfer[t].kind # "merge" /\ ~TookBack) =>
                               \A p \in Names : target.files[p] >= transfer[t].add[p]
      BY DEF SuccessIsKept
    <2>2. transfer[t].marker = "made" \/ ~TookBack => target.marker
      BY <2>1 DEF TransferInv, MarkersStay
    <2>3. \A p \in Names : target.files[p] \in Nat /\ transfer[t].add[p] \in Nat
      BY <2>1, TargetIs, ItselfIs, NumbersAre DEF Shaped
    <2>4. ASSUME OtherMerges(t) = {} \/ (transfer[t].kind # "merge" /\ ~TookBack)
          PROVE  \A p \in Names : target.files[p] >= transfer[t].add[p]
      <3>1. CASE transfer[t].kind = "initialize"
        <4>1. \A p \in Names : transfer[t].add[p] = 0
          BY <2>1, <3>1, ItselfIs DEF Orderly, Adds
        <4>2. QED
          BY <2>3, <4>1
      <3>2. CASE transfer[t].kind # "initialize"
        <4>1. Carries(transfer[t]) \/ transfer[t].kind = "merge"
          BY <2>1, <3>2, ItselfIs DEF FitsAt, Carries
        <4>2. Behind(transfer[t].add, target.files)
          BY <2>1, <2>4, <4>1, CarriedIs DEF Carries
        <4>3. QED
          BY <2>3, <4>2 DEF Behind
      <3>3. QED
        BY <3>1, <3>2
    <2>5. QED
      BY <2>2, <2>4
  <1>2. QED
    BY <1>1, TransferInvariant, PTL

-----------------------------------------------------------------------------
(* The work documents.                                                     *)

Document == Texts \cup {Nothing}

EntriesAre(entries) ==
    /\ DOMAIN entries \subseteq Paths
    /\ \A p \in DOMAIN entries :
         /\ DOMAIN entries[p] = {"sha", "revision", "previous"}
         /\ entries[p].sha \in Texts

IsManifest(m) ==
    \/ m = NoManifest
    \/ /\ DOMAIN m = {"layout", "aliases", "preserved", "entries"}
       /\ EntriesAre(m.entries)

(* The documents d are as m lists them, but for those of e.                *)
Shows(m, d, e) ==
    m # NoManifest => \A p \in DOMAIN m.entries \ e : d[p] = m.entries[p].sha

(* What a plan lists it copies, or has read, or it was listed before.      *)
ListsWithReason(plan, p) ==
    \/ \E c \in plan.copies : c.to = p /\ c.content = plan.becomes.entries[p].sha
    \/ /\ plan.kind # "copy"
       /\ p \in DOMAIN plan.reads /\ plan.reads[p] = plan.becomes.entries[p].sha
    \/ /\ plan.kind # "copy" /\ plan.compares # NoManifest
       /\ p \in DOMAIN plan.compares.entries
       /\ plan.compares.entries[p].sha = plan.becomes.entries[p].sha

CopiesAreOne(copies) ==
    /\ \A c \in copies : c.to \in Paths /\ c.content \in Texts
    /\ \A c, d \in copies : c.to = d.to => c = d

IsPlan(plan) ==
    /\ CopiesAreOne(plan.copies)
    /\ \A c \in plan.copies : c.from \in IF plan.kind = "copy" THEN Sources ELSE Paths
    /\ IsManifest(plan.becomes) /\ plan.becomes # NoManifest
    /\ \A p \in DOMAIN plan.becomes.entries : ListsWithReason(plan, p)

(* What a tool is in the middle of, when the manifest is m, the documents  *)
(* are d and the owner edited those of e.  What has still to be copied is  *)
(* what may not be there yet; what was created was not there, and so is    *)
(* neither in the manifest before nor in anyone's evidence.                *)
Working == {"copying", "verifying", "undoing", "unlinking"}

ManifestIs(x, m) ==
    /\ x.at \in {"copying", "unlinking"} => m = x.backup
    /\ x.at = "verifying" => m = x.plan.becomes /\ x.plan.kind # "copy"
    /\ x.at = "undoing" => m = x.backup \/ (m = x.plan.becomes /\ x.plan.kind # "copy")

ToCopy(x, d, e) ==
    /\ x.left \subseteq x.plan.copies
    /\ \A p \in DOMAIN x.plan.becomes.entries \ e :
         LET sha == x.plan.becomes.entries[p].sha IN
         \/ d[p] = sha
         \/ d[p] = Nothing /\ \E c \in x.left : c.to = p /\ c.content = sha

HalfDone(x, m, d, e) ==
    x.at \in Working =>
      /\ DOMAIN x = {"at", "plan", "left", "created", "backup"}
      /\ IsPlan(x.plan) /\ IsManifest(x.backup)
      /\ ManifestIs(x, m)
      /\ Shows(x.backup, d, e)
      /\ x.created \subseteq Paths
      /\ x.backup # NoManifest => x.created \cap DOMAIN x.backup.entries \subseteq e
      /\ x.at = "copying" => ToCopy(x, d, e)

(* What a tool has found, while it reads or after it imported              *)
Evidence(x) ==
    CASE x.at = "imported" -> x.evidence
      [] x.at = "reading"  -> x.found
      [] OTHER -> <<>>

Knows(x, d, e) ==
    /\ DOMAIN Evidence(x) \subseteq Paths
    /\ \A p \in DOMAIN Evidence(x) : Evidence(x)[p] \in Texts
    /\ \A p \in DOMAIN Evidence(x) \ e : d[p] = Evidence(x)[p]
    /\ x.at = "reading" => DOMAIN x = {"at", "layout", "found"}

IsCreated(x, y, e) ==
    x.at \in Working => x.created \cap DOMAIN Evidence(y) \subseteq e

ToolIs(x) ==
    /\ x.at \in {"idle", "planned", "reading", "imported"} \cup Working
    /\ x.at = "planned" => IsPlan(x.plan)

DocsInv ==
    ~spoilt =>
      /\ doc \in [Paths -> Document] /\ outside \in [Sources -> Document]
      /\ IsManifest(manifest) /\ Shows(manifest, doc, touched)
      /\ DOMAIN tool = Tools
      /\ \A t, u \in Tools : AtWork(t) /\ AtWork(u) => t = u
      /\ \A t \in Tools : /\ ToolIs(tool[t])
                          /\ HalfDone(tool[t], manifest, doc, touched)
                          /\ Knows(tool[t], doc, touched)
      /\ \A t, u \in Tools : IsCreated(tool[t], tool[u], touched)

-----------------------------------------------------------------------------
(* The plans.                                                              *)

(* The conditions on what is wanted where.                                 *)
IsWanted(wanted, has, D) ==
    \A w \in wanted :
      /\ w[1] \in D /\ has[w[1]] \in Texts
      /\ w[2] \in Paths /\ w[2][2] \in DocPlaces

(* Every copy has a path of its own and the content of what it comes from. *)
LEMMA CopiesAre ==
    ASSUME NEW wanted, NEW has, NEW D, IsWanted(wanted, has, D)
    PROVE  LET copies == Copies(Targets(wanted, has), has)
           IN  /\ CopiesAreOne(copies)
               /\ \A c \in copies : c.from \in D /\ c.content = has[c.from]
<1> DEFINE targets == Targets(wanted, has)
<1> DEFINE copies == Copies(targets, has)
<1>1. \A w \in wanted : Target(w, wanted, has) \in Paths
  BY DEF IsWanted, Target, Paths
<1>2. \A p \in {w[2] : w \in targets} :
        p \in Paths /\ Origin(p, targets) \in D /\ has[Origin(p, targets)] \in Texts
  <2>1. SUFFICES ASSUME NEW p \in {w[2] : w \in targets}
        PROVE  p \in Paths /\ Origin(p, targets) \in D /\ has[Origin(p, targets)] \in Texts
    OBVIOUS
  <2>2. PICK w \in wanted : p = Target(w, wanted, has)
    BY DEF Targets
  <2>3. <<w[1], p>> \in targets
    BY <2>2 DEF Targets
  <2>4. \E s \in {v[1] : v \in targets} : <<s, p>> \in targets
    BY <2>3
  <2>5. <<Origin(p, targets), p>> \in targets
    BY <2>4 DEF Origin
  <2>6. PICK v \in wanted : Origin(p, targets) = v[1]
    BY <2>5 DEF Targets
  <2> QED
    BY <1>1, <2>2, <2>6 DEF IsWanted
<1> HIDE DEF targets
<1>3. \A c \in copies : \E p \in {w[2] : w \in targets} :
        c = [from |-> Origin(p, targets), to |-> p, content |-> has[Origin(p, targets)]]
  BY DEF Copies
<1>4. \A c \in copies : /\ c = [from |-> Origin(c.to, targets), to |-> c.to,
                                 content |-> has[Origin(c.to, targets)]]
                        /\ c.to \in {w[2] : w \in targets}
  BY <1>3
<1> HIDE DEF copies
<1>5. CopiesAreOne(copies)
  BY <1>2, <1>4 DEF CopiesAreOne
<1>6. \A c \in copies : c.from \in D /\ c.content = has[c.from]
  BY <1>2, <1>4
<1> QED
  BY <1>5, <1>6 DEF copies, targets

LEMMA NewIs ==
    ASSUME NEW text \in Texts
    PROVE  /\ DOMAIN New(text) = {"sha", "revision", "previous"}
           /\ New(text).sha = text
BY DEF New

(* What the places of documents and of sources are.                        *)
LEMMA PlacesArePaths ==
    /\ \A d \in Sources \cup Olds : Plain(PlaceOf[d]) \in Paths /\ Plain(PlaceOf[d])[2] \in DocPlaces
    /\ \A p \in Paths : /\ IsOld(p) => p[2] \in Olds /\ p = Old(p[2])
                        /\ ~IsOld(p) => p[2] \in DocPlaces
    /\ \A o \in Olds : Old(o) \in Paths /\ IsOld(Old(o))
    /\ \A q \in DocPlaces : Plain(q) \in Paths /\ ~IsOld(Plain(q))
BY WorkDocumentsAssumption DEF DocPlaces, Paths, Plain, Old, Suffixed, IsOld

LEMMA CopyPlanIs ==
    ASSUME doc \in [Paths -> Document], outside \in [Sources -> Document]
    PROVE  IsPlan(CopyPlan)
<1> DEFINE wanted == {<<s, Plain(PlaceOf[s])>> : s \in {t \in Sources : outside[t] # Nothing}}
<1> DEFINE copies == Copies(Targets(wanted, outside), outside)
<1> DEFINE E == [p \in {c.to : c \in copies} |-> New((CHOOSE c \in copies : c.to = p).content)]
<1>1. IsWanted(wanted, outside, Sources)
  BY PlacesArePaths DEF IsWanted, Document
<1> HIDE DEF wanted
<1>2. CopiesAreOne(copies) /\ \A c \in copies : c.from \in Sources
  BY <1>1, CopiesAre
<1>3. /\ CopyPlan.copies = copies /\ CopyPlan.kind = "copy"
      /\ CopyPlan.becomes = [layout |-> 2, aliases |-> {}, preserved |-> {}, entries |-> E]
  BY DEF CopyPlan, wanted
<1> HIDE DEF copies
<1>4. \A p \in DOMAIN E : \E c \in copies : /\ c.to = p /\ E[p] = New(c.content)
  BY DEF E
<1>5. DOMAIN E = {c.to : c \in copies}
  BY DEF E
<1> HIDE DEF E
<1>6. EntriesAre(E)
  BY <1>2, <1>4, <1>5, NewIs DEF EntriesAre, CopiesAreOne
<1>7. IsManifest(CopyPlan.becomes) /\ CopyPlan.becomes # NoManifest /\ CopyPlan.becomes.entries = E
  BY <1>3, <1>6 DEF IsManifest, NoManifest
<1>8. \A p \in DOMAIN E : ListsWithReason(CopyPlan, p)
  BY <1>2, <1>3, <1>4, <1>7, NewIs DEF ListsWithReason, CopiesAreOne
<1> QED
  BY <1>2, <1>3, <1>7, <1>8 DEF IsPlan

LEMMA UpdatePlanIs ==
    ASSUME doc \in [Paths -> Document], IsManifest(manifest), Valid(manifest)
    PROVE  IsPlan(UpdatePlan)
<1> DEFINE U == Unlisted(manifest)
<1> DEFINE E == [p \in DOMAIN manifest.entries \cup U |->
             IF p \notin U THEN manifest.entries[p]
             ELSE IF p \in DOMAIN manifest.entries
                  THEN [sha |-> doc[p], revision |-> manifest.entries[p].revision + 1,
                        previous |-> manifest.entries[p].sha]
                  ELSE New(doc[p])]
<1>1. manifest # NoManifest /\ EntriesAre(manifest.entries)
      /\ DOMAIN manifest = {"layout", "aliases", "preserved", "entries"}
  BY DEF Valid, IsManifest, NoManifest
<1>2. U \subseteq Paths /\ \A p \in U : doc[p] \in Texts
  BY DEF Unlisted, Document
<1>3. /\ UpdatePlan.copies = {} /\ UpdatePlan.kind = "update" /\ UpdatePlan.compares = manifest
      /\ UpdatePlan.reads = [p \in U |-> doc[p]]
      /\ UpdatePlan.becomes = [manifest EXCEPT !.entries = E]
  BY DEF UpdatePlan
<1> HIDE DEF U
<1>4. DOMAIN E = DOMAIN manifest.entries \cup U
  OBVIOUS
<1>5. /\ \A p \in DOMAIN E \ U : E[p] = manifest.entries[p]
      /\ \A p \in U : /\ DOMAIN E[p] = {"sha", "revision", "previous"}
                      /\ E[p].sha = doc[p]
  BY <1>2, NewIs
<1> HIDE DEF E
<1>6. EntriesAre(E)
  BY <1>1, <1>2, <1>4, <1>5 DEF EntriesAre
<1>7. IsManifest(UpdatePlan.becomes) /\ UpdatePlan.becomes # NoManifest /\ UpdatePlan.becomes.entries = E
  BY <1>1, <1>3, <1>6 DEF IsManifest, NoManifest
<1>8. \A p \in DOMAIN E : ListsWithReason(UpdatePlan, p)
  <2>1. SUFFICES ASSUME NEW p \in DOMAIN E
        PROVE  ListsWithReason(UpdatePlan, p)
    OBVIOUS
  <2>2. CASE p \in U
    BY <1>3, <1>5, <1>7, <2>2 DEF ListsWithReason
  <2>3. CASE p \notin U
    BY <1>1, <1>3, <1>4, <1>5, <1>7, <2>3 DEF ListsWithReason
  <2> QED
    BY <2>2, <2>3
<1> QED
  BY <1>3, <1>7, <1>8 DEF IsPlan, CopiesAreOne

LEMMA MigrationPlanIs ==
    ASSUME doc \in [Paths -> Document], IsManifest(manifest), Valid(manifest)
    PROVE  IsPlan(MigrationPlan)
<1> DEFINE wanted == {<<p, IF IsOld(p) THEN Plain(PlaceOf[p[2]]) ELSE p>> : p \in TakenUp}
<1> DEFINE targets == Targets(wanted, doc)
<1> DEFINE copies == Copies(targets, doc)
<1> DEFINE others == DOMAIN manifest.entries \ TakenUp
<1> DEFINE kept == {p \in others : ~IsOld(p)}
<1> DEFINE By(p) == CHOOSE d \in copies : d.to = p
<1> DEFINE E == [p \in {c.to : c \in copies} \cup kept |->
                 IF p \in kept /\ \A c \in copies : c.to # p THEN manifest.entries[p]
                 ELSE LET c == CHOOSE d \in copies : d.to = p
                      IN  IF c.from \in DOMAIN manifest.entries
                          THEN [manifest.entries[c.from] EXCEPT !.sha = c.content]
                          ELSE New(c.content)]
<1>1. manifest # NoManifest /\ EntriesAre(manifest.entries)
  BY DEF Valid, IsManifest, NoManifest
<1>2. TakenUp \subseteq Paths /\ \A p \in TakenUp : doc[p] \in Texts
  BY DEF TakenUp, Document
<1>3. IsWanted(wanted, doc, Paths)
  BY <1>2, PlacesArePaths DEF IsWanted
<1>4. /\ MigrationPlan.copies = copies /\ MigrationPlan.kind = "migration"
      /\ MigrationPlan.compares = manifest
      /\ MigrationPlan.becomes =
           [layout |-> 2,
            aliases |-> manifest.aliases \cup {w \in targets : w[1] # w[2]},
            preserved |-> manifest.preserved \cup {p \in others : IsOld(p)},
            entries |-> E]
  BY DEF MigrationPlan
<1> HIDE DEF wanted
<1>5. CopiesAreOne(copies) /\ \A c \in copies : c.from \in Paths
  BY <1>3, CopiesAre
<1> HIDE DEF targets, copies
<1>6. kept \subseteq DOMAIN manifest.entries
  OBVIOUS
<1> HIDE DEF kept, others
<1>7. \A p \in {c.to : c \in copies} : By(p) \in copies /\ By(p).to = p
  OBVIOUS
<1>8. DOMAIN E = {c.to : c \in copies} \cup kept
  OBVIOUS
<1>9. \A p \in DOMAIN E :
        \/ p \in kept /\ E[p] = manifest.entries[p]
        \/ /\ p \in {c.to : c \in copies}
           /\ E[p] = IF By(p).from \in DOMAIN manifest.entries
                     THEN [manifest.entries[By(p).from] EXCEPT !.sha = By(p).content]
                     ELSE New(By(p).content)
  OBVIOUS
<1> HIDE DEF E, By
<1>10. \A p \in DOMAIN E :
        \/ p \in kept /\ E[p] = manifest.entries[p]
        \/ /\ p \in {c.to : c \in copies}
           /\ DOMAIN E[p] = {"sha", "revision", "previous"}
           /\ E[p].sha = By(p).content /\ By(p).content \in Texts
  <2>1. SUFFICES ASSUME NEW p \in {c.to : c \in copies},
                        E[p] = IF By(p).from \in DOMAIN manifest.entries
                               THEN [manifest.entries[By(p).from] EXCEPT !.sha = By(p).content]
                               ELSE New(By(p).content)
        PROVE  /\ DOMAIN E[p] = {"sha", "revision", "previous"}
               /\ E[p].sha = By(p).content /\ By(p).content \in Texts
    BY <1>9
  <2>2. By(p).content \in Texts
    BY <1>5, <1>7 DEF CopiesAreOne
  <2>3. CASE By(p).from \in DOMAIN manifest.entries
    <3>1. DOMAIN manifest.entries[By(p).from] = {"sha", "revision", "previous"}
      BY <1>1, <2>3 DEF EntriesAre
    <3>2. E[p] = [manifest.entries[By(p).from] EXCEPT !.sha = By(p).content]
      BY <2>1, <2>3
    <3> QED
      BY <2>2, <3>1, <3>2
  <2>4. CASE By(p).from \notin DOMAIN manifest.entries
    BY <2>1, <2>2, <2>4, NewIs
  <2> QED
    BY <2>3, <2>4
<1>11. EntriesAre(E)
  BY <1>1, <1>5, <1>6, <1>8, <1>10 DEF EntriesAre, CopiesAreOne
<1>12. /\ IsManifest(MigrationPlan.becomes) /\ MigrationPlan.becomes # NoManifest
       /\ MigrationPlan.becomes.entries = E
  BY <1>4, <1>11 DEF IsManifest, NoManifest
<1>13. \A p \in DOMAIN E : ListsWithReason(MigrationPlan, p)
  <2>1. SUFFICES ASSUME NEW p \in DOMAIN E
        PROVE  ListsWithReason(MigrationPlan, p)
    OBVIOUS
  <2>2. CASE p \in kept /\ E[p] = manifest.entries[p]
    BY <1>1, <1>4, <1>6, <1>12, <2>2 DEF ListsWithReason
  <2>3. CASE p \in {c.to : c \in copies} /\ E[p].sha = By(p).content
    BY <1>4, <1>7, <1>12, <2>3 DEF ListsWithReason
  <2> QED
    BY <1>10, <2>2, <2>3
<1> QED
  BY <1>4, <1>5, <1>12, <1>13 DEF IsPlan

-----------------------------------------------------------------------------
(* What was there is still there, when the documents change from d to f    *)
(* only where nothing was, or nothing that matters, and the owner's edits  *)
(* grow from e to g.                                                       *)
LEMMA ShowsKept ==
    ASSUME NEW m, NEW d, NEW e, NEW f, NEW g, IsManifest(m), Shows(m, d, e), e \subseteq g,
           \A p \in Paths \ g : \/ f[p] = d[p] \/ d[p] = Nothing
                                \/ m # NoManifest => p \notin DOMAIN m.entries
    PROVE  Shows(m, f, g)
BY WorkDocumentsAssumption DEF Shows, IsManifest, EntriesAre

LEMMA KnowsKept ==
    ASSUME NEW x, NEW d, NEW e, NEW f, NEW g, Knows(x, d, e), e \subseteq g,
           \A p \in Paths \ g : \/ f[p] = d[p] \/ d[p] = Nothing
                                \/ p \notin DOMAIN Evidence(x)
    PROVE  Knows(x, f, g)
<1>1. \A p \in DOMAIN Evidence(x) \ g : f[p] = d[p]
  BY WorkDocumentsAssumption DEF Knows
<1> QED
  BY <1>1 DEF Knows

(* A tool that is in the middle of nothing and knows nothing               *)
LEMMA RestingIs ==
    ASSUME NEW x, NEW m, NEW d, NEW e, x.at \in {"idle", "planned"}, x.at = "planned" => IsPlan(x.plan)
    PROVE  /\ ToolIs(x) /\ HalfDone(x, m, d, e) /\ Knows(x, d, e)
           /\ DOMAIN Evidence(x) = {} /\ x.at \notin Working
BY DEF ToolIs, HalfDone, Knows, Evidence, Working

(* A tool that works knows nothing yet.                                    *)
LEMMA WorkingIs ==
    ASSUME NEW x, NEW d, NEW e, x.at \in Working
    PROVE  ToolIs(x) /\ Knows(x, d, e) /\ DOMAIN Evidence(x) = {}
BY DEF ToolIs, Knows, Evidence, Working

(* The invariant for one tool, and for the files                           *)
FilesAre ==
    /\ doc \in [Paths -> Document] /\ outside \in [Sources -> Document]
    /\ IsManifest(manifest) /\ Shows(manifest, doc, touched)

ToolStands(x) ==
    ToolIs(x) /\ HalfDone(x, manifest, doc, touched) /\ Knows(x, doc, touched)

LEMMA DocsInvParts ==
    ASSUME ~spoilt
    PROVE  DocsInv <=>
             /\ FilesAre
             /\ DOMAIN tool = Tools
             /\ \A t, u \in Tools : AtWork(t) /\ AtWork(u) => t = u
             /\ \A t \in Tools : ToolStands(tool[t])
             /\ \A t, u \in Tools : IsCreated(tool[t], tool[u], touched)
BY DEF DocsInv, FilesAre, ToolStands

(* A step of tool t that leaves the others alone: what has to be shown of  *)
(* t, when the documents change only where nothing was or where t created, *)
(* and t is the only one at work before and after, or not at work after.   *)
LEMMA StepOf ==
    ASSUME NEW t \in Tools, NEW x, ~spoilt, DocsInv, ~spoilt',
           tool' = [tool EXCEPT ![t] = x],
           FilesAre', ToolStands(x)', touched' = touched,
           \/ x.at \in {"idle", "planned", "imported"}
           \/ AtWork(t)
           \/ \A u \in Tools \ {t} : ~AtWork(u),
           doc' # doc \/ manifest' # manifest => \A u \in Tools \ {t} : ~AtWork(u),
           \A p \in Paths : \/ doc'[p] = doc[p] \/ doc[p] = Nothing
                            \/ tool[t].at \in Working /\ p \in tool[t].created,
           \A u \in Tools \ {t} :
              /\ x.at \in Working => x.created \cap DOMAIN Evidence(tool[u]) \subseteq touched
              /\ tool[u].at \in Working => tool[u].created \cap DOMAIN Evidence(x) \subseteq touched,
           IsCreated(x, x, touched)
    PROVE  DocsInv'
<1>1. /\ DOMAIN tool = Tools
      /\ \A u, v \in Tools : AtWork(u) /\ AtWork(v) => u = v
      /\ \A u \in Tools : ToolStands(tool[u])
      /\ \A u, v \in Tools : IsCreated(tool[u], tool[v], touched)
  BY DEF DocsInv, ToolStands
<1>2. DOMAIN tool' = Tools /\ tool'[t] = x /\ \A u \in Tools \ {t} : tool'[u] = tool[u]
  BY <1>1
<1>3. \A u, v \in Tools : AtWork(u)' /\ AtWork(v)' => u = v
  BY <1>1, <1>2 DEF AtWork
<1>4. \A u \in Tools \ {t} : ToolStands(tool[u])'
  <2>1. SUFFICES ASSUME NEW u \in Tools \ {t}
        PROVE  ToolStands(tool[u])'
    OBVIOUS
  <2>2. tool'[u] = tool[u] /\ ToolStands(tool[u]) /\ IsCreated(tool[t], tool[u], touched)
    BY <1>1, <1>2
  <2>3. Knows(tool[u], doc', touched')
    BY <2>2, KnowsKept DEF ToolStands, IsCreated
  <2>4. HalfDone(tool[u], manifest', doc', touched')
    <3>1. CASE tool[u].at \notin Working
      BY <3>1 DEF HalfDone
    <3>2. CASE tool[u].at \in Working
      <4>1. doc' = doc /\ manifest' = manifest
        BY <3>2 DEF AtWork, Working
      <4> QED
        BY <4>1, <2>2 DEF ToolStands
    <3> QED
      BY <3>1, <3>2
  <2> QED
    BY <2>2, <2>3, <2>4 DEF ToolStands
<1>5. \A u, v \in Tools : IsCreated(tool[u], tool[v], touched)'
  <2>1. SUFFICES ASSUME NEW u \in Tools, NEW v \in Tools
        PROVE  IsCreated(tool[u], tool[v], touched)'
    OBVIOUS
  <2>2. CASE u = t /\ v = t
    BY <1>2, <2>2
  <2>3. CASE u = t /\ v # t
    BY <1>2, <2>3 DEF IsCreated
  <2>4. CASE u # t /\ v = t
    BY <1>2, <2>4 DEF IsCreated
  <2>5. CASE u # t /\ v # t
    BY <1>1, <1>2, <2>5 DEF IsCreated
  <2> QED
    BY <2>2, <2>3, <2>4, <2>5
<1>6. \A u \in Tools : ToolStands(tool[u])'
  BY <1>2, <1>4 DEF ToolStands
<1> QED
  BY <1>2, <1>3, <1>5, <1>6 DEF DocsInv, FilesAre, ToolStands

-----------------------------------------------------------------------------
(* The actions of a tool.                                                  *)

(* A tool that ends up idle or with a plan, and changes no file            *)
LEMMA RestStep ==
    ASSUME NEW t \in Tools, NEW x, ~spoilt, DocsInv, ~spoilt',
           x.at \in {"idle", "planned"}, x.at = "planned" => IsPlan(x.plan),
           tool' = [tool EXCEPT ![t] = x],
           UNCHANGED <<outside, doc, manifest, touched>>
    PROVE  DocsInv'
<1>1. FilesAre'
  BY DEF DocsInv, FilesAre
<1>2. ToolStands(x)' /\ DOMAIN Evidence(x) = {} /\ x.at \notin Working
  BY RestingIs DEF ToolStands
<1> QED
  BY <1>1, <1>2, StepOf DEF IsCreated

LEMMA PlanStep ==
    ASSUME NEW t \in Tools, ~spoilt, DocsInv, PlanAny(t), ~spoilt'
    PROVE  DocsInv'
<1>1. PICK plan : /\ tool' = [tool EXCEPT ![t] = [at |-> "planned", plan |-> plan]]
                  /\ IsPlan(plan)
                  /\ UNCHANGED <<outside, doc, manifest, touched>>
  BY CopyPlanIs, UpdatePlanIs, MigrationPlanIs DEF PlanAny, PlanWith, DocsInv
<1> DEFINE x == [at |-> "planned", plan |-> plan]
<1>2. x.at = "planned" /\ x.plan = plan
  OBVIOUS
<1> HIDE DEF x
<1> QED
  BY <1>1, <1>2, RestStep DEF x

LEMMA LeaveStep ==
    ASSUME NEW t \in Tools, ~spoilt, DocsInv, LeavePlan(t) \/ ToolDies(t), ~spoilt'
    PROVE  DocsInv'
BY RestStep DEF LeavePlan, ToolDies, IdleTool

(* A tool that stays at work, or starts when no other is                   *)
LEMMA WorkStep ==
    ASSUME NEW t \in Tools, NEW x, ~spoilt, DocsInv, ~spoilt',
           x.at \in Working, tool' = [tool EXCEPT ![t] = x],
           FilesAre', HalfDone(x, manifest, doc, touched)', touched' = touched,
           \A u \in Tools \ {t} : ~AtWork(u),
           \A p \in Paths : \/ doc'[p] = doc[p] \/ doc[p] = Nothing
                            \/ tool[t].at \in Working /\ p \in tool[t].created,
           \A p \in x.created : \/ doc[p] = Nothing
                                \/ tool[t].at \in Working /\ p \in tool[t].created
    PROVE  DocsInv'
<1>1. ToolStands(x)' /\ DOMAIN Evidence(x) = {}
  BY WorkingIs DEF ToolStands
<1>2. \A u \in Tools : /\ Knows(tool[u], doc, touched)
                       /\ IsCreated(tool[t], tool[u], touched)
  BY DEF DocsInv
<1>3. \A u \in Tools : x.created \cap DOMAIN Evidence(tool[u]) \subseteq touched
  BY <1>2, WorkDocumentsAssumption DEF Knows, IsCreated
<1>4. IsCreated(x, x, touched)
  BY <1>1 DEF IsCreated
<1> QED
  BY <1>1, <1>3, <1>4, StepOf DEF IsCreated

(* No other tool is at work when one is that does not spoil anything, or   *)
(* that was at work already.                                               *)
LEMMA WorksAlone ==
    ASSUME NEW t \in Tools, ~spoilt, DocsInv, AtWork(t) \/ (Overlaps(t) /\ ~spoilt')
    PROVE  \A u \in Tools \ {t} : ~AtWork(u)
BY DEF DocsInv, Overlaps

LEMMA CompareStep ==
    ASSUME NEW t \in Tools, ~spoilt, DocsInv, CompareFiles(t), ~spoilt'
    PROVE  DocsInv'
<1> DEFINE plan == tool[t].plan
<1>1. /\ IsPlan(plan) /\ FilesAre
      /\ plan.kind # "copy" => manifest = plan.compares
      /\ \A f \in DOMAIN plan.reads : Has(plan, f) = plan.reads[f]
      /\ \A c \in plan.copies : doc[c.to] \in {Nothing, c.content}
  BY DEF CompareFiles, DocsInv, ToolIs, FilesAre
<1>2. PICK x : /\ tool' = [tool EXCEPT ![t] = x]
               /\ x = [at |-> "copying", plan |-> plan, left |-> plan.copies,
                       created |-> {}, backup |-> manifest]
  BY DEF CompareFiles
<1>3. UNCHANGED <<outside, doc, manifest, touched>> /\ FilesAre'
  BY <1>1 DEF CompareFiles, FilesAre
<1>4. \A u \in Tools \ {t} : ~AtWork(u)
  BY WorksAlone DEF CompareFiles
<1>5. ToCopy(x, doc, touched)
  <2>1. SUFFICES ASSUME NEW p \in DOMAIN plan.becomes.entries \ touched
        PROVE  \/ doc[p] = plan.becomes.entries[p].sha
               \/ /\ doc[p] = Nothing
                  /\ \E c \in plan.copies : c.to = p /\ c.content = plan.becomes.entries[p].sha
    BY <1>2 DEF ToCopy
  <2>2. ListsWithReason(plan, p)
    BY <1>1 DEF IsPlan
  <2> QED
    BY <1>1, <2>2 DEF ListsWithReason, Has, FilesAre, Shows
<1>6. HalfDone(x, manifest, doc, touched)
  <2>1. ManifestIs(x, manifest)
    BY <1>2 DEF ManifestIs
  <2>2. Shows(x.backup, doc, touched) /\ IsPlan(x.plan) /\ IsManifest(x.backup) /\ x.created = {}
    BY <1>1, <1>2 DEF FilesAre
  <2>3. DOMAIN x = {"at", "plan", "left", "created", "backup"}
    BY <1>2
  <2> QED
    BY <1>5, <2>1, <2>2, <2>3 DEF HalfDone
<1>7. x.at \in Working /\ x.created = {}
  BY <1>2 DEF Working
<1> QED
  BY <1>2, <1>3, <1>4, <1>6, <1>7, WorkStep

LEMMA InstallStep ==
    ASSUME NEW t \in Tools, ~spoilt, DocsInv, Install(t), ~spoilt'
    PROVE  DocsInv'
<1> DEFINE plan == tool[t].plan
<1>1. /\ tool[t].at = "copying" /\ tool[t].left = {}
      /\ HalfDone(tool[t], manifest, doc, touched) /\ FilesAre
      /\ UNCHANGED <<outside, doc, touched>> /\ manifest' = plan.becomes
  BY DEF Install, DocsInv, FilesAre
<1>2. /\ DOMAIN tool[t] = {"at", "plan", "left", "created", "backup"}
      /\ IsPlan(plan) /\ ToCopy(tool[t], doc, touched)
      /\ IsManifest(tool[t].backup) /\ Shows(tool[t].backup, doc, touched)
      /\ tool[t].created \subseteq Paths
      /\ tool[t].backup # NoManifest => tool[t].created \cap DOMAIN tool[t].backup.entries \subseteq touched
  BY <1>1 DEF HalfDone, Working
<1>3. Shows(plan.becomes, doc, touched)
  BY <1>1, <1>2 DEF ToCopy, Shows
<1>4. FilesAre'
  BY <1>1, <1>2, <1>3 DEF FilesAre, IsPlan
<1>5. \A u \in Tools \ {t} : ~AtWork(u)
  BY <1>1, WorksAlone DEF AtWork
<1>6. CASE plan.kind = "copy"
  <2>1. tool' = [tool EXCEPT ![t] = IdleTool]
    BY <1>6 DEF Install
  <2>2. IdleTool.at = "idle" /\ ToolStands(IdleTool)'
        /\ DOMAIN Evidence(IdleTool) = {} /\ IdleTool.at \notin Working
    BY RestingIs DEF ToolStands, IdleTool
  <2> QED
    BY <1>1, <1>4, <1>5, <2>1, <2>2, StepOf DEF IsCreated
<1>7. CASE plan.kind # "copy"
  <2>1. PICK x : tool' = [tool EXCEPT ![t] = x] /\ x = [tool[t] EXCEPT !.at = "verifying"]
    BY <1>7 DEF Install
  <2>2. /\ x.at = "verifying" /\ x.plan = plan /\ x.created = tool[t].created
        /\ x.backup = tool[t].backup /\ DOMAIN x = {"at", "plan", "left", "created", "backup"}
    BY <1>2, <2>1
  <2>3. HalfDone(x, manifest, doc, touched)'
    <3>1. ManifestIs(x, manifest')
      BY <1>1, <1>7, <2>2 DEF ManifestIs
    <3> QED
      BY <1>1, <1>2, <2>2, <3>1 DEF HalfDone
  <2> QED
    BY <1>1, <1>4, <1>5, <2>1, <2>2, <2>3, WorkStep DEF Working
<1> QED
  BY <1>6, <1>7

(* A copy fails, or a verification does.                                   *)
LEMMA FailStep ==
    ASSUME NEW t \in Tools, ~spoilt, DocsInv, VerifyManifest(t) \/ CopyFails(t), ~spoilt'
    PROVE  DocsInv'
<1>1. CASE tool' = [tool EXCEPT ![t] = IdleTool] /\ VerifyManifest(t)
  BY <1>1, RestStep DEF VerifyManifest, IdleTool
<1>2. CASE tool[t].at \in {"copying", "verifying"} /\ ToolGoes(t, "undoing")
  <2>1. PICK x : tool' = [tool EXCEPT ![t] = x] /\ x = [tool[t] EXCEPT !.at = "undoing"]
    BY <1>2 DEF ToolGoes
  <2>2. /\ HalfDone(tool[t], manifest, doc, touched) /\ FilesAre
        /\ UNCHANGED <<outside, doc, manifest, touched>>
    BY DEF DocsInv, FilesAre, VerifyManifest, CopyFails
  <2>3. /\ DOMAIN tool[t] = {"at", "plan", "left", "created", "backup"}
        /\ ManifestIs(tool[t], manifest)
    BY <1>2, <2>2 DEF HalfDone, Working
  <2>4. /\ x.at = "undoing" /\ x.plan = tool[t].plan /\ x.created = tool[t].created
        /\ x.backup = tool[t].backup /\ DOMAIN x = {"at", "plan", "left", "created", "backup"}
    BY <2>1, <2>3
  <2>5. ManifestIs(x, manifest)
    BY <1>2, <2>3, <2>4 DEF ManifestIs
  <2>6. HalfDone(x, manifest, doc, touched)
    BY <1>2, <2>2, <2>4, <2>5 DEF HalfDone, Working
  <2>7. \A u \in Tools \ {t} : ~AtWork(u)
    BY <1>2, WorksAlone DEF AtWork
  <2>8. FilesAre' /\ HalfDone(x, manifest, doc, touched)'
    BY <2>2, <2>6 DEF FilesAre
  <2> QED
    BY <1>2, <2>1, <2>2, <2>4, <2>7, <2>8, WorkStep DEF Working
<1> QED
  BY <1>1, <1>2 DEF VerifyManifest, CopyFails

LEMMA CopyStep ==
    ASSUME NEW t \in Tools, ~spoilt, DocsInv, CopyFile(t), ~spoilt'
    PROVE  DocsInv'
<1> DEFINE plan == tool[t].plan
<1>1. /\ tool[t].at = "copying" /\ FilesAre
      /\ HalfDone(tool[t], manifest, doc, touched)
      /\ UNCHANGED <<outside, manifest, touched>>
  BY DEF CopyFile, DocsInv, FilesAre
<1>2. /\ DOMAIN tool[t] = {"at", "plan", "left", "created", "backup"}
      /\ IsPlan(plan) /\ ToCopy(tool[t], doc, touched)
      /\ IsManifest(tool[t].backup) /\ manifest = tool[t].backup
      /\ tool[t].created \subseteq Paths
      /\ tool[t].backup # NoManifest => tool[t].created \cap DOMAIN tool[t].backup.entries \subseteq touched
  BY <1>1 DEF HalfDone, ManifestIs, Working
<1>3. PICK c \in tool[t].left :
         IF doc[c.to] # Nothing
         THEN tool' = [tool EXCEPT ![t].left = @ \ {c}] /\ UNCHANGED doc
         ELSE LET found == Has(plan, c.from)
              IN  /\ doc' = [doc EXCEPT ![c.to] = found]
                  /\ IF found = c.content
                     THEN tool' = [tool EXCEPT ![t].left = @ \ {c}, ![t].created = @ \cup {c.to}]
                     ELSE ToolGoes(t, "undoing")
  BY DEF CopyFile
<1>4. /\ c \in plan.copies /\ c.to \in Paths /\ c.content \in Texts
      /\ Has(plan, c.from) \in Document
  BY <1>1, <1>2 DEF ToCopy, IsPlan, CopiesAreOne, Has, FilesAre
<1>5. \A u \in Tools \ {t} : ~AtWork(u)
  BY <1>1, WorksAlone DEF AtWork
<1>6. \A p \in Paths : doc'[p] = doc[p] \/ (doc[p] = Nothing /\ p = c.to)
  BY <1>1, <1>3, <1>4 DEF FilesAre
<1>7. FilesAre'
  <2>1. doc' \in [Paths -> Document]
    BY <1>1, <1>3, <1>4 DEF FilesAre
  <2>2. Shows(manifest, doc', touched)
    BY <1>1, <1>6, ShowsKept DEF FilesAre
  <2> QED
    BY <1>1, <2>1, <2>2 DEF FilesAre
<1>8. Shows(tool[t].backup, doc', touched)
  BY <1>1, <1>2, <1>7 DEF FilesAre
<1>9. CASE doc[c.to] # Nothing
  <2>1. PICK x : tool' = [tool EXCEPT ![t] = x] /\ x = [tool[t] EXCEPT !.left = @ \ {c}]
    BY <1>3, <1>9
  <2>2. /\ x.at = "copying" /\ x.plan = plan /\ x.created = tool[t].created
        /\ x.left = tool[t].left \ {c}
        /\ x.backup = tool[t].backup /\ DOMAIN x = {"at", "plan", "left", "created", "backup"}
    BY <1>1, <1>2, <2>1
  <2>3. ToCopy(x, doc, touched) /\ doc' = doc
    BY <1>2, <1>3, <1>9, <2>2 DEF ToCopy
  <2>4. HalfDone(x, manifest, doc, touched)'
    <3>1. ManifestIs(x, manifest')
      BY <1>1, <1>2, <2>2 DEF ManifestIs
    <3> QED
      BY <1>1, <1>2, <1>8, <2>2, <2>3, <3>1 DEF HalfDone
  <2> QED
    BY <1>1, <1>5, <1>6, <1>7, <2>1, <2>2, <2>4, WorkStep DEF Working
<1>10. CASE doc[c.to] = Nothing /\ Has(plan, c.from) = c.content
  <2>1. PICK x : /\ tool' = [tool EXCEPT ![t] = x]
                 /\ x = [tool[t] EXCEPT !.left = @ \ {c}, !.created = @ \cup {c.to}]
    BY <1>3, <1>10
  <2>2. /\ x.at = "copying" /\ x.plan = plan /\ x.created = tool[t].created \cup {c.to}
        /\ x.left = tool[t].left \ {c}
        /\ x.backup = tool[t].backup /\ DOMAIN x = {"at", "plan", "left", "created", "backup"}
    BY <1>1, <1>2, <2>1
  <2>3. ToCopy(x, doc', touched)
    <3>1. x.left \subseteq x.plan.copies
      BY <1>2, <2>2 DEF ToCopy
    <3>2. ASSUME NEW p \in DOMAIN plan.becomes.entries \ touched
          PROVE  \/ doc'[p] = plan.becomes.entries[p].sha
                 \/ /\ doc'[p] = Nothing
                    /\ \E d \in x.left : d.to = p /\ d.content = plan.becomes.entries[p].sha
      <4>1. p \in Paths /\ plan.becomes.entries[p].sha \in Texts
        BY <1>2 DEF IsPlan, IsManifest, EntriesAre
      <4>2. \/ doc[p] = plan.becomes.entries[p].sha
            \/ /\ doc[p] = Nothing
               /\ \E d \in tool[t].left : d.to = p /\ d.content = plan.becomes.entries[p].sha
        BY <1>2 DEF ToCopy
      <4>3. CASE p = c.to
        <5>1. PICK d \in tool[t].left : d.to = p /\ d.content = plan.becomes.entries[p].sha
          BY <1>10, <4>1, <4>2, <4>3, WorkDocumentsAssumption
        <5>2. d = c
          BY <1>2, <1>4, <4>3, <5>1 DEF IsPlan, CopiesAreOne, ToCopy
        <5>3. doc'[p] = c.content
          BY <1>1, <1>3, <1>4, <1>10, <4>3 DEF FilesAre
        <5> QED
          BY <5>1, <5>2, <5>3
      <4>4. CASE p # c.to
        BY <1>6, <2>2, <4>1, <4>2, <4>4
      <4> QED
        BY <4>3, <4>4
    <3> QED
      BY <2>2, <3>1, <3>2 DEF ToCopy
  <2>4. HalfDone(x, manifest, doc, touched)'
    <3>1. ManifestIs(x, manifest')
      BY <1>1, <1>2, <2>2 DEF ManifestIs
    <3>2. x.created \subseteq Paths
      BY <1>2, <1>4, <2>2
    <3>3. (x.backup # NoManifest /\ c.to \in DOMAIN x.backup.entries) => c.to \in touched
      BY <1>1, <1>2, <1>10, <2>2, WorkDocumentsAssumption DEF FilesAre, Shows, IsManifest, EntriesAre
    <3>4. x.backup # NoManifest => x.created \cap DOMAIN x.backup.entries \subseteq touched
      BY <1>2, <2>2, <3>3
    <3> QED
      BY <1>1, <1>2, <1>8, <2>2, <2>3, <3>1, <3>2, <3>4 DEF HalfDone
  <2> QED
    BY <1>1, <1>5, <1>6, <1>7, <1>10, <2>1, <2>2, <2>4, WorkStep DEF Working
<1>11. CASE doc[c.to] = Nothing /\ Has(plan, c.from) # c.content
  <2>1. PICK x : tool' = [tool EXCEPT ![t] = x] /\ x = [tool[t] EXCEPT !.at = "undoing"]
    BY <1>3, <1>11 DEF ToolGoes
  <2>2. /\ x.at = "undoing" /\ x.plan = plan /\ x.created = tool[t].created
        /\ x.backup = tool[t].backup /\ DOMAIN x = {"at", "plan", "left", "created", "backup"}
    BY <1>2, <2>1
  <2>3. HalfDone(x, manifest, doc, touched)'
    <3>1. ManifestIs(x, manifest')
      BY <1>1, <1>2, <2>2 DEF ManifestIs
    <3> QED
      BY <1>1, <1>2, <1>8, <2>2, <3>1 DEF HalfDone
  <2> QED
    BY <1>1, <1>5, <1>6, <1>7, <2>1, <2>2, <2>3, WorkStep DEF Working
<1> QED
  BY <1>9, <1>10, <1>11

(* Undoing takes away what the tool created, and puts back the manifest    *)
(* that it found.                                                          *)
LEMMA UndoIs ==
    ASSUME NEW t \in Tools, ~spoilt, DocsInv, Undo(t), ~spoilt'
    PROVE  DocsInv'
<1> DEFINE plan == tool[t].plan
<1>1. /\ tool[t].at \in {"undoing", "unlinking"} /\ FilesAre
      /\ HalfDone(tool[t], manifest, doc, touched)
      /\ UNCHANGED <<outside, touched>> /\ UndoStep(t)
  BY DEF Undo, DocsInv, FilesAre
<1>2. /\ DOMAIN tool[t] = {"at", "plan", "left", "created", "backup"}
      /\ IsPlan(plan) /\ ManifestIs(tool[t], manifest)
      /\ IsManifest(tool[t].backup) /\ Shows(tool[t].backup, doc, touched)
      /\ tool[t].created \subseteq Paths
      /\ tool[t].backup # NoManifest => tool[t].created \cap DOMAIN tool[t].backup.entries \subseteq touched
  BY <1>1 DEF HalfDone, Working
<1>3. \A u \in Tools \ {t} : ~AtWork(u)
  BY <1>1, WorksAlone DEF AtWork
<1>4. ASSUME NEW at, at = tool[t].at, Unlink(t, at), manifest = tool[t].backup
      PROVE  DocsInv'
  <2>1. PICK p \in tool[t].created :
          /\ doc' = [doc EXCEPT ![p] = Nothing]
          /\ tool' = [tool EXCEPT ![t].at = at, ![t].created = @ \ {p}]
          /\ UNCHANGED manifest
    BY <1>4 DEF Unlink
  <2>2. PICK x : /\ tool' = [tool EXCEPT ![t] = x]
                 /\ x = [tool[t] EXCEPT !.at = at, !.created = @ \ {p}]
    BY <2>1
  <2>3. /\ x.at = at /\ x.plan = plan /\ x.created = tool[t].created \ {p}
        /\ x.backup = tool[t].backup /\ DOMAIN x = {"at", "plan", "left", "created", "backup"}
    BY <1>2, <2>2
  <2>4. \A q \in Paths : doc'[q] = doc[q] \/ q = p
    BY <1>1, <2>1 DEF FilesAre
  <2>5. Shows(manifest, doc', touched)
    <3>1. \A q \in Paths \ touched : doc'[q] = doc[q]
                                     \/ (manifest # NoManifest => q \notin DOMAIN manifest.entries)
      BY <1>2, <1>4, <2>1, <2>4
    <3> QED
      BY <1>1, <3>1, ShowsKept DEF FilesAre
  <2>6. doc' \in [Paths -> Document]
    BY <1>1, <2>1 DEF FilesAre, Document
  <2>7. FilesAre'
    BY <1>1, <2>1, <2>5, <2>6 DEF FilesAre
  <2>8. HalfDone(x, manifest, doc, touched)'
    <3>1. ManifestIs(x, manifest')
      BY <1>1, <1>2, <1>4, <2>1, <2>3 DEF ManifestIs
    <3> QED
      BY <1>1, <1>2, <1>4, <2>1, <2>3, <2>5, <3>1 DEF HalfDone
  <2> QED
    BY <1>1, <1>3, <1>4, <2>1, <2>2, <2>3, <2>4, <2>7, <2>8, WorkStep DEF Working
<1>5. ASSUME PutBack(t, "unlinking")
      PROVE  DocsInv'
  <2>1. PICK x : tool' = [tool EXCEPT ![t] = x] /\ x = [tool[t] EXCEPT !.at = "unlinking"]
    BY <1>5 DEF PutBack, ToolGoes
  <2>2. /\ x.at = "unlinking" /\ x.plan = plan /\ x.created = tool[t].created
        /\ x.backup = tool[t].backup /\ DOMAIN x = {"at", "plan", "left", "created", "backup"}
    BY <1>2, <2>1
  <2>3. manifest' = tool[t].backup /\ doc' = doc
    BY <1>5 DEF PutBack
  <2>4. FilesAre'
    BY <1>1, <1>2, <2>3 DEF FilesAre
  <2>5. HalfDone(x, manifest, doc, touched)'
    <3>1. ManifestIs(x, manifest')
      BY <2>2, <2>3 DEF ManifestIs
    <3> QED
      BY <1>1, <1>2, <2>2, <2>3, <3>1 DEF HalfDone
  <2> QED
    BY <1>1, <1>3, <2>1, <2>2, <2>3, <2>4, <2>5, WorkStep DEF Working
<1>6. \/ PutBack(t, "unlinking")
      \/ plan.kind = "copy" /\ tool[t].at = "undoing" /\ Unlink(t, "undoing")
      \/ tool[t].at = "unlinking" /\ Unlink(t, "unlinking")
  BY <1>1 DEF UndoStep
<1>7. CASE plan.kind = "copy" /\ tool[t].at = "undoing" /\ Unlink(t, "undoing")
  BY <1>2, <1>4, <1>7 DEF ManifestIs
<1>8. CASE tool[t].at = "unlinking" /\ Unlink(t, "unlinking")
  BY <1>2, <1>4, <1>8 DEF ManifestIs
<1> QED
  BY <1>5, <1>6, <1>7, <1>8

(* A tool that reads what is listed, or imports what it read: it is the    *)
(* only one at work, and what it knows is there.                           *)
LEMMA KnowStep ==
    ASSUME NEW t \in Tools, NEW x, ~spoilt, DocsInv, ~spoilt',
           x.at \in {"reading", "imported"}, tool' = [tool EXCEPT ![t] = x],
           Knows(x, doc, touched), \A u \in Tools \ {t} : ~AtWork(u),
           UNCHANGED <<outside, doc, manifest, touched>>
    PROVE  DocsInv'
<1>1. FilesAre' /\ ToolStands(x)'
  BY DEF DocsInv, FilesAre, ToolStands, ToolIs, HalfDone, Working
<1>2. \A u \in Tools \ {t} : tool[u].at \notin Working
  BY DEF AtWork, Working
<1>3. x.at \notin Working
  BY DEF Working
<1> QED
  BY <1>1, <1>2, <1>3, StepOf DEF IsCreated

LEMMA ReadStep ==
    ASSUME NEW t \in Tools, ~spoilt, DocsInv, ReadListed(t), ~spoilt'
    PROVE  DocsInv'
<1>1. PICK x : /\ tool' = [tool EXCEPT ![t] = x]
               /\ x = [at |-> "reading", layout |-> manifest.layout,
                       found |-> [p \in DOMAIN manifest.entries |-> doc[p]]]
  BY DEF ReadListed
<1>2. /\ x.at = "reading" /\ DOMAIN x = {"at", "layout", "found"}
      /\ x.found = [p \in DOMAIN manifest.entries |-> doc[p]]
  BY <1>1
<1>3. IsManifest(manifest) /\ manifest # NoManifest
  BY DEF ReadListed, Valid, NoManifest, DocsInv
<1>4. Evidence(x) = x.found
  BY <1>2 DEF Evidence
<1>5. Knows(x, doc, touched)
  BY <1>2, <1>3, <1>4 DEF Knows, ReadListed, IsManifest, EntriesAre
<1>6. \A u \in Tools \ {t} : ~AtWork(u)
  BY WorksAlone DEF ReadListed
<1> QED
  BY <1>1, <1>2, <1>5, <1>6, KnowStep DEF ReadListed

LEMMA ImportStep ==
    ASSUME NEW t \in Tools, ~spoilt, DocsInv, Import(t), ~spoilt'
    PROVE  DocsInv'
<1> DEFINE found == tool[t].found
<1>1. PICK also \in SUBSET {p \in Paths : doc[p] # Nothing} :
         tool' = [tool EXCEPT ![t] =
                    [at |-> "imported",
                     evidence |-> [p \in DOMAIN found \cup also |->
                                     IF p \in also THEN doc[p] ELSE found[p]]]]
  BY DEF Import
<1> DEFINE x == [at |-> "imported",
                 evidence |-> [p \in DOMAIN found \cup also |->
                                 IF p \in also THEN doc[p] ELSE found[p]]]
<1>2. tool[t].at = "reading" /\ Knows(tool[t], doc, touched) /\ FilesAre
  BY DEF Import, DocsInv, FilesAre
<1>3. Evidence(tool[t]) = found
  BY <1>2 DEF Evidence
<1>4. PICK y : y = x
  OBVIOUS
<1>5. /\ y.at = "imported"
      /\ y.evidence = [p \in DOMAIN found \cup also |->
                         IF p \in also THEN doc[p] ELSE found[p]]
  BY <1>4
<1>6. tool' = [tool EXCEPT ![t] = y]
  BY <1>1, <1>4
<1> HIDE DEF x
<1>7. Evidence(y) = y.evidence
  BY <1>5 DEF Evidence
<1>8. \A p \in Paths : doc[p] # Nothing => doc[p] \in Texts
  BY <1>2 DEF FilesAre, Document
<1>9. Knows(y, doc, touched)
  BY <1>2, <1>3, <1>5, <1>7, <1>8 DEF Knows
<1>10. \A u \in Tools \ {t} : ~AtWork(u)
  BY <1>2, WorksAlone DEF AtWork
<1> QED
  BY <1>5, <1>6, <1>9, <1>10, KnowStep DEF Import

(* What the owner edits is no longer vouched for, and nothing else is      *)
(* affected.                                                               *)
LEMMA EditStep ==
    ASSUME NEW p \in Paths, NEW text \in Document, ~spoilt, DocsInv, OwnerEdits(p, text)
    PROVE  DocsInv'
<1>1. /\ doc' = [doc EXCEPT ![p] = text] /\ touched' = touched \cup {p}
      /\ UNCHANGED <<outside, manifest, tool, spoilt>>
  BY DEF OwnerEdits
<1>2. /\ doc \in [Paths -> Document] /\ outside \in [Sources -> Document]
      /\ IsManifest(manifest) /\ Shows(manifest, doc, touched)
  BY DEF DocsInv
<1>3. \A q \in Paths \ touched' : doc'[q] = doc[q]
  BY <1>1, <1>2
<1>4. touched \subseteq touched'
  BY <1>1
<1>5. doc' \in [Paths -> Document]
  BY <1>1, <1>2
<1>6. Shows(manifest, doc', touched')
  BY <1>2, <1>3, <1>4, ShowsKept
<1>7. ASSUME NEW t \in Tools
      PROVE  /\ ToolIs(tool[t]) /\ HalfDone(tool[t], manifest, doc', touched')
             /\ Knows(tool[t], doc', touched')
  <2>1. ToolIs(tool[t]) /\ HalfDone(tool[t], manifest, doc, touched) /\ Knows(tool[t], doc, touched)
    BY DEF DocsInv
  <2>2. Knows(tool[t], doc', touched')
    BY <1>3, <1>4, <2>1, KnowsKept
  <2>3. ASSUME tool[t].at \in Working
        PROVE  HalfDone(tool[t], manifest, doc', touched')
    <3>1. Shows(tool[t].backup, doc', touched')
      BY <1>3, <1>4, <2>1, <2>3, ShowsKept DEF HalfDone
    <3>2. ASSUME tool[t].at = "copying"
          PROVE  ToCopy(tool[t], doc', touched')
      <4>1. ToCopy(tool[t], doc, touched) /\ IsPlan(tool[t].plan)
        BY <2>1, <2>3, <3>2 DEF HalfDone
      <4>2. \A q \in DOMAIN tool[t].plan.becomes.entries \ touched' :
              q \notin touched /\ doc'[q] = doc[q]
        BY <1>3, <1>4, <4>1 DEF IsPlan, IsManifest, EntriesAre
      <4> QED
        BY <4>1, <4>2 DEF ToCopy
    <3> QED
      BY <1>4, <2>1, <2>3, <3>1, <3>2 DEF HalfDone
  <2>4. HalfDone(tool[t], manifest, doc', touched')
    BY <2>3 DEF HalfDone
  <2> QED
    BY <2>1, <2>2, <2>4
<1>8. \A t, u \in Tools : IsCreated(tool[t], tool[u], touched')
  BY <1>4 DEF DocsInv, IsCreated
<1>9. DOMAIN tool = Tools /\ \A t, u \in Tools : AtWork(t) /\ AtWork(u) => t = u
  BY DEF DocsInv
<1>10. \A t, u \in Tools : AtWork(t)' /\ AtWork(u)' => t = u
  BY <1>1, <1>9 DEF AtWork
<1> QED
  BY <1>1, <1>2, <1>5, <1>6, <1>7, <1>8, <1>9, <1>10 DEF DocsInv

LEMMA EditOutsideStep ==
    ASSUME NEW s \in Sources, NEW text \in Document, ~spoilt, DocsInv, EditOutside(s, text)
    PROVE  DocsInv'
<1>1. outside' \in [Sources -> Document]
  BY DEF EditOutside, DocsInv
<1>2. UNCHANGED <<doc, manifest, tool, touched, spoilt>>
  BY DEF EditOutside
<1> QED
  BY <1>1, <1>2 DEF DocsInv, AtWork

LEMMA DocsInitIs == DocsInit => DocsInv
<1> SUFFICES ASSUME DocsInit
             PROVE  DocsInv
  OBVIOUS
<1>1. DOMAIN tool = Tools /\ \A t \in Tools : tool[t] = IdleTool /\ IdleTool.at = "idle"
  BY DEF DocsInit, IdleTool
<1>2. \A t \in Tools : ToolStands(tool[t]) /\ DOMAIN Evidence(tool[t]) = {} /\ tool[t].at \notin Working
  BY <1>1, RestingIs DEF ToolStands
<1>3. FilesAre
  <2>1. outside \in [Sources -> Document]
    BY DEF DocsInit, Document
  <2>2. CASE doc = [p \in Paths |-> Nothing] /\ manifest = NoManifest
    BY <2>1, <2>2 DEF FilesAre, Document, IsManifest, Shows
  <2>3. ASSUME NEW olds \in [Olds -> Texts],
               doc = [p \in Paths |-> IF IsOld(p) THEN olds[p[2]] ELSE Nothing],
               manifest = [layout |-> 1, aliases |-> {}, preserved |-> {},
                           entries |-> [p \in {Old(o) : o \in Olds} |-> New(olds[p[2]])]]
        PROVE  FilesAre
    <3>1. doc \in [Paths -> Document]
      BY <2>3, PlacesArePaths DEF Document
    <3>2. \A p \in {Old(o) : o \in Olds} : p \in Paths /\ IsOld(p) /\ olds[p[2]] \in Texts
      BY <2>3, PlacesArePaths DEF Old
    <3> DEFINE E == [p \in {Old(o) : o \in Olds} |-> New(olds[p[2]])]
    <3>3. EntriesAre(E) /\ \A p \in DOMAIN E : E[p].sha = doc[p]
      BY <2>3, <3>2, NewIs DEF EntriesAre
    <3>4. manifest.entries = E /\ DOMAIN manifest = {"layout", "aliases", "preserved", "entries"}
      BY <2>3
    <3> QED
      BY <2>1, <3>1, <3>3, <3>4 DEF FilesAre, IsManifest, Shows
  <2>4. ASSUME NEW first \in Texts, NEW second \in Texts,
               doc = [p \in Paths |-> IF p \in {Plain(q) : q \in DocPlaces} THEN second ELSE Nothing],
               manifest = [layout |-> 2, aliases |-> {}, preserved |-> {},
                           entries |-> [p \in {Plain(q) : q \in DocPlaces} |->
                              [sha |-> second, revision |-> 2, previous |-> first]]]
        PROVE  FilesAre
    <3>1. doc \in [Paths -> Document]
      BY <2>4 DEF Document
    <3> DEFINE E == [p \in {Plain(q) : q \in DocPlaces} |->
                       [sha |-> second, revision |-> 2, previous |-> first]]
    <3>2. EntriesAre(E) /\ \A p \in DOMAIN E : E[p].sha = doc[p]
      BY <2>4, PlacesArePaths DEF EntriesAre
    <3>3. manifest.entries = E /\ DOMAIN manifest = {"layout", "aliases", "preserved", "entries"}
      BY <2>4
    <3> QED
      BY <2>1, <3>1, <3>2, <3>3 DEF FilesAre, IsManifest, Shows
  <2> QED
    BY <2>2, <2>3, <2>4 DEF DocsInit
<1>4. \A t, u \in Tools : AtWork(t) /\ AtWork(u) => t = u
  BY <1>1 DEF AtWork
<1> QED
  BY <1>1, <1>2, <1>3, <1>4 DEF DocsInv, FilesAre, ToolStands, IsCreated

LEMMA DocsStep == DocsInv /\ [DocsNext]_docsVars => DocsInv'
<1> SUFFICES ASSUME DocsInv, [DocsNext]_docsVars
             PROVE  DocsInv'
  OBVIOUS
<1>1. CASE UNCHANGED docsVars
  BY <1>1 DEF docsVars, DocsInv, AtWork
<1>2. CASE DocsNext
  <2>1. CASE spoilt'
    BY <2>1 DEF DocsInv
  <2>2. ASSUME ~spoilt', ~spoilt, NEW t \in Tools,
               \/ PlanAny(t) \/ CompareFiles(t) \/ CopyFile(t) \/ Install(t) \/ VerifyManifest(t)
               \/ CopyFails(t) \/ Undo(t) \/ LeavePlan(t) \/ ToolDies(t) \/ ReadListed(t) \/ Import(t)
        PROVE  DocsInv'
    BY <2>2, PlanStep, CompareStep, CopyStep, InstallStep, FailStep, UndoIs, LeaveStep, ReadStep, ImportStep
  <2>3. ASSUME ~spoilt, NEW p \in Paths, NEW c \in Texts \cup {Nothing}, OwnerEdits(p, c)
        PROVE  DocsInv'
    BY <2>3, EditStep DEF Document
  <2>4. ASSUME ~spoilt, NEW s \in Sources, NEW c \in Texts \cup {Nothing}, EditOutside(s, c)
        PROVE  DocsInv'
    BY <2>4, EditOutsideStep DEF Document
  <2> QED
    BY <1>2, <2>1, <2>2, <2>3, <2>4 DEF DocsNext
<1> QED
  BY <1>1, <1>2

(* The invariant of the work documents: what is listed is as it is listed, *)
(* one tool at most is in the middle of something, and it knows what is    *)
(* missing and what it created.                                            *)
THEOREM DocsInvariant == DocsSpec => []DocsInv
<1>1. DocsInit => DocsInv
  BY DocsInitIs
<1>2. DocsInv /\ [DocsNext]_docsVars => DocsInv'
  BY DocsStep
<1> QED
  BY <1>1, <1>2, PTL DEF DocsSpec

(* What the manifest lists and what the work items name as evidence is     *)
(* there with that content, unless the owner edited it, whatever fails or  *)
(* dies, as long as no tool wrote while another one was at work.           *)
THEOREM ListedStays == DocsSpec => []ListedIsThere
<1>1. DocsInv => ListedIsThere
  <2>1. SUFFICES ASSUME DocsInv, ~spoilt
        PROVE  /\ manifest # NoManifest =>
                    \A p \in DOMAIN manifest.entries \ touched : doc[p] = manifest.entries[p].sha
               /\ \A t \in Tools : tool[t].at = "imported" =>
                    \A p \in DOMAIN tool[t].evidence \ touched : doc[p] = tool[t].evidence[p]
    BY DEF ListedIsThere
  <2>2. \A t \in Tools : tool[t].at = "imported" => Evidence(tool[t]) = tool[t].evidence
    BY DEF Evidence
  <2> QED
    BY <2>1, <2>2 DEF DocsInv, Shows, Knows
<1> QED
  BY <1>1, DocsInvariant, PTL
=============================================================================
