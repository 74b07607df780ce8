---------------------------- MODULE HarnessPacing ----------------------------
(***************************************************************************)
(* The pacing profile of one harness (src/harness-pacing): appendEvent     *)
(* reads the whole profile, adds an event and writes it back in place,     *)
(* with no lock; recommend derives a recommendation from the profile and   *)
(* the shipped seed.  Several processes append, and each may die in its    *)
(* write.                                                                  *)
(***************************************************************************)
EXTENDS Naturals, Sequences, FiniteSets

CONSTANTS
  Writer,          \* processes that call appendEvent
  Offered,         \* events they come with
  Absent,          \* no file
  Empty, Torn      \* just truncated; anything else that does not parse

EventType == {"CRASH", "MILESTONE"}
Hash == {"h1", "h2"}
Format == {"double_enter", "single_line_flatten"}

(* An event, in the fields that something depends on. *)
Event == [type : EventType \cup {"?"}, hash : Hash \cup {"none"},
          delivery : Format \cup {"none", "blank"}, format : Format \cup {"none"},
          separator : {"none", "given", "blank"}]

Bundling == {"allowed", "avoid", "unknown"}
Recommendation == [bucket : {"0-100-words", "wide"}, wait : Nat,
                   bundling : Bundling, phases : Bundling]

Profile == [samples_total : Nat, events : Seq(Event),
            crash_signatures : Seq(Hash), recommended : Recommendation]

PacingAssumption ==
  /\ Offered \subseteq Event /\ IsFiniteSet(Offered)
  /\ Absent # Empty /\ Absent # Torn /\ Empty # Torn
  /\ \A f \in {Absent, Empty, Torn} : f \notin Profile

-----------------------------------------------------------------------------
(* The choke point: isValidPacingEvent and isValidHarnessProfile. *)
isValidPacingEvent(e) == e.type \in EventType /\ e.separator # "blank"

Elements(s) == { s[i] : i \in DOMAIN s }
NoneTwice(s) == \A i, j \in DOMAIN s : s[i] = s[j] => i = j

isValidHarnessProfile(p) ==
  /\ p.samples_total = Len(p.events)
  /\ \A e \in Elements(p.events) : isValidPacingEvent(e)
  /\ p.recommended \in Recommendation

(* normalizeEventFormatFields: the delivery format falls back on the        *)
(* message format only where it is missing; a blank one is dropped.         *)
normalizeEventFormatFields(e) ==
  CASE e.delivery = "none" -> [e EXCEPT !.delivery = e.format]
    [] e.delivery = "blank" -> [e EXCEPT !.delivery = "none"]
    [] OTHER -> e

NoData == [bucket |-> "0-100-words", wait |-> 3, bundling |-> "unknown",
           phases |-> "unknown"]
CountsFromOne ==
  [samples_total |-> 1, events |-> << >>, crash_signatures |-> << >>, recommended |-> NoData]
buildDefaultProfile ==
  [samples_total |-> 0, events |-> << >>, crash_signatures |-> << >>, recommended |-> NoData]

AnyHash(sigs, hash) == IF hash = "none" THEN sigs ELSE Append(sigs, hash)
WithSignature(sigs, hash) ==
  IF hash # "none" /\ hash \notin Elements(sigs) THEN Append(sigs, hash) ELSE sigs

NextProfile(p, e) ==
  [samples_total |-> Len(p.events) + 1,
   events |-> Append(p.events, normalizeEventFormatFields(e)),
   crash_signatures |-> WithSignature(p.crash_signatures, e.hash),
   recommended |-> p.recommended]

Whole(f) == f \notin {Absent, Empty, Torn}
Readable(f) == Whole(f) /\ isValidHarnessProfile(f)

-----------------------------------------------------------------------------
(* recommend.  A seed: none, one that does not validate, one with a crash. *)
SeedKind == {"none", "malformed", "crash"}
Crashed == [bucket |-> "0-100-words", wait |-> 5, bundling |-> "avoid", phases |-> "avoid"]
loadSeed(kind) == kind = "crash"

applyCrashOverride(rec, crashCount) ==
  IF crashCount = 0 THEN rec
  ELSE [bucket |-> "0-100-words",
        wait |-> IF rec.wait < 5 THEN 5 ELSE rec.wait,
        bundling |-> "avoid",
        phases |-> IF rec.phases = "allowed" THEN "avoid" ELSE rec.phases]

isConservativeRecommendation(rec) ==
  rec.bucket = "0-100-words" /\ rec.bundling = "avoid" /\ rec.wait >= 5

conservativeFallback ==
  [bucket |-> "0-100-words", wait |-> 5, bundling |-> "unknown", phases |-> "unknown"]

CrashesOf(f) == IF Readable(f) THEN Len(f.crash_signatures) ELSE 0
LocalFirst(f, kind) ==
  IF Readable(f) THEN CrashesOf(f) ELSE IF loadSeed(kind) THEN 1 ELSE 0
CrashCount(f, kind) ==
  IF loadSeed(kind) /\ CrashesOf(f) < 1 THEN 1 ELSE CrashesOf(f)

recommend(f, kind) ==
  IF Readable(f) THEN applyCrashOverride(f.recommended, CrashCount(f, kind))
  ELSE IF loadSeed(kind) THEN applyCrashOverride(Crashed, CrashCount(f, kind))
  ELSE conservativeFallback

-----------------------------------------------------------------------------
VARIABLES
  file,            \* profile.json
  seed,            \* the shipped seed
  left,            \* the events still to come, each once
  pc, event, next, \* of each writer: its place, its event, what it will write
  acked, raced     \* history: events written and returned; events whose append
                   \* overlapped another

vars == <<file, seed, left, pc, event, next, acked, raced>>

NoEvent == [type |-> "?", hash |-> "none", delivery |-> "none",
            format |-> "none", separator |-> "none"]

Permissive ==
  [samples_total |-> 0, events |-> << >>, crash_signatures |-> << >>,
   recommended |-> [bucket |-> "wide", wait |-> 0, bundling |-> "allowed",
                    phases |-> "allowed"]]

TypeOK ==
  /\ seed \in SeedKind
  /\ left \subseteq Offered /\ acked \subseteq Offered /\ raced \subseteq Offered
  /\ pc \in [Writer -> {"idle", "read", "open"}]
  /\ event \in [Writer -> Offered \cup {NoEvent}]
  /\ \A w \in Writer : isValidHarnessProfile(next[w])
  /\ Whole(file) => Len(file.events) <= Cardinality(Offered)

Init ==
  /\ file \in {Absent, Permissive}
  /\ seed \in SeedKind
  /\ left = Offered
  /\ pc = [w \in Writer |-> "idle"]
  /\ event = [w \in Writer |-> NoEvent]
  /\ next = [w \in Writer |-> buildDefaultProfile]
  /\ acked = {} /\ raced = {}

Active == { w \in Writer : pc[w] # "idle" }

Finish(w) ==
  /\ pc' = [pc EXCEPT ![w] = "idle"]
  /\ event' = [event EXCEPT ![w] = NoEvent]
  /\ next' = [next EXCEPT ![w] = buildDefaultProfile]

-----------------------------------------------------------------------------
(* appendEvent: the checks and the read.  An invalid event, and a file that *)
(* is there but does not validate, end it without a word.                   *)
ReplacesTorn == IF Readable(file) THEN {file} ELSE {buildDefaultProfile}
Existing ==
  IF file = Absent THEN {buildDefaultProfile}
  ELSE IF Readable(file) THEN {file} ELSE {}

Ignore(e) ==
  /\ e \in left
  /\ ~isValidPacingEvent(e) \/ Existing = {}
  /\ left' = left \ {e}
  /\ UNCHANGED <<file, seed, pc, event, next, acked, raced>>

Read(w, e) ==
  /\ pc[w] = "idle"
  /\ e \in left
  /\ isValidPacingEvent(e)
  /\ \E p \in Existing :
       /\ isValidHarnessProfile(NextProfile(p, e))
       /\ next' = [next EXCEPT ![w] = NextProfile(p, e)]
  /\ left' = left \ {e}
  /\ pc' = [pc EXCEPT ![w] = "read"]
  /\ event' = [event EXCEPT ![w] = e]
  /\ raced' = IF Active = {} THEN raced
              ELSE raced \cup {e} \cup { event[v] : v \in Active }
  /\ UNCHANGED <<file, seed, acked>>

(* writeFileSync: open truncates, then the bytes go from the start of the   *)
(* file, over what another writer may have put there since.  If that has    *)
(* more bytes, whatever its events, its end stays and the file is torn.     *)
Open(w) ==
  /\ pc[w] = "read"
  /\ file' = Empty
  /\ pc' = [pc EXCEPT ![w] = "open"]
  /\ UNCHANGED <<seed, left, event, next, acked, raced>>

Over(p) == IF file = Empty THEN {p} ELSE {p, Torn}

Write(w) ==
  /\ pc[w] = "open"
  /\ file' \in Over(next[w])
  /\ acked' = acked \cup {event[w]}
  /\ Finish(w)
  /\ UNCHANGED <<seed, left, raced>>

(* The process dies, or the disk is full: what is written of it stays. *)
Breaks(w) ==
  /\ pc[w] # "idle"
  /\ file' \in {file} \cup IF pc[w] = "open" THEN {Torn} ELSE {}
  /\ Finish(w)
  /\ UNCHANGED <<seed, left, acked, raced>>

(* An operator deletes a profile that is ignored and that nobody writes.    *)
OperatorRemoves ==
  /\ Active = {}
  /\ file \in {Empty, Torn}
  /\ file' = Absent
  /\ acked' = {}
  /\ UNCHANGED <<seed, left, pc, event, next, raced>>

Next ==
  \/ \E e \in Offered : Ignore(e)
  \/ \E w \in Writer, e \in Offered : Read(w, e)
  \/ \E w \in Writer : Open(w) \/ Write(w) \/ Breaks(w)
  \/ OperatorRemoves

Spec == Init /\ [][Next]_vars

-----------------------------------------------------------------------------
(* Whatever writers overlapped or died: a profile that parses validates,    *)
(* counts its events, lists the crash signature of each of them once, and   *)
(* holds only valid, normalised events.                                     *)
WholeProfileIsExact ==
  Whole(file) =>
    /\ isValidHarnessProfile(file)
    /\ Elements(file.crash_signatures)
         = { e.hash : e \in Elements(file.events) } \ {"none"}
    /\ NoneTwice(file.crash_signatures)
    /\ \A e \in Elements(file.events) : e.delivery # "blank"

(* An appended event is lost only to a writer that overlapped it, never to  *)
(* a later append, however many profiles were torn and ignored since.       *)
LostOnlyToRacers ==
  Readable(file) =>
    \A e \in acked \ raced : normalizeEventFormatFields(e) \in Elements(file.events)

(* recommend.ts: "a stale permissive local profile cannot silence a         *)
(* crash-safe seed", nor can a profile that is torn, lost or being written; *)
(* and a local crash signature counts whatever the seed is.                 *)
CrashesAreRespected ==
  (seed = "crash" \/ CrashesOf(file) > 0) =>
    isConservativeRecommendation(recommend(file, seed))

(* So a profile can be relied on: it is exact, keeps what nobody raced, and *)
(* crashes are heeded.                                                      *)
ProfileIsSound == WholeProfileIsExact /\ LostOnlyToRacers /\ CrashesAreRespected

(* recommend.ts "If crash samples are present (local or seed), the smallest *)
(* safe bucket (0-100 words) is enforced and slash_command_bundling is set  *)
(* to avoid".                                                               *)
CrashSamplesCount ==
  Readable(file) /\ (\E e \in Elements(file.events) : e.type = "CRASH") =>
    recommend(file, seed).bucket = "0-100-words"
      /\ recommend(file, seed).bundling = "avoid"
=============================================================================
