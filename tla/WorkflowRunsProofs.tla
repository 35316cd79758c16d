------------------------- MODULE WorkflowRunsProofs -------------------------
(***************************************************************************)
(* No completion call of WorkflowRuns waits in vain, lang has one          *)
(* activation of a run at a time, the stream ends only when nothing is     *)
(* left, and the cache keeps its bound, for any number of runs, tasks,     *)
(* local activities and faults.                                            *)
(*                                                                         *)
(* The first three are about one run q.  The handlers of the stream are    *)
(* operators on its state; Quiet(s, t, q) says what those that answer      *)
(* nobody may do to q between s and t, whatever run they are called for,   *)
(* and is reflexive and transitive.  The handlers of completions either    *)
(* answer the caller or keep its channel.                                  *)
(*                                                                         *)
(* The last is about all runs at once: Typed(s), the types of the stream's *)
(* state and the LRU order of the cache, is kept by every handler.         *)
(***************************************************************************)
EXTENDS WorkflowRuns, FiniteSetTheorems, NaturalsInduction, SequenceTheorems,
        WellFoundedInduction, TLAPS

\* A sequence, of whatever it holds.
IsSequence(x) == x \in Seq({x[i] : i \in DOMAIN x})

----------------------------------------------------------------------------
(* The inductive invariant.                                                *)

\* What is in the channels.
IsComplete(m, c, r) == m.t = "complete" /\ m.run = r /\ m.chan = c
Completing(seq, c, r) == \E i \in DOMAIN seq : IsComplete(seq[i], c, r)
IsPost(m, r) == m.t = "post" /\ m.run = r /\ m.chan = "lang"
Posted(seq, r) == \E i \in DOMAIN seq : IsPost(seq[i], r)
IsForLang(a, r) == a.run = r /\ a.kind \notin Automatic
ForLang(seq, r) == \E i \in DOMAIN seq : IsForLang(seq[i], r)
IsAutocomplete(a, r) == a.run = r /\ a.kind = "autocomplete"
IsAuto(a, r) == a.run = r /\ a.kind \in Automatic
ForAuto(seq, r) == \E i \in DOMAIN seq : IsAuto(seq[i], r)
IsAutoPost(m, r) == m.t = "post" /\ m.run = r /\ m.chan = "auto"
AutoPosted(seq, r) == \E i \in DOMAIN seq : IsAutoPost(seq[i], r)

\* The activation outstanding and the completions that wait, none when the
\* run is not cached.
ActOf(s, r) == IF Cached(s, r) THEN s.cache[r].act ELSE "none"
PageOf(s, r) == IF Cached(s, r) THEN s.cache[r].page ELSE <<>>
LaOf(s, r) == IF Cached(s, r) THEN s.cache[r].laDat ELSE <<>>
Keeps(slot, c) == slot # <<>> /\ slot[1].chan = c
Stored(s, c, r) == Keeps(PageOf(s, r), c) \/ Keeps(LaOf(s, r), c)

\* A slot for one completion of a caller that still waits.
IsSlot(x) == x = <<>> \/ (DOMAIN x = {1} /\ x[1].chan \in Callers)
IsRecord(h) == DOMAIN h = DOMAIN NewRun

\* The stream still runs.
Live == ~done /\ "two_activations" \notin asserts

\* A queue of inputs.
Inputs(x) ==
  IsSequence(x) /\ \A i \in DOMAIN x : x[i].t = "complete" => "run" \in DOMAIN x[i]

\* Local inputs, activations, lang, calls and cache are what they are.
Shapes ==
  /\ Inputs(local) /\ IsSequence(acts) /\ IsSequence(lru)
  /\ IsSequence(full) /\ \A i \in DOMAIN full : IsSequence(full[i])
  /\ DOMAIN lang = Runs /\ DOMAIN cache = Runs
  /\ DOMAIN call = Callers /\ \A c \in Callers : DOMAIN call[c] = Runs

\* The completions of r: in one place each, their callers wait, and at most
\* one is kept by the run.
Clean(r) ==
  /\ Cached(St, r) => IsRecord(cache[r]) /\ IsSlot(cache[r].page) /\ IsSlot(cache[r].laDat)
  /\ PageOf(St, r) = <<>> \/ LaOf(St, r) = <<>>
  /\ \A i \in DOMAIN local : local[i].t \in {"complete", "post"} /\ local[i].run = r
                               => local[i].chan \in Callers
  /\ \A c \in Callers :
        /\ Completing(local, c, r) => call[c][r] = "sent" /\ ~Stored(St, c, r)
        /\ Stored(St, c, r) => call[c][r] = "sent"
        /\ \A i, j \in DOMAIN local :
              IsComplete(local[i], c, r) /\ IsComplete(local[j], c, r) => i = j

\* Lang has, or is about to get, or completes, one activation of r at most.
\* While it does the run counts it as outstanding.
OneAtLang(r) ==
  /\ \A i, j \in DOMAIN acts : IsForLang(acts[i], r) /\ IsForLang(acts[j], r) => i = j
  /\ \A i, j \in DOMAIN local : IsPost(local[i], r) /\ IsPost(local[j], r) => i = j
  /\ ForLang(acts, r) => lang[r] = "none" /\ call["lang"][r] = "idle" /\ ~Posted(local, r)
  /\ lang[r] # "none" => call["lang"][r] = "idle" /\ ~Posted(local, r)
  /\ call["lang"][r] # "idle" => ~Posted(local, r)

LangBusy(r) ==
  lang[r] # "none" \/ call["lang"][r] # "idle" \/ Posted(local, r)

Outstanding(r) ==
  LangBusy(r) \/ ForLang(acts, r) => ActOf(St, r) \notin {"none", "Autocomplete"}

\* An autocomplete that the poll loop is to complete or completes came before
\* any activation for lang, which waits behind it.
InAutocomplete(r) ==
  \/ \E i \in DOMAIN acts : IsAutocomplete(acts[i], r)
  \/ \E i \in DOMAIN local : IsComplete(local[i], "auto", r) /\ local[i].ok
  \/ Stored(St, "auto", r)

AutoFirst(r) ==
  /\ InAutocomplete(r) => ~LangBusy(r)
  /\ \A i, j \in DOMAIN acts : IsAutocomplete(acts[i], r) /\ IsForLang(acts[j], r) => i < j

\* The poll loop has, or is about to get, or completes, one activation of r at
\* most, and the run counts it as outstanding, but for the AutoFail of
\* UpdateErr.
Recorded == "unrecorded_autofail" \notin asserts
OneInAuto(r) ==
  /\ \A i, j \in DOMAIN acts : IsAuto(acts[i], r) /\ IsAuto(acts[j], r) => i = j
  /\ \A i, j \in DOMAIN local : IsAutoPost(local[i], r) /\ IsAutoPost(local[j], r) => i = j
  /\ ForAuto(acts, r) => call["auto"][r] = "idle" /\ ~AutoPosted(local, r)
  /\ call["auto"][r] # "idle" => ~AutoPosted(local, r)

AutoCounted(r) ==
  Recorded => OneInAuto(r) /\ (InAuto(r) => ActOf(St, r) = "Autocomplete")

RunInvariant(r) ==
  Clean(r) /\ OneAtLang(r) /\ Outstanding(r) /\ AutoFirst(r) /\ AutoCounted(r)

\* What is left of r when the stream has ended.
Over(r) ==
  /\ (~LangBusy(r) /\ ~ForLang(acts, r)) \/ (ignore /\ ActOf(St, r) = "Eviction")
  /\ Recorded => ~InAuto(r)

\* What CallerWillBeAnswered says of r.
Waits(c, r) ==
  /\ Cached(St, r)
  /\ \/ \E d \in Range(cache[r].laDat) : d.chan = c
     \/ \E d \in Range(cache[r].page) : d.chan = c

Answered(r) ==
  \A c \in Callers : call[c][r] = "sent" => done \/ Completing(local, c, r) \/ Waits(c, r)

\* After a dropped poll the bookkeeping of its run is off, after a panic that
\* of the stream.
InOrder(r) ==
  Shapes /\ Answered(r) /\ (Live => RunInvariant(r)) /\ (done => Over(r))

Invariant == \A r \in Runs \ dropped : InOrder(r)

----------------------------------------------------------------------------
(* Sequences.                                                              *)

\* A sequence of any kind is one.
LEMMA IsOne ==
  ASSUME NEW T, NEW x \in Seq(T)
  PROVE  IsSequence(x) /\ Len(x) \in Nat /\ DOMAIN x = 1 .. Len(x)
BY DEF IsSequence

\* It has a length, and its members at the positions up to it.
LEMMA SequenceIs ==
  ASSUME NEW x, IsSequence(x)
  PROVE  Len(x) \in Nat /\ DOMAIN x = 1 .. Len(x)
BY DEF IsSequence

\* The empty sequence and one of one member.
LEMMA ShortSequences ==
  ASSUME NEW e
  PROVE  /\ IsSequence(<<>>) /\ DOMAIN <<>> = {} /\ Len(<<>>) = 0
         /\ IsSequence(<<e>>) /\ DOMAIN <<e>> = {1} /\ Len(<<e>>) = 1 /\ <<e>>[1] = e
<1>1. <<>> \in Seq({}) /\ <<e>> \in Seq({e})
  OBVIOUS
<1>2. IsSequence(<<>>) /\ IsSequence(<<e>>)
  BY <1>1, IsOne
<1> QED
  BY <1>2

\* One sequence after the other.
LEMMA ConcatIs ==
  ASSUME NEW x, NEW y, IsSequence(x), IsSequence(y)
  PROVE  /\ IsSequence(x \o y) /\ Len(x \o y) = Len(x) + Len(y)
         /\ DOMAIN (x \o y) = 1 .. (Len(x) + Len(y))
         /\ \A i \in DOMAIN x : (x \o y)[i] = x[i]
         /\ \A i \in DOMAIN y : (x \o y)[Len(x) + i] = y[i]
         /\ \A i \in DOMAIN (x \o y) :
               \/ i \in DOMAIN x /\ (x \o y)[i] = x[i]
               \/ i > Len(x) /\ i - Len(x) \in DOMAIN y /\ (x \o y)[i] = y[i - Len(x)]
<1> DEFINE T == {x[i] : i \in DOMAIN x} \cup {y[i] : i \in DOMAIN y}
<1>1. x \in Seq(T) /\ y \in Seq(T)
  BY DEF IsSequence
<1> HIDE DEF T
<1>2. x \o y \in Seq(T) /\ Len(x \o y) = Len(x) + Len(y)
  BY <1>1
<1>3. /\ \A i \in 1 .. Len(x) : (x \o y)[i] = x[i]
      /\ \A i \in 1 .. Len(y) : (x \o y)[Len(x) + i] = y[i]
      /\ \A i \in 1 .. (Len(x) + Len(y)) : i > Len(x) => (x \o y)[i] = y[i - Len(x)]
  BY <1>1
<1>4. IsSequence(x \o y)
  BY <1>2, IsOne
<1>5. DOMAIN (x \o y) = 1 .. (Len(x) + Len(y))
  BY <1>2, <1>4, SequenceIs
<1>6. /\ Len(x) \in Nat /\ DOMAIN x = 1 .. Len(x)
      /\ Len(y) \in Nat /\ DOMAIN y = 1 .. Len(y)
  BY SequenceIs
<1> QED
  BY <1>2, <1>3, <1>4, <1>5, <1>6

\* A member at the end.
LEMMA AppendIs ==
  ASSUME NEW x, NEW e, IsSequence(x)
  PROVE  /\ IsSequence(Append(x, e)) /\ Len(Append(x, e)) = Len(x) + 1
         /\ DOMAIN Append(x, e) = 1 .. (Len(x) + 1)
         /\ \A i \in DOMAIN x : Append(x, e)[i] = x[i]
         /\ Append(x, e)[Len(x) + 1] = e
         /\ \A i \in DOMAIN Append(x, e) :
               \/ i \in DOMAIN x /\ Append(x, e)[i] = x[i]
               \/ i = Len(x) + 1 /\ Append(x, e)[i] = e
<1> DEFINE T == {x[i] : i \in DOMAIN x} \cup {e}
<1>1. x \in Seq(T) /\ e \in T
  BY DEF IsSequence
<1> HIDE DEF T
<1>2. Append(x, e) \in Seq(T) /\ Len(Append(x, e)) = Len(x) + 1
  BY <1>1
<1>3. /\ \A i \in 1 .. Len(x) : Append(x, e)[i] = x[i]
      /\ Append(x, e)[Len(x) + 1] = e
  BY <1>1
<1>4. IsSequence(Append(x, e))
  BY <1>2, IsOne
<1>5. DOMAIN Append(x, e) = 1 .. (Len(x) + 1)
  BY <1>2, <1>4, SequenceIs
<1>6. Len(x) \in Nat /\ DOMAIN x = 1 .. Len(x)
  BY SequenceIs
<1> QED
  BY <1>2, <1>3, <1>4, <1>5, <1>6

\* The rest after the first member.
LEMMA TailIs ==
  ASSUME NEW x, IsSequence(x), x # <<>>
  PROVE  /\ IsSequence(Tail(x)) /\ 1 \in DOMAIN x /\ Head(x) = x[1]
         /\ \A i \in DOMAIN Tail(x) : i + 1 \in DOMAIN x /\ i \in Nat /\ Tail(x)[i] = x[i + 1]
         /\ \A i \in DOMAIN x : i # 1 => i - 1 \in DOMAIN Tail(x) /\ Tail(x)[i - 1] = x[i]
<1> DEFINE T == {x[i] : i \in DOMAIN x}
<1>1. x \in Seq(T)
  BY DEF IsSequence
<1> HIDE DEF T
<1>2. Tail(x) \in Seq(T) /\ Len(Tail(x)) = Len(x) - 1 /\ Len(x) \in Nat /\ Len(x) > 0
  BY <1>1
<1>3. \A i \in 1 .. (Len(x) - 1) : Tail(x)[i] = x[i + 1]
  BY <1>1, <1>2
<1>4. IsSequence(Tail(x))
  BY <1>2, IsOne
<1>5. DOMAIN Tail(x) = 1 .. (Len(x) - 1) /\ DOMAIN x = 1 .. Len(x)
  BY <1>2, <1>4, SequenceIs
<1>6. Head(x) = x[1]
  BY <1>1, <1>2
<1> QED
  BY <1>2, <1>3, <1>4, <1>5, <1>6

\* The same positions with other members.
LEMMA MappedIs ==
  ASSUME NEW x, IsSequence(x), NEW y, DOMAIN y = DOMAIN x, y = [i \in DOMAIN y |-> y[i]]
  PROVE  IsSequence(y)
<1>1. DOMAIN y = 1 .. Len(x) /\ Len(x) \in Nat
  BY SequenceIs
<1> QED
  BY <1>1 DEF IsSequence

\* One position less.
LEMMA WithoutIs ==
  ASSUME NEW x, IsSequence(x), NEW e, e \in Range(x)
  PROVE  IsSequence(Without(x, e))
<1> DEFINE T == {x[i] : i \in DOMAIN x}
           k == CHOOSE i \in DOMAIN x : x[i] = e
<1>1. x \in Seq(T) /\ Len(x) \in Nat
  BY DEF IsSequence
<1>2. k \in 1 .. Len(x)
  BY SequenceIs DEF Range
<1> HIDE DEF T, k
<1>3. SubSeq(x, 1, k - 1) \in Seq(T) /\ SubSeq(x, k + 1, Len(x)) \in Seq(T)
  BY <1>1, <1>2
<1>4. SubSeq(x, 1, k - 1) \o SubSeq(x, k + 1, Len(x)) \in Seq(T)
  BY <1>3
<1> QED
  BY <1>4, IsOne DEF Without, RemoveAt, k
----------------------------------------------------------------------------
(* What a handler of the stream that answers nobody does to the run q.     *)

Shape(s, q) ==
  /\ DOMAIN s = DOMAIN St
  /\ DOMAIN s.cache = Runs
  /\ IsSequence(s.lru) /\ IsSequence(s.full) /\ IsSequence(s.out)
  /\ \A i \in DOMAIN s.full : IsSequence(s.full[i])
  /\ Cached(s, q) => IsRecord(s.cache[q])

\* An activation that is recorded as outstanding when it is sent, and what
\* is recorded.
IsRecorded(a, q) == a.run = q /\ a.kind \notin {"autofail", "autofail_nd"}
Matches(kind, act) == act # "none" /\ (kind # "autocomplete" => act # "Autocomplete")

\* The activations of q sent between s and t: at most one, and only when none
\* was outstanding.  Completes says the same of those that the poll loop is to
\* complete by itself.
Completes(s, t, q) ==
  /\ \A i \in DOMAIN t.out :
        i > Len(s.out) /\ IsAuto(t.out[i], q)
          => ActOf(s, q) = "none" /\ ActOf(t, q) = "Autocomplete"
  /\ \A i, j \in DOMAIN t.out :
        i > Len(s.out) /\ j > Len(s.out) /\ IsAuto(t.out[i], q) /\ IsAuto(t.out[j], q) => i = j

Sends(s, t, q) ==
  /\ \A i \in DOMAIN t.out :
        i > Len(s.out) /\ IsRecorded(t.out[i], q)
          => ActOf(s, q) = "none" /\ Matches(t.out[i].kind, ActOf(t, q))
  /\ \A i, j \in DOMAIN t.out :
        i > Len(s.out) /\ j > Len(s.out) /\ IsRecorded(t.out[i], q) /\ IsRecorded(t.out[j], q)
          => i = j
  /\ ActOf(s, q) # "none" => ActOf(t, q) = ActOf(s, q)
  /\ "unrecorded_autofail" \in t.asserts \/ Completes(s, t, q)

Panicked(s) == "two_activations" \in s.asserts
RepOf(s, q) == {x \in s.rep : x.run = q}

Works(s, t, q) ==
  /\ Shape(t, q)
  /\ s.asserts \subseteq t.asserts
  /\ Len(s.out) <= Len(t.out) /\ \A i \in DOMAIN s.out : t.out[i] = s.out[i]
  /\ Cached(s, q) => Cached(t, q)
  /\ Panicked(t) \/ Sends(s, t, q)

Quiet(s, t, q) ==
  /\ Works(s, t, q)
  /\ PageOf(t, q) = PageOf(s, q) /\ LaOf(t, q) = LaOf(s, q)
  /\ RepOf(t, q) = RepOf(s, q)

\* Nothing that concerns q has changed.
LEMMA QuietSame ==
  ASSUME NEW q \in Runs, NEW s, NEW t, Shape(s, q), Shape(t, q), s.asserts \subseteq t.asserts,
         t.out = s.out, RepOf(t, q) = RepOf(s, q), Cached(s, q) => Cached(t, q),
         PageOf(t, q) = PageOf(s, q), LaOf(t, q) = LaOf(s, q), ActOf(t, q) = ActOf(s, q)
  PROVE  Quiet(s, t, q)
<1>1. Len(s.out) \in Nat /\ DOMAIN s.out = 1 .. Len(s.out)
  BY SequenceIs DEF Shape
<1>2. Sends(s, t, q)
  BY <1>1 DEF Sends, Completes
<1> QED
  BY <1>1, <1>2 DEF Quiet, Works

\* One handler after the other sends no more than one.
LEMMA WorksTrans ==
  ASSUME NEW q \in Runs, NEW s, NEW t, NEW u, Shape(s, q), Works(s, t, q), Works(t, u, q)
  PROVE  Works(s, u, q)
<1>1. /\ Len(s.out) \in Nat /\ DOMAIN s.out = 1 .. Len(s.out)
      /\ Len(t.out) \in Nat /\ DOMAIN t.out = 1 .. Len(t.out)
      /\ Len(u.out) \in Nat /\ DOMAIN u.out = 1 .. Len(u.out)
  BY SequenceIs DEF Shape, Works
<1>2. Len(s.out) <= Len(t.out) /\ Len(t.out) <= Len(u.out)
  BY DEF Works
<1>3. \A i \in DOMAIN s.out : u.out[i] = s.out[i]
  BY <1>1, <1>2 DEF Works
<1>4. \A i \in DOMAIN u.out : i \notin DOMAIN t.out => i > Len(t.out)
  BY <1>1
<1>5. \A i \in DOMAIN t.out : u.out[i] = t.out[i] /\ i \in DOMAIN u.out
  BY <1>1, <1>2 DEF Works
<1>6. ASSUME ~Panicked(u) PROVE Sends(s, u, q)
  <2>1. ~Panicked(t) /\ Sends(s, t, q) /\ Sends(t, u, q)
    BY <1>6 DEF Works, Panicked
  <2>2. ActOf(s, q) # "none" => ActOf(u, q) = ActOf(s, q)
    BY <2>1 DEF Sends
  <2>3. ASSUME NEW i \in DOMAIN u.out, i > Len(s.out), IsRecorded(u.out[i], q)
        PROVE  ActOf(s, q) = "none" /\ Matches(u.out[i].kind, ActOf(u, q))
    <3>1. CASE i \in DOMAIN t.out
      BY <2>1, <2>3, <3>1, <1>5 DEF Sends, Matches
    <3>2. CASE i \notin DOMAIN t.out
      BY <2>1, <2>3, <3>2, <1>4 DEF Sends
    <3> QED
      BY <3>1, <3>2
  <2>4. ASSUME NEW i \in DOMAIN u.out, NEW j \in DOMAIN u.out, i > Len(s.out), j > Len(s.out),
               IsRecorded(u.out[i], q), IsRecorded(u.out[j], q), i \in DOMAIN t.out
        PROVE  j \in DOMAIN t.out
    <3>1. Matches(t.out[i].kind, ActOf(t, q))
      BY <2>1, <2>4, <1>5 DEF Sends
    <3> QED
      BY <2>1, <2>4, <3>1, <1>4 DEF Sends, Matches
  <2>5. ASSUME NEW i \in DOMAIN u.out, NEW j \in DOMAIN u.out, i > Len(s.out), j > Len(s.out),
               IsRecorded(u.out[i], q), IsRecorded(u.out[j], q)
        PROVE  i = j
    <3>1. CASE i \in DOMAIN t.out
      BY <2>1, <2>4, <2>5, <3>1, <1>5 DEF Sends
    <3>2. CASE i \notin DOMAIN t.out
      <4>1. j \notin DOMAIN t.out
        BY <2>4, <2>5, <3>2
      <4> QED
        BY <2>1, <2>5, <3>2, <4>1, <1>4 DEF Sends
    <3> QED
      BY <3>1, <3>2
  <2>6. ASSUME "unrecorded_autofail" \notin u.asserts PROVE Completes(s, u, q)
    <3>1. Completes(s, t, q) /\ Completes(t, u, q)
      BY <2>1, <2>6 DEF Sends, Works
    <3>2. ASSUME NEW i \in DOMAIN u.out, i > Len(s.out), IsAuto(u.out[i], q)
          PROVE  /\ ActOf(s, q) = "none" /\ ActOf(u, q) = "Autocomplete"
                 /\ i \in DOMAIN t.out <=> ActOf(t, q) # "none"
      <4>1. CASE i \in DOMAIN t.out
        <5>1. ActOf(s, q) = "none" /\ ActOf(t, q) = "Autocomplete"
          BY <1>5, <3>1, <3>2, <4>1 DEF Completes
        <5> QED
          BY <2>1, <4>1, <5>1 DEF Sends
      <4>2. CASE i \notin DOMAIN t.out
        <5>1. ActOf(t, q) = "none" /\ ActOf(u, q) = "Autocomplete"
          BY <1>4, <3>1, <3>2, <4>2 DEF Completes
        <5> QED
          BY <2>1, <4>2, <5>1 DEF Sends
      <4> QED
        BY <4>1, <4>2
    <3>3. ASSUME NEW i \in DOMAIN u.out, NEW j \in DOMAIN u.out, i > Len(s.out), j > Len(s.out),
                 IsAuto(u.out[i], q), IsAuto(u.out[j], q)
          PROVE  i = j
      <4>1. i \in DOMAIN t.out <=> j \in DOMAIN t.out
        BY <3>2, <3>3
      <4>2. CASE i \in DOMAIN t.out
        BY <1>5, <3>1, <3>3, <4>1, <4>2 DEF Completes
      <4>3. CASE i \notin DOMAIN t.out
        BY <1>4, <3>1, <3>3, <4>1, <4>3 DEF Completes
      <4> QED
        BY <4>2, <4>3
    <3> QED
      BY <3>2, <3>3 DEF Completes
  <2> QED
    BY <2>2, <2>3, <2>5, <2>6 DEF Sends
<1>7. /\ Shape(u, q) /\ s.asserts \subseteq u.asserts /\ (Cached(s, q) => Cached(u, q))
  BY DEF Works
<1> QED
  BY <1>1, <1>2, <1>3, <1>6, <1>7 DEF Works

\* One quiet handler after the other is quiet.
LEMMA QuietTrans ==
  ASSUME NEW q \in Runs, NEW s, NEW t, NEW u, Shape(s, q), Quiet(s, t, q), Quiet(t, u, q)
  PROVE  Quiet(s, u, q)
<1>1. Works(s, u, q)
  BY WorksTrans DEF Quiet
<1> QED
  BY <1>1 DEF Quiet

\* What was sent is taken back: quiet too.
LEMMA QuietUnsent ==
  ASSUME NEW q \in Runs, NEW s, NEW t, Shape(s, q), Quiet(s, t, q)
  PROVE  Quiet(s, [t EXCEPT !.out = s.out], q)
<1> DEFINE u == [t EXCEPT !.out = s.out]
<1>1. /\ DOMAIN u = DOMAIN St /\ u.cache = t.cache /\ u.lru = t.lru /\ u.full = t.full
      /\ u.asserts = t.asserts /\ u.rep = t.rep /\ u.out = s.out
  BY DEF Quiet, Works, Shape, St
<1> HIDE DEF u
<1>2. /\ Cached(u, q) <=> Cached(t, q)
      /\ PageOf(u, q) = PageOf(t, q) /\ LaOf(u, q) = LaOf(t, q)
      /\ RepOf(u, q) = RepOf(t, q) /\ ActOf(u, q) = ActOf(t, q)
      /\ Panicked(u) <=> Panicked(t)
  BY <1>1 DEF Cached, PageOf, LaOf, RepOf, ActOf, Panicked
<1>3. Shape(u, q)
  BY <1>1, <1>2 DEF Shape, Quiet, Works
<1>4. Len(s.out) \in Nat /\ DOMAIN s.out = 1 .. Len(s.out)
  BY SequenceIs DEF Shape
<1>5. Panicked(u) \/ Sends(s, u, q)
  BY <1>1, <1>2, <1>4 DEF Sends, Completes, Quiet, Works
<1>6. Quiet(s, u, q)
  BY <1>1, <1>2, <1>3, <1>4, <1>5 DEF Quiet, Works
<1> QED
  BY <1>6 DEF u

----------------------------------------------------------------------------
(* The operators the handlers are made of.                                 *)

\* The parts of a run that concern others.
SameRun(h, g) ==
  /\ IsRecord(g) /\ g.run = h.run /\ g.act = h.act /\ g.page = h.page /\ g.laDat = h.laDat

\* Set changes one run.
LEMMA SetIs ==
  ASSUME NEW q \in Runs, NEW s, NEW r, NEW h, Shape(s, q)
  PROVE  /\ DOMAIN Set(s, r, h) = DOMAIN St /\ DOMAIN Set(s, r, h).cache = Runs
         /\ Set(s, r, h).cache[q] = IF r = q THEN h ELSE s.cache[q]
         /\ Set(s, r, h).lru = s.lru /\ Set(s, r, h).full = s.full
         /\ Set(s, r, h).fetch = s.fetch
         /\ Set(s, r, h).asserts = s.asserts /\ Set(s, r, h).out = s.out
         /\ Set(s, r, h).rep = s.rep
BY DEF Set, Shape, St

\* It is quiet when what concerns others stays.
LEMMA SetQuiet ==
  ASSUME NEW q \in Runs, NEW s, NEW r, NEW h, Shape(s, q),
         r = q => SameRun(s.cache[q], h)
  PROVE  Quiet(s, Set(s, r, h), q)
<1> DEFINE t == Set(s, r, h)
<1>1. /\ DOMAIN t = DOMAIN St /\ DOMAIN t.cache = Runs
      /\ t.cache[q] = IF r = q THEN h ELSE s.cache[q]
      /\ t.lru = s.lru /\ t.full = s.full /\ t.asserts = s.asserts /\ t.out = s.out
      /\ t.rep = s.rep
  BY SetIs
<1> HIDE DEF t
<1>2. /\ Cached(t, q) <=> Cached(s, q)
      /\ PageOf(t, q) = PageOf(s, q) /\ LaOf(t, q) = LaOf(s, q) /\ ActOf(t, q) = ActOf(s, q)
      /\ RepOf(t, q) = RepOf(s, q)
  BY <1>1 DEF Cached, PageOf, LaOf, ActOf, RepOf, SameRun
<1>3. Shape(t, q)
  BY <1>1, <1>2 DEF Shape, SameRun
<1>4. Quiet(s, t, q)
  BY <1>1, <1>2, <1>3, QuietSame
<1> QED
  BY <1>4 DEF t

\* Only what is not of the run, of the answers or of what is sent changes.
LEMMA RestQuiet ==
  ASSUME NEW q \in Runs, NEW s, NEW t, Shape(s, q), DOMAIN t = DOMAIN St, t.cache = s.cache,
         IsSequence(t.lru), IsSequence(t.full), \A i \in DOMAIN t.full : IsSequence(t.full[i]),
         s.asserts \subseteq t.asserts, t.out = s.out, t.rep = s.rep
  PROVE  Quiet(s, t, q)
<1>1. /\ Cached(t, q) <=> Cached(s, q)
      /\ PageOf(t, q) = PageOf(s, q) /\ LaOf(t, q) = LaOf(s, q) /\ ActOf(t, q) = ActOf(s, q)
      /\ RepOf(t, q) = RepOf(s, q)
  BY DEF Cached, PageOf, LaOf, ActOf, RepOf
<1>2. Shape(t, q)
  BY <1>1 DEF Shape
<1> QED
  BY <1>1, <1>2, QuietSame

\* An assertion that fails is noted, and that is all.
LEMMA NoteQuiet ==
  ASSUME NEW q \in Runs, NEW s, NEW a, Shape(s, q)
  PROVE  Quiet(s, Note(s, a), q)
<1> DEFINE t == Note(s, a)
<1>1. /\ DOMAIN t = DOMAIN St /\ t.cache = s.cache /\ t.lru = s.lru /\ t.full = s.full
      /\ s.asserts \subseteq t.asserts /\ t.out = s.out /\ t.rep = s.rep
  BY DEF Note, Shape, St
<1> HIDE DEF t
<1>2. Quiet(s, t, q)
  BY <1>1, RestQuiet DEF Shape
<1> QED
  BY <1>2 DEF t

\* A run that is used moves in the LRU order.
LEMMA TouchQuiet ==
  ASSUME NEW q \in Runs, NEW s, NEW r, Shape(s, q)
  PROVE  /\ Quiet(s, Touch(s, r), q) /\ Touch(s, r).cache = s.cache
         /\ Touch(s, r).rep = s.rep /\ Touch(s, r).out = s.out
         /\ Touch(s, r).full = s.full
<1> DEFINE t == Touch(s, r)
<1>1. /\ DOMAIN t = DOMAIN St /\ t.cache = s.cache /\ t.full = s.full
      /\ t.asserts = s.asserts /\ t.out = s.out /\ t.rep = s.rep
  BY DEF Touch, Shape, St
<1>2. IsSequence(t.lru)
  <2>1. CASE r \in Range(s.lru)
    <3>1. t.lru = Append(Without(s.lru, r), r)
      BY <2>1 DEF Touch, Shape, St
    <3>2. IsSequence(Without(s.lru, r))
      BY <2>1, WithoutIs DEF Shape
    <3> QED
      BY <3>1, <3>2, AppendIs
  <2>2. CASE r \notin Range(s.lru)
    BY <2>2 DEF Touch, Shape
  <2> QED
    BY <2>1, <2>2
<1> HIDE DEF t
<1>3. Quiet(s, t, q)
  BY <1>1, <1>2, RestQuiet DEF Shape
<1> QED
  BY <1>1, <1>3 DEF t

\* Insert records what it sends, or panics.
LEMMA InsertQuiet ==
  ASSUME NEW q \in Runs, NEW s, NEW r, NEW a, Shape(s, q), r = q => Cached(s, q)
  PROVE  Quiet(s, Insert(s, r, a), q)
<1> DEFINE h == s.cache[r]
           g == [h EXCEPT !.act = OutstandingKind(a)]
           e == [run |-> r, kind |-> a]
           t == Insert(s, r, a)
<1>1. r = q => /\ IsRecord(g) /\ g.run = "cached" /\ g.act = OutstandingKind(a)
               /\ g.page = s.cache[q].page /\ g.laDat = s.cache[q].laDat
  BY DEF Shape, IsRecord, NewRun, Cached
<1>2. /\ DOMAIN t = DOMAIN St /\ DOMAIN t.cache = Runs
      /\ t.cache[q] = IF r = q THEN g ELSE s.cache[q]
      /\ t.lru = s.lru /\ t.full = s.full /\ s.asserts \subseteq t.asserts
      /\ t.out = Append(s.out, e) /\ t.rep = s.rep
      /\ h.act # "none" => Panicked(t)
  <2> DEFINE u == Set(s, r, g)
             v == [u EXCEPT !.out = Append(@, e)]
  <2>1. /\ DOMAIN u = DOMAIN St /\ DOMAIN u.cache = Runs
        /\ u.cache[q] = IF r = q THEN g ELSE s.cache[q]
        /\ u.lru = s.lru /\ u.full = s.full /\ u.asserts = s.asserts /\ u.out = s.out
        /\ u.rep = s.rep
    BY SetIs
  <2> HIDE DEF u
  <2>2. /\ DOMAIN v = DOMAIN St /\ v.cache = u.cache /\ v.lru = s.lru /\ v.full = s.full
        /\ v.asserts = s.asserts /\ v.out = Append(s.out, e) /\ v.rep = s.rep
    BY <2>1 DEF St
  <2> HIDE DEF v
  <2>3. t = IF h.act # "none" THEN Note(v, "two_activations") ELSE v
    BY DEF Insert, u, v
  <2>4. /\ DOMAIN t = DOMAIN St /\ t.cache = v.cache /\ t.lru = v.lru /\ t.full = v.full
        /\ v.asserts \subseteq t.asserts /\ t.out = v.out /\ t.rep = v.rep
        /\ h.act # "none" => "two_activations" \in t.asserts
    <3> HIDE DEF t, h
    <3> QED
      BY <2>2, <2>3 DEF Note, St
  <2> HIDE DEF t, g, e, h
  <2> QED
    BY <2>1, <2>2, <2>4 DEF Panicked
<1>3. Matches(a, OutstandingKind(a)) \/ a \in {"autofail", "autofail_nd"}
  BY DEF Matches, OutstandingKind, Automatic
<1> HIDE DEF t, g
<1>4. /\ Cached(t, q) <=> Cached(s, q)
      /\ PageOf(t, q) = PageOf(s, q) /\ LaOf(t, q) = LaOf(s, q) /\ RepOf(t, q) = RepOf(s, q)
      /\ ActOf(t, q) = IF r = q THEN OutstandingKind(a) ELSE ActOf(s, q)
  BY <1>1, <1>2 DEF Cached, PageOf, LaOf, ActOf, RepOf
<1>5. /\ IsSequence(t.out) /\ Len(t.out) = Len(s.out) + 1 /\ DOMAIN t.out = 1 .. (Len(s.out) + 1)
      /\ \A i \in DOMAIN s.out : t.out[i] = s.out[i]
      /\ t.out[Len(s.out) + 1] = e
  BY <1>2, AppendIs DEF Shape
<1>6. Len(s.out) \in Nat
  BY SequenceIs DEF Shape
<1>7. Shape(t, q)
  BY <1>1, <1>2, <1>4, <1>5 DEF Shape
<1>8. ASSUME ~Panicked(t) PROVE Sends(s, t, q)
  <2>1. r = q => ActOf(s, q) = "none"
    BY <1>2, <1>8 DEF ActOf
  <2>2. \A i \in DOMAIN t.out : i > Len(s.out) => i = Len(s.out) + 1
    BY <1>5, <1>6
  <2>3. e.run = r /\ e.kind = a
    OBVIOUS
  <2> HIDE DEF e, h
  <2>4. ASSUME NEW i \in DOMAIN t.out, i > Len(s.out), IsRecorded(t.out[i], q)
        PROVE  ActOf(s, q) = "none" /\ Matches(t.out[i].kind, ActOf(t, q))
    <3>1. t.out[i] = e
      BY <1>5, <2>2, <2>4
    <3>2. r = q /\ a \notin {"autofail", "autofail_nd"}
      BY <2>3, <2>4, <3>1 DEF IsRecorded
    <3> QED
      BY <1>3, <1>4, <2>1, <2>3, <3>1, <3>2
  <2>5. ASSUME NEW i \in DOMAIN t.out, i > Len(s.out), IsAuto(t.out[i], q)
        PROVE  ActOf(s, q) = "none" /\ ActOf(t, q) = "Autocomplete"
    <3>1. t.out[i] = e
      BY <1>5, <2>2, <2>5
    <3>2. r = q /\ a \in Automatic
      BY <2>3, <2>5, <3>1 DEF IsAuto
    <3>3. OutstandingKind(a) = "Autocomplete"
      BY <3>2 DEF OutstandingKind, Automatic
    <3> QED
      BY <1>4, <2>1, <3>2, <3>3
  <2> QED
    BY <1>4, <2>1, <2>2, <2>4, <2>5 DEF Sends, Completes
<1>9. Quiet(s, t, q)
  BY <1>2, <1>4, <1>5, <1>6, <1>7, <1>8 DEF Quiet, Works
<1> QED
  BY <1>9 DEF t

\* Cancelling local activities and taking jobs concerns nobody else.
LEMMA CheckMoreSame ==
  ASSUME NEW h, NEW o, IsRecord(h)
  PROVE  SameRun(h, AfterCheckMore(h, o))
<1>1. SameRun(h, CancelLAs(h, o))
  BY DEF SameRun, CancelLAs, IsRecord, NewRun
<1>2. SameRun(h, [CancelLAs(h, o) EXCEPT !.jobs = FALSE])
  <2> DEFINE g == CancelLAs(h, o)
  <2> HIDE DEF g
  <2>1. SameRun(h, g)
    BY <1>1 DEF g
  <2>2. SameRun(h, [g EXCEPT !.jobs = FALSE])
    BY <2>1 DEF SameRun, IsRecord, NewRun
  <2> QED
    BY <2>2 DEF g
<1>3. SameRun(h, h) /\ SameRun(h, [h EXCEPT !.broken = TRUE])
  BY DEF SameRun, IsRecord, NewRun
<1> QED
  BY <1>1, <1>2, <1>3 DEF AfterCheckMore

\* Settle decides what to send.
LEMMA SettleQuiet ==
  ASSUME NEW q \in Runs, NEW s, NEW r, NEW a, NEW o, Shape(s, q), r = q => Cached(s, q)
  PROVE  Quiet(s, Settle(s, r, a, o).s, q)
<1> DEFINE h == s.cache[r]
           check == a = "none" /\ MorePendingWork(h)
           g == IF check THEN AfterCheckMore(h, o) ELSE h
           b == Chosen(g, IF check THEN CheckMore(h, o) ELSE a)
           k == IF b \in {"queries", "legacy"} THEN [g EXCEPT !.wft.q = "none"] ELSE g
<1>1. r = q => SameRun(s.cache[q], g)
  <2>1. r = q => IsRecord(h)
    BY DEF Shape
  <2>2. r = q => SameRun(h, AfterCheckMore(h, o)) /\ SameRun(h, h)
    BY <2>1, CheckMoreSame DEF SameRun
  <2> QED
    BY <2>2
<1>2. Settle(s, r, a, o).s = Set(s, r, k)
  BY DEF Settle
<1> HIDE DEF g, b
<1>3. r = q => SameRun(s.cache[q], k)
  BY <1>1 DEF SameRun, IsRecord, NewRun
<1> HIDE DEF k
<1>4. Quiet(s, Set(s, r, k), q)
  BY <1>3, SetQuiet
<1> QED
  BY <1>2, <1>4

\* A step that leaves what concerns others, answers nobody and sends nothing.
LEMMA PartsQuiet ==
  ASSUME NEW q \in Runs, NEW s, NEW t, Shape(s, q), DOMAIN t = DOMAIN St, DOMAIN t.cache = Runs,
         t.cache[q] = s.cache[q] \/ SameRun(s.cache[q], t.cache[q]),
         t.lru = s.lru, t.full = s.full, s.asserts \subseteq t.asserts, t.out = s.out,
         t.rep = s.rep
  PROVE  Quiet(s, t, q)
<1>1. /\ Cached(t, q) <=> Cached(s, q)
      /\ PageOf(t, q) = PageOf(s, q) /\ LaOf(t, q) = LaOf(s, q) /\ ActOf(t, q) = ActOf(s, q)
      /\ RepOf(t, q) = RepOf(s, q)
  BY DEF Cached, PageOf, LaOf, ActOf, RepOf, SameRun
<1>2. Shape(t, q)
  BY <1>1 DEF Shape, SameRun
<1> QED
  BY <1>1, <1>2, QuietSame

\* Nothing at all.
LEMMA QuietRefl ==
  ASSUME NEW q \in Runs, NEW s, Shape(s, q)
  PROVE  Quiet(s, s, q)
BY PartsQuiet DEF Shape

\* What Quiet leaves for the next handler.
LEMMA QuietShape ==
  ASSUME NEW q \in Runs, NEW s, NEW t, Quiet(s, t, q)
  PROVE  Shape(t, q) /\ (Cached(s, q) => Cached(t, q))
BY DEF Quiet, Works

\* An AutoFail goes out unrecorded.
LEMMA AutoFailQuiet ==
  ASSUME NEW q \in Runs, NEW s, NEW r, NEW nd, Shape(s, q), r = q => Cached(s, q)
  PROVE  Quiet(s, AutoFail(s, r, nd), q)
<1> DEFINE n == Note(s, "unrecorded_autofail")
           e == [run |-> r, kind |-> IF nd THEN "autofail_nd" ELSE "autofail"]
           t == [n EXCEPT !.out = Append(@, e)]
<1>2. Quiet(s, n, q)
  BY NoteQuiet
<1>n. "unrecorded_autofail" \in n.asserts
  BY DEF Note, Shape, St
<1> HIDE DEF n
<1>3. /\ DOMAIN t = DOMAIN St /\ t.cache = n.cache /\ t.lru = n.lru /\ t.full = n.full
      /\ t.asserts = n.asserts /\ t.rep = n.rep /\ t.out = Append(n.out, e)
  BY <1>2 DEF Quiet, Works, Shape, St
<1>4. e.kind \in {"autofail", "autofail_nd"}
  OBVIOUS
<1> HIDE DEF t, e
<1>5. /\ IsSequence(t.out) /\ Len(t.out) = Len(n.out) + 1
      /\ \A i \in DOMAIN n.out : t.out[i] = n.out[i]
      /\ \A i \in DOMAIN t.out : i \in DOMAIN n.out \/ t.out[i] = e
  BY <1>2, <1>3, AppendIs DEF Quiet, Works, Shape
<1>6. Len(n.out) \in Nat /\ DOMAIN n.out = 1 .. Len(n.out)
  BY <1>2, SequenceIs DEF Quiet, Works, Shape
<1>7. /\ Cached(t, q) <=> Cached(n, q)
      /\ PageOf(t, q) = PageOf(n, q) /\ LaOf(t, q) = LaOf(n, q) /\ ActOf(t, q) = ActOf(n, q)
      /\ RepOf(t, q) = RepOf(n, q)
  BY <1>3 DEF Cached, PageOf, LaOf, ActOf, RepOf
<1>8. Shape(t, q)
  BY <1>2, <1>3, <1>5, <1>7 DEF Quiet, Works, Shape
<1>9. Sends(n, t, q)
  <2>1. "unrecorded_autofail" \in t.asserts
    BY <1>3, <1>n
  <2> QED
    BY <1>4, <1>5, <1>6, <1>7, <2>1 DEF Sends, IsRecorded
<1>10. Quiet(n, t, q)
  BY <1>3, <1>5, <1>6, <1>7, <1>8, <1>9 DEF Quiet, Works
<1>11. Quiet(s, t, q)
  BY <1>2, <1>10, QuietTrans
<1> QED
  BY <1>11 DEF AutoFail, n, t, e

\* Handing the activation a handler came up with to lang, or none.
LEMMA EmitQuiet ==
  ASSUME NEW q \in Runs, NEW s, NEW t, NEW r, Shape(s, q), Quiet(s, t.s, q),
         r = q => Cached(s, q)
  PROVE  Quiet(s, Emit(t, r), q)
<1>1. Shape(t.s, q) /\ (r = q => Cached(t.s, q))
  BY QuietShape
<1>2. Quiet(t.s, Insert(t.s, r, t.act), q)
  BY <1>1, InsertQuiet
<1>3. Quiet(s, Insert(t.s, r, t.act), q)
  BY <1>2, QuietTrans
<1>4. Quiet(t.s, AutoFail(t.s, r, FALSE), q)
  BY <1>1, AutoFailQuiet
<1>5. Quiet(s, AutoFail(t.s, r, FALSE), q)
  BY <1>4, QuietTrans
<1> QED
  BY <1>3, <1>5 DEF Emit

\* The eviction's own activation is looked for once the run is marked.
LEMMA EvictingQuiet ==
  ASSUME NEW q \in Runs, NEW s, NEW r, NEW e, NEW o, Shape(s, q), r = q => Cached(s, q),
         r = q => SameRun(s.cache[q], e)
  PROVE  Quiet(s, Evicting(s, r, e, o), q)
<1> DEFINE t == Set(s, r, AfterCheckMore(e, o))
           u == Settle(t, r, CheckMore(e, o), o)
<1>1. r = q => SameRun(s.cache[q], AfterCheckMore(e, o))
  <2>1. r = q => SameRun(e, AfterCheckMore(e, o))
    BY CheckMoreSame DEF SameRun
  <2> QED
    BY <2>1 DEF SameRun
<1>2. Quiet(s, t, q)
  BY <1>1, SetQuiet
<1> HIDE DEF t
<1>3. Quiet(t, u.s, q)
  BY <1>2, QuietShape, SettleQuiet
<1>4. Quiet(s, u.s, q)
  BY <1>2, <1>3, QuietTrans
<1> HIDE DEF u
<1>5. Quiet(s, Emit(u, r), q)
  BY <1>4, EmitQuiet
<1> QED
  BY <1>5 DEF Evicting, t, u

\* An eviction is requested of a run that is cached.
LEMMA EvictBasicQuiet ==
  ASSUME NEW q \in Runs, NEW s, NEW r, NEW why, NEW tt, NEW o, Shape(s, q), r = q => Cached(s, q)
  PROVE  Quiet(s, EvictBasic(s, r, why, tt, o), q)
<1> DEFINE h == s.cache[r]
           g == IF why # "soft" /\ ~PendingWorkIsLegacyQuery(h)
                THEN [h EXCEPT !.wft.q = "none"] ELSE h
           e == [g EXCEPT !.evict = [why |-> why, tt |-> tt]]
           f == [h EXCEPT !.evict = [why |-> why, tt |-> tt]]
<1>1. r = q => SameRun(s.cache[q], g) /\ SameRun(s.cache[q], f)
  <2>1. r = q => IsRecord(h)
    BY DEF Shape
  <2> QED
    BY <2>1 DEF SameRun, IsRecord, NewRun
<1> HIDE DEF g
<1>2. r = q => SameRun(s.cache[q], e)
  BY <1>1 DEF SameRun, IsRecord, NewRun
<1> HIDE DEF e, f
<1>3. Quiet(s, Evicting(s, r, e, o), q)
  BY <1>2, EvictingQuiet
<1>4. Quiet(s, Set(s, r, f), q)
  BY <1>1, SetQuiet
<1> QED
  BY <1>3, <1>4 DEF EvictBasic, e, f, g

\* The machines failed and nobody waits: an AutoFail goes out.
LEMMA UpdateErrQuiet ==
  ASSUME NEW q \in Runs, NEW s, NEW r, NEW o, Shape(s, q), r = q => Cached(s, q)
  PROVE  Quiet(s, UpdateErr(s, r, <<>>, o), q)
<1> DEFINE b == [s EXCEPT !.cache[r].broken = TRUE]
<1>1. Quiet(s, b, q)
  <2>1. /\ DOMAIN b = DOMAIN St /\ DOMAIN b.cache = Runs /\ b.lru = s.lru /\ b.full = s.full
        /\ b.asserts = s.asserts /\ b.out = s.out /\ b.rep = s.rep
        /\ r # q => b.cache[q] = s.cache[q]
        /\ r = q => b.cache[q] = [s.cache[q] EXCEPT !.broken = TRUE]
    BY DEF Shape, St
  <2>2. r = q => SameRun(s.cache[q], b.cache[q])
    BY <2>1 DEF SameRun, IsRecord, NewRun, Shape
  <2> HIDE DEF b
  <2> QED
    BY <2>1, <2>2, PartsQuiet
<1> HIDE DEF b
<1>2. Shape(b, q) /\ (r = q => Cached(b, q))
  BY <1>1, QuietShape
<1>3. Quiet(b, AutoFail(b, r, o.nd), q)
  BY <1>2, AutoFailQuiet
<1>4. Quiet(s, AutoFail(b, r, o.nd), q)
  BY <1>1, <1>3, QuietTrans
<1> QED
  BY <1>4 DEF UpdateErr, b

\* A task for a cached run that has none.
LEMMA IncomingWftQuiet ==
  ASSUME NEW q \in Runs, NEW s, NEW r, NEW w, NEW created, NEW o, Shape(s, q),
         r = q => Cached(s, q)
  PROVE  Quiet(s, IncomingWft(s, r, w, created, o), q)
<1> DEFINE h == s.cache[r]
           t == [s EXCEPT !.cache[r].wft = Wft(w),
                          !.asserts = @ \cup (IF h.wft.id # 0 THEN {"wft_overwritten"} ELSE {})]
           term == created /\ w.kind = "query" /\ o.term
           j == [t EXCEPT !.cache[r].jobs = FALSE, !.cache[r].term = @ \/ term]
           k == [t EXCEPT !.timer[r] = TRUE]
<1>1. Quiet(s, t, q)
  <2>1. /\ DOMAIN t = DOMAIN St /\ DOMAIN t.cache = Runs /\ t.lru = s.lru /\ t.full = s.full
        /\ s.asserts \subseteq t.asserts /\ t.out = s.out /\ t.rep = s.rep
        /\ r # q => t.cache[q] = s.cache[q]
        /\ r = q => t.cache[q] = [s.cache[q] EXCEPT !.wft = Wft(w)]
    BY DEF Shape, St
  <2>2. r = q => SameRun(s.cache[q], t.cache[q])
    BY <2>1 DEF SameRun, IsRecord, NewRun, Shape
  <2> HIDE DEF t
  <2> QED
    BY <2>1, <2>2, PartsQuiet
<1> HIDE DEF t, term
<1>2. Shape(t, q) /\ (r = q => Cached(t, q))
  BY <1>1, QuietShape
<1>3. Quiet(t, j, q)
  <2>1. /\ DOMAIN j = DOMAIN St /\ DOMAIN j.cache = Runs /\ j.lru = t.lru /\ j.full = t.full
        /\ j.asserts = t.asserts /\ j.out = t.out /\ j.rep = t.rep
        /\ r # q => j.cache[q] = t.cache[q]
        /\ r = q => j.cache[q] = [t.cache[q] EXCEPT !.jobs = FALSE, !.term = @ \/ term]
    BY <1>2 DEF Shape, St
  <2>2. r = q => SameRun(t.cache[q], j.cache[q])
    BY <1>2, <2>1 DEF SameRun, IsRecord, NewRun, Shape
  <2> HIDE DEF j
  <2> QED
    BY <1>2, <2>1, <2>2, PartsQuiet
<1>4. Quiet(t, k, q)
  <2>1. /\ DOMAIN k = DOMAIN St /\ k.cache = t.cache /\ k.lru = t.lru /\ k.full = t.full
        /\ k.asserts = t.asserts /\ k.out = t.out /\ k.rep = t.rep
    BY <1>2 DEF Shape, St
  <2> HIDE DEF k
  <2> QED
    BY <1>2, <2>1, RestQuiet DEF Shape
<1> HIDE DEF j, k
<1>5. ASSUME NEW x, NEW a, x = t \/ x = j \/ x = k
      PROVE  Quiet(s, Emit(Settle(x, r, a, o), r), q)
  <2>1. Quiet(s, x, q)
    BY <1>1, <1>3, <1>4, <1>5, QuietTrans
  <2>2. Quiet(x, Settle(x, r, a, o).s, q)
    BY <2>1, QuietShape, SettleQuiet
  <2>3. Quiet(s, Settle(x, r, a, o).s, q)
    BY <2>1, <2>2, QuietTrans
  <2> QED
    BY <2>3, EmitQuiet
<1>6. Quiet(s, UpdateErr(t, r, <<>>, o), q)
  BY <1>1, <1>2, UpdateErrQuiet, QuietTrans
<1>7. Quiet(s, Note(t, "task_while_waiting_on_las"), q)
  BY <1>1, <1>2, NoteQuiet, QuietTrans
<1>8. \/ IncomingWft(s, r, w, created, o) = UpdateErr(t, r, <<>>, o)
      \/ IncomingWft(s, r, w, created, o) = Note(t, "task_while_waiting_on_las")
      \/ \E x, a : /\ x = t \/ x = j \/ x = k
                   /\ IncomingWft(s, r, w, created, o) = Emit(Settle(x, r, a, o), r)
  BY Zenon DEF IncomingWft, t, j, k, term
<1> QED
  BY <1>5, <1>6, <1>7, <1>8

\* When nothing came of an update, the task buffered behind it is taken up.
LEMMA TakeBufferedQuiet ==
  ASSUME NEW q \in Runs, NEW s, NEW t, NEW r, NEW o, Shape(s, q), Quiet(s, t.s, q),
         r = q => Cached(s, q)
  PROVE  Quiet(s, TakeBuffered(t, r, o), q)
<1> DEFINE h == t.s.cache[r]
           g == [h EXCEPT !.buf = DropNextWft(@)]
           u == Set(t.s, r, g)
<1>1. Shape(t.s, q) /\ (r = q => Cached(t.s, q))
  BY QuietShape
<1>2. r = q => SameRun(t.s.cache[q], g)
  BY <1>1 DEF Shape, SameRun, IsRecord, NewRun
<1> HIDE DEF g
<1>3. Quiet(t.s, u, q)
  BY <1>1, <1>2, SetQuiet
<1> HIDE DEF u
<1>4. Quiet(u, IncomingWft(u, r, NextWft(h.buf), FALSE, o), q)
  BY <1>1, <1>3, QuietShape, IncomingWftQuiet
<1>5. Quiet(s, IncomingWft(u, r, NextWft(h.buf), FALSE, o), q)
  BY <1>1, <1>3, <1>4, QuietTrans
<1>6. Quiet(s, Emit(t, r), q)
  BY EmitQuiet
<1> QED
  BY <1>5, <1>6 DEF TakeBuffered, u, g

\* An update becomes activations.
LEMMA UpdateToActsQuiet ==
  ASSUME NEW q \in Runs, NEW s, NEW r, NEW a, NEW o, Shape(s, q), r = q => Cached(s, q)
  PROVE  Quiet(s, UpdateToActs(s, r, a, o), q)
<1>1. Quiet(s, Settle(s, r, a, o).s, q)
  BY SettleQuiet
<1> QED
  BY <1>1, TakeBufferedQuiet DEF UpdateToActs

\* A run is asked for more activations.
LEMMA CheckMoreActivationsQuiet ==
  ASSUME NEW q \in Runs, NEW s, NEW r, NEW o, Shape(s, q), r = q => Cached(s, q)
  PROVE  Quiet(s, CheckMoreActivations(s, r, o), q)
<1> DEFINE t == Set(s, r, AfterCheckMore(s.cache[r], o))
<1>1. r = q => SameRun(s.cache[q], AfterCheckMore(s.cache[r], o))
  BY CheckMoreSame DEF Shape
<1>2. Quiet(s, t, q)
  BY <1>1, SetQuiet
<1> HIDE DEF t
<1>3. Quiet(s, UpdateToActs(t, r, CheckMore(s.cache[r], o), o), q)
  BY <1>2, QuietShape, UpdateToActsQuiet, QuietTrans
<1> QED
  BY <1>3 DEF CheckMoreActivations, t

\* An eviction for another reason than a failed fetch answers nobody.
LEMMA EvictionQuiet ==
  ASSUME NEW q \in Runs, NEW s, NEW r, NEW why, why # "page", NEW tt, NEW o, Shape(s, q)
  PROVE  Quiet(s, RequestEviction(s, r, why, tt, o), q)
<1>1. CASE ~Cached(s, r)
  BY <1>1, QuietRefl DEF RequestEviction
<1>2. CASE Cached(s, r)
  <2>1. Quiet(s, Touch(s, r), q)
    BY TouchQuiet
  <2>2. Quiet(s, EvictBasic(Touch(s, r), r, why, tt, o), q)
    BY <1>2, <2>1, QuietShape, EvictBasicQuiet, QuietTrans
  <2> QED
    BY <1>2, <2>2 DEF RequestEviction
<1> QED
  BY <1>1, <1>2

\* The least recently used run is asked to go.
LEMMA EvictLruQuiet ==
  ASSUME NEW q \in Runs, NEW s, NEW o, Shape(s, q)
  PROVE  Quiet(s, EvictLru(s, o), q)
BY EvictionQuiet, QuietRefl DEF EvictLru

\* A task waits for a slot of the cache.
LEMMA BufferOnFullCacheQuiet ==
  ASSUME NEW q \in Runs, NEW s, NEW w, Shape(s, q)
  PROVE  Quiet(s, BufferOnFullCache(s, w), q)
<1> DEFINE same == {i \in DOMAIN s.full : s.full[i][1].run = w.run}
           k == CHOOSE i \in same : TRUE
           t == BufferOnFullCache(s, w)
<1>1. /\ DOMAIN t = DOMAIN St /\ t.cache = s.cache /\ t.lru = s.lru /\ t.asserts = s.asserts
      /\ t.out = s.out /\ t.rep = s.rep
      /\ t.full = IF same = {} THEN Append(s.full, <<w>>)
                  ELSE [s.full EXCEPT ![k] = Append(@, w)]
  BY DEF BufferOnFullCache, Shape, St
<1>2. IsSequence(t.full) /\ \A i \in DOMAIN t.full : IsSequence(t.full[i])
  <2>1. CASE same = {}
    <3>1. t.full = Append(s.full, <<w>>)
      BY <1>1, <2>1
    <3> HIDE DEF t, same
    <3>2. IsSequence(<<w>>)
      BY ShortSequences
    <3> QED
      BY <3>1, <3>2, AppendIs DEF Shape
  <2>2. CASE same # {}
    <3>1. k \in DOMAIN s.full /\ t.full = [s.full EXCEPT ![k] = Append(@, w)]
      BY <1>1, <2>2
    <3> HIDE DEF t, same, k
    <3>2. IsSequence(Append(s.full[k], w))
      BY <3>1, AppendIs DEF Shape
    <3>3. DOMAIN t.full = DOMAIN s.full /\ t.full = [i \in DOMAIN t.full |-> t.full[i]]
      BY <3>1
    <3>4. IsSequence(t.full)
      BY <3>3, MappedIs DEF Shape
    <3> QED
      BY <3>1, <3>2, <3>3, <3>4 DEF Shape
  <2> QED
    BY <2>1, <2>2
<1> HIDE DEF t
<1>3. Quiet(s, t, q)
  BY <1>1, <1>2, RestQuiet DEF Shape
<1> QED
  BY <1>3 DEF t

\* A task comes to its run.
LEMMA InstantiateQuiet ==
  ASSUME NEW q \in Runs, NEW s0, NEW w, NEW o, Shape(s0, q)
  PROVE  Quiet(s0, InstantiateOrUpdate(s0, w, o), q)
<1> DEFINE s == Touch(s0, w.run)
           r == w.run
           h == s.cache[r]
           g == [h EXCEPT !.buf = Buffer(@, w)]
           f == [s EXCEPT !.fetch = @ \cup {[what |-> "full", run |-> r, wft |-> w]}]
           n == [Set(s, r, NewRun) EXCEPT !.lru = Append(@, r)]
<1>1. Quiet(s0, s, q)
  BY TouchQuiet
<1> HIDE DEF s, r
<1>2. Shape(s, q)
  BY <1>1, QuietShape
<1>3. ASSUME Cached(s, r) PROVE Quiet(s, Set(s, r, g), q)
  <2>1. r = q => SameRun(s.cache[q], g)
    BY <1>2, <1>3 DEF Shape, SameRun, IsRecord, NewRun
  <2> HIDE DEF g
  <2> QED
    BY <1>2, <2>1, SetQuiet
<1>4. Quiet(s, BufferOnFullCache(s, w), q)
  BY <1>2, BufferOnFullCacheQuiet
<1>5. Quiet(s, f, q)
  <2>1. /\ DOMAIN f = DOMAIN St /\ f.cache = s.cache /\ f.lru = s.lru /\ f.full = s.full
        /\ f.asserts = s.asserts /\ f.out = s.out /\ f.rep = s.rep
    BY <1>2 DEF Shape, St
  <2> HIDE DEF f
  <2> QED
    BY <1>2, <2>1, RestQuiet DEF Shape
<1>6. ASSUME Cached(s, r) PROVE Quiet(s, IncomingWft(s, r, w, FALSE, o), q)
  BY <1>2, <1>6, IncomingWftQuiet
<1>7. ASSUME ~Cached(s, r) PROVE Quiet(s, IncomingWft(n, r, w, TRUE, o), q)
  <2> DEFINE u == Set(s, r, NewRun)
  <2>1. /\ DOMAIN u = DOMAIN St /\ DOMAIN u.cache = Runs
        /\ u.cache[q] = IF r = q THEN NewRun ELSE s.cache[q]
        /\ u.lru = s.lru /\ u.full = s.full /\ u.asserts = s.asserts /\ u.out = s.out
        /\ u.rep = s.rep
    BY <1>2, SetIs
  <2>2. n = [u EXCEPT !.lru = Append(@, r)]
    OBVIOUS
  <2> HIDE DEF u, n
  <2>3. /\ DOMAIN n = DOMAIN St /\ n.cache = u.cache /\ n.full = s.full
        /\ n.asserts = s.asserts /\ n.out = s.out /\ n.rep = s.rep
        /\ n.lru = Append(s.lru, r)
    BY <2>1, <2>2 DEF St
  <2>4. IsSequence(n.lru)
    BY <1>2, <2>3, AppendIs DEF Shape
  <2>5. /\ r = q => Cached(n, q) /\ n.cache[q] = NewRun
        /\ r # q => n.cache[q] = s.cache[q]
    BY <2>1, <2>3 DEF Cached, NewRun
  <2>6. /\ Cached(s, q) => Cached(n, q)
        /\ PageOf(n, q) = PageOf(s, q) /\ LaOf(n, q) = LaOf(s, q) /\ ActOf(n, q) = ActOf(s, q)
        /\ RepOf(n, q) = RepOf(s, q)
    BY <1>7, <2>3, <2>5 DEF Cached, PageOf, LaOf, ActOf, RepOf, NewRun
  <2>7. Shape(n, q)
    BY <1>2, <2>1, <2>3, <2>4, <2>5 DEF Shape, IsRecord, Cached
  <2>8. Quiet(s, n, q)
    BY <1>2, <2>3, <2>6, <2>7, QuietSame
  <2>9. Quiet(n, IncomingWft(n, r, w, TRUE, o), q)
    BY <2>5, <2>7, IncomingWftQuiet
  <2> QED
    BY <1>2, <2>8, <2>9, QuietTrans
<1>8. Quiet(s, InstantiateOrUpdate(s0, w, o), q)
  <2> HIDE DEF g, f, n
  <2>1. \/ Cached(s, r) /\ InstantiateOrUpdate(s0, w, o) = Set(s, r, g)
        \/ InstantiateOrUpdate(s0, w, o) = BufferOnFullCache(s, w)
        \/ InstantiateOrUpdate(s0, w, o) = f
        \/ Cached(s, r) /\ InstantiateOrUpdate(s0, w, o) = IncomingWft(s, r, w, FALSE, o)
        \/ ~Cached(s, r) /\ InstantiateOrUpdate(s0, w, o) = IncomingWft(n, r, w, TRUE, o)
    <3>1. CASE Cached(s, r)
      BY <3>1 DEF InstantiateOrUpdate, s, r, g
    <3>2. CASE ~Cached(s, r)
      BY <3>2 DEF InstantiateOrUpdate, s, r, f, n
    <3> QED
      BY <3>1, <3>2
  <2> QED
    BY <1>3, <1>4, <1>5, <1>6, <1>7, <2>1
<1> QED
  BY <1>1, <1>8, QuietTrans

\* Of all but the last of several tasks no activation goes out.
LEMMA ApplyExtraQuiet ==
  ASSUME NEW q \in Runs, NEW s, NEW w, NEW o, Shape(s, q)
  PROVE  Quiet(s, ApplyExtra(s, w, o), q)
<1> DEFINE t == InstantiateOrUpdate(s, w, o)
           u == [t EXCEPT !.out = s.out]
<1>1. Quiet(s, t, q)
  BY InstantiateQuiet
<1> HIDE DEF t
<1>2. Quiet(s, u, q)
  BY <1>1, QuietUnsent
<1> HIDE DEF u
<1>3. Quiet(s, Note(u, "extra_activation"), q)
  BY <1>2, QuietShape, NoteQuiet, QuietTrans
<1> QED
  BY <1>1, <1>3 DEF ApplyExtra, NoActivation, t, u

----------------------------------------------------------------------------
(* The two folds of the stream.  Induction over the positions of a list is *)
(* induction over a set of numbers.                                        *)

\* A set that has 0 and with every number the next has them all.
LEMMA SetInduction ==
  ASSUME NEW P, 0 \in P, \A n \in Nat : n \in P => n + 1 \in P
  PROVE  Nat \subseteq P
<1> DEFINE T == Nat \ P
           R == {ss \in Nat \X Nat : ss[1] < ss[2]}
<1>1. SUFFICES ASSUME T # {} PROVE FALSE
  OBVIOUS
<1>2. IsWellFoundedOn(R, Nat)
  <2>1. OpToRel(<, Nat) = R
    BY Zenon DEF OpToRel
  <2> QED
    BY <2>1, NatLessThanWellFounded, Zenon
<1>3. PICK x \in T : \A y \in T : ~ (<<y, x>> \in R)
  BY <1>1, <1>2, WFMin
<1>4. x # 0 /\ x - 1 \in Nat
  OBVIOUS
<1>5. x - 1 \in P
  <2>1. x \in Nat /\ x - 1 < x
    OBVIOUS
  <2>2. <<x - 1, x>> \in R
    BY <1>4, <2>1
  <2>3. x - 1 \notin T
    <3> HIDE DEF R, T
    <3> QED
      BY <1>3, <2>2
  <2> QED
    BY <1>4, <2>3
<1> QED
  BY <1>4, <1>5

\* The evictions for the tasks that wait, one position after the other.
LEMMA ReconcileSteps ==
  ASSUME NEW s, NEW o, IsSequence(s.lru)
  PROVE  \E F : /\ F[0] = s /\ Reconcile(s, o) = F[Len(s.lru)]
                /\ \A i \in 1 .. Len(s.lru) :
                      F[i] = IF i \in ToEvict(s) THEN RequestEviction(F[i - 1], s.lru[i], "soft", 0, o)
                             ELSE F[i - 1]
<1> DEFINE n == Len(s.lru)
           chosen == ToEvict(s)
           Step(x, i) == IF i \in chosen THEN RequestEviction(x, s.lru[i], "soft", 0, o) ELSE x
           Good(m, f) == f = [i \in 0 .. m |-> IF i = 0 THEN s ELSE Step(f[i - 1], i)]
           P == {m \in Nat : \E f : Good(m, f)}
           F == CHOOSE f : Good(n, f)
<1>1. n \in Nat
  BY SequenceIs
<1>2. Reconcile(s, o) = F[n]
  BY DEF Reconcile
<1> HIDE DEF n, chosen, Step
<1>4. 0 \in P
  <2> DEFINE f == [i \in 0 .. 0 |-> s]
  <2>1. Good(0, f)
    OBVIOUS
  <2> QED
    BY <2>1
<1>5. ASSUME NEW m \in Nat, m \in P PROVE m + 1 \in P
  <2>1. PICK f : Good(m, f)
    BY <1>5
  <2> DEFINE g == [i \in 0 .. (m + 1) |-> IF i = m + 1 THEN Step(f[m], m + 1) ELSE f[i]]
  <2>2. ASSUME NEW i \in 0 .. (m + 1)
        PROVE  g[i] = IF i = 0 THEN s ELSE Step(g[i - 1], i)
    <3>1. CASE i = 0
      BY <2>1, <3>1
    <3>2. CASE i = m + 1
      BY <2>1, <3>2
    <3>3. CASE i # 0 /\ i # m + 1
      <4>1. i \in 0 .. m /\ i - 1 \in 0 .. m
        BY <3>3
      <4>2. f[i] = Step(f[i - 1], i)
        BY <2>1, <4>1, <3>3
      <4>3. g[i] = f[i] /\ g[i - 1] = f[i - 1]
        BY <3>3, <4>1
      <4> QED
        BY <4>2, <4>3, <3>3, Zenon
    <3> QED
      BY <3>1, <3>2, <3>3
  <2>3. Good(m + 1, g)
    BY <2>2
  <2>4. \E h : Good(m + 1, h)
    <3> HIDE DEF Good, g
    <3> QED
      BY <2>3, Zenon
  <2> HIDE DEF Good
  <2> QED
    BY <2>4
<1>6. \E f : Good(n, f)
  <2> HIDE DEF P
  <2>1. n \in P
    BY <1>1, <1>4, <1>5, SetInduction
  <2> QED
    BY <2>1 DEF P
<1>7. Good(n, F)
  <2> HIDE DEF Good
  <2> QED
    BY <1>6, Zenon
<1>8. F[0] = s /\ \A i \in 1 .. n : F[i] = Step(F[i - 1], i)
  <2> HIDE DEF F
  <2> QED
    BY <1>1, <1>7
<1> HIDE DEF F
<1> QED
  BY <1>2, <1>8 DEF n, chosen, Step

\* The tasks that are applied after a completion, one after the other.
LEMMA ApplyReadySteps ==
  ASSUME NEW s, NEW ready, NEW o, IsSequence(ready), ready # <<>>
  PROVE  LET n == Len(ready) - 1
         IN  /\ n \in Nat
             /\ \E F : /\ F[0] = InstantiateOrUpdate(s, ready[Len(ready)], o)
                       /\ \A i \in 1 .. n : F[i] = ApplyExtra(F[i - 1], ready[i], o)
                       /\ ApplyReady(s, ready, o) = F[n]
<1> DEFINE n == Len(ready) - 1
           first == InstantiateOrUpdate(s, ready[Len(ready)], o)
           Good(m, f) == f = [i \in 0 .. m |-> IF i = 0 THEN first
                                               ELSE ApplyExtra(f[i - 1], ready[i], o)]
           P == {m \in Nat : \E f : Good(m, f)}
           F == CHOOSE f : Good(n, f)
<1>2. n \in Nat
  BY SequenceIs DEF IsSequence
<1>3. ApplyReady(s, ready, o) = F[n]
  BY DEF ApplyReady
<1> HIDE DEF n, first
<1>5. 0 \in P
  <2> DEFINE f == [i \in 0 .. 0 |-> first]
  <2>1. Good(0, f)
    OBVIOUS
  <2> QED
    BY <2>1
<1>6. ASSUME NEW m \in Nat, m \in P PROVE m + 1 \in P
  <2>1. PICK f : Good(m, f)
    BY <1>6
  <2> DEFINE g == [i \in 0 .. (m + 1) |-> IF i = m + 1 THEN ApplyExtra(f[m], ready[m + 1], o)
                                          ELSE f[i]]
  <2>2. ASSUME NEW i \in 0 .. (m + 1)
        PROVE  g[i] = IF i = 0 THEN first ELSE ApplyExtra(g[i - 1], ready[i], o)
    <3>1. CASE i = 0
      BY <2>1, <3>1
    <3>2. CASE i = m + 1
      BY <2>1, <3>2
    <3>3. CASE i # 0 /\ i # m + 1
      <4>1. i \in 0 .. m /\ i - 1 \in 0 .. m
        BY <3>3
      <4>2. f[i] = ApplyExtra(f[i - 1], ready[i], o)
        BY <2>1, <4>1, <3>3
      <4>3. g[i] = f[i] /\ g[i - 1] = f[i - 1]
        BY <3>3, <4>1
      <4> QED
        BY <4>2, <4>3, <3>3, Zenon
    <3> QED
      BY <3>1, <3>2, <3>3
  <2>3. Good(m + 1, g)
    BY <2>2
  <2>4. \E h : Good(m + 1, h)
    <3> HIDE DEF Good, g
    <3> QED
      BY <2>3, Zenon
  <2> HIDE DEF Good
  <2> QED
    BY <2>4
<1>7. \E f : Good(n, f)
  <2> HIDE DEF P
  <2>1. n \in P
    BY <1>2, <1>5, <1>6, SetInduction
  <2> QED
    BY <2>1 DEF P
<1>8. Good(n, F)
  <2> HIDE DEF Good
  <2> QED
    BY <1>7, Zenon
<1>9. F[0] = first /\ \A i \in 1 .. n : F[i] = ApplyExtra(F[i - 1], ready[i], o)
  <2> HIDE DEF F
  <2> QED
    BY <1>2, <1>8
<1> HIDE DEF F
<1>10. \E f : f[0] = first /\ (\A i \in 1 .. n : f[i] = ApplyExtra(f[i - 1], ready[i], o))
              /\ ApplyReady(s, ready, o) = f[n]
  BY <1>3, <1>9
<1> QED
  BY <1>2, <1>10 DEF n, first

\* The evictions for the tasks that wait.
LEMMA ReconcileQuiet ==
  ASSUME NEW q \in Runs, NEW s, NEW o, Shape(s, q)
  PROVE  Quiet(s, Reconcile(s, o), q)
<1> DEFINE n == Len(s.lru)
<1>1. IsSequence(s.lru) /\ n \in Nat
  BY SequenceIs DEF Shape
<1>2. PICK F : /\ F[0] = s /\ Reconcile(s, o) = F[n]
               /\ \A i \in 1 .. n :
                     F[i] = IF i \in ToEvict(s)
                            THEN RequestEviction(F[i - 1], s.lru[i], "soft", 0, o) ELSE F[i - 1]
  BY <1>1, ReconcileSteps
<1> DEFINE Q == {i \in Nat : i <= n => Quiet(s, F[i], q)}
<1> HIDE DEF n
<1>3. 0 \in Q
  BY <1>2, QuietRefl
<1>4. ASSUME NEW i \in Nat, i \in Q PROVE i + 1 \in Q
  <2>1. CASE i + 1 <= n
    <3>1. i + 1 \in 1 .. n /\ (i + 1) - 1 = i /\ Quiet(s, F[i], q)
      BY <1>1, <1>4, <2>1
    <3>2. Quiet(s, RequestEviction(F[i], s.lru[i + 1], "soft", 0, o), q)
      BY <3>1, QuietShape, EvictionQuiet, QuietTrans
    <3>3. F[i + 1] \in {F[i], RequestEviction(F[i], s.lru[i + 1], "soft", 0, o)}
      BY <1>2, <3>1
    <3> QED
      BY <3>1, <3>2, <3>3
  <2>2. CASE ~(i + 1 <= n)
    BY <2>2
  <2> QED
    BY <2>1, <2>2
<1>5. n \in Q
  <2> HIDE DEF Q
  <2> QED
    BY <1>1, <1>3, <1>4, SetInduction
<1> QED
  BY <1>1, <1>2, <1>5

\* The tasks that are applied after a completion.
LEMMA ApplyReadyQuiet ==
  ASSUME NEW q \in Runs, NEW s, NEW ready, NEW o, Shape(s, q), IsSequence(ready)
  PROVE  Quiet(s, ApplyReady(s, ready, o), q)
<1> DEFINE n == Len(ready) - 1
<1>1. SUFFICES ASSUME ready # <<>> PROVE Quiet(s, ApplyReady(s, ready, o), q)
  BY QuietRefl DEF ApplyReady
<1>2. n \in Nat
  BY <1>1, ApplyReadySteps
<1>3. PICK F : /\ F[0] = InstantiateOrUpdate(s, ready[Len(ready)], o)
               /\ \A i \in 1 .. n : F[i] = ApplyExtra(F[i - 1], ready[i], o)
               /\ ApplyReady(s, ready, o) = F[n]
  BY <1>1, ApplyReadySteps
<1> DEFINE Q == {i \in Nat : i <= n => Quiet(s, F[i], q)}
<1> HIDE DEF n
<1>4. 0 \in Q
  BY <1>3, InstantiateQuiet
<1>5. ASSUME NEW i \in Nat, i \in Q PROVE i + 1 \in Q
  <2>1. CASE i + 1 <= n
    <3>1. F[i + 1] = ApplyExtra(F[i], ready[i + 1], o) /\ Quiet(s, F[i], q)
      BY <1>2, <1>3, <1>5, <2>1
    <3> QED
      BY <3>1, QuietShape, ApplyExtraQuiet, QuietTrans
  <2>2. CASE ~(i + 1 <= n)
    BY <2>2
  <2> QED
    BY <2>1, <2>2
<1>6. n \in Q
  <2> HIDE DEF Q
  <2> QED
    BY <1>2, <1>4, <1>5, SetInduction
<1> QED
  BY <1>2, <1>3, <1>6

----------------------------------------------------------------------------
(* post_activation: the activation is no longer outstanding, or the run is *)
(* gone; what follows is quiet.                                            *)

\* u is s with the activation of q finished, or q dropped after an eviction.
Finishes(s, u, q, m) ==
  /\ Shape(u, q) /\ u.asserts = s.asserts /\ u.out = s.out /\ u.rep = s.rep
  /\ IF ActOf(s, q) = "Eviction" /\ m.chan = "lang" THEN ~Cached(u, q)
     ELSE /\ Cached(u, q)
          /\ PageOf(u, q) = PageOf(s, q) /\ LaOf(u, q) = LaOf(s, q)
          /\ ActOf(u, q) = IF m.chan # "auto" \/ ActOf(s, q) = "Autocomplete" THEN "none"
                           ELSE ActOf(s, q)

\* With nothing sent the run is asked for more, and evicted when it is done.
LEMMA CheckAfterTasksQuiet ==
  ASSUME NEW q \in Runs, NEW s, NEW out, NEW m, NEW o, Shape(s, q)
  PROVE  Quiet(s, CheckAfterTasks(s, out, m, o), q)
<1> DEFINE t == CheckMoreActivations(s, m.run, o)
<1>1. CASE s.out = out /\ Cached(s, m.run)
  <2>1. Quiet(s, t, q)
    BY <1>1, CheckMoreActivationsQuiet
  <2> HIDE DEF t
  <2>2. Quiet(s, RequestEviction(t, m.run, "soft", 0, o), q)
    BY <2>1, QuietShape, EvictionQuiet, QuietTrans
  <2>3. CheckAfterTasks(s, out, m, o) = EvictIfFinished(t, out, m.run, m.status, o)
    BY <1>1 DEF CheckAfterTasks, t
  <2> QED
    BY <2>1, <2>2, <2>3 DEF EvictIfFinished
<1>2. CASE ~(s.out = out /\ Cached(s, m.run))
  BY <1>2, QuietRefl DEF CheckAfterTasks
<1> QED
  BY <1>1, <1>2

\* The activation of r is no longer outstanding.
LEMMA FinishActivationIs ==
  ASSUME NEW q \in Runs, NEW s, NEW r, NEW m, Shape(s, q), r = q => Cached(s, q)
  PROVE  LET t == FinishActivation(s, r, m.chan = "auto") IN
         /\ r # q => Quiet(s, t, q)
         /\ r = q /\ ~(ActOf(s, q) = "Eviction" /\ m.chan = "lang") => Finishes(s, t, q, m)
         /\ t.full = s.full
<1> DEFINE g == [s.cache[r] EXCEPT !.act = "none"]
           t == FinishActivation(s, r, m.chan = "auto")
           u == Set(s, r, g)
<1>1. r # q => Quiet(s, t, q)
  BY QuietRefl, SetQuiet DEF FinishActivation
<1>2. /\ DOMAIN u = DOMAIN St /\ DOMAIN u.cache = Runs
      /\ u.cache[q] = IF r = q THEN g ELSE s.cache[q]
      /\ u.lru = s.lru /\ u.full = s.full /\ u.asserts = s.asserts /\ u.out = s.out
      /\ u.rep = s.rep
  BY SetIs
<1>3. r = q => /\ IsRecord(g) /\ g.run = "cached" /\ g.act = "none"
               /\ g.page = s.cache[q].page /\ g.laDat = s.cache[q].laDat
  BY DEF Shape, IsRecord, NewRun, Cached
<1>4. t = u \/ (t = s /\ m.chan = "auto" /\ s.cache[r].act # "Autocomplete")
  BY DEF FinishActivation
<1>5. t = u => m.chan # "auto" \/ s.cache[r].act = "Autocomplete" \/ t = s
  BY DEF FinishActivation
<1> HIDE DEF t, u, g
<1>6. ASSUME r = q, ~(ActOf(s, q) = "Eviction" /\ m.chan = "lang") PROVE Finishes(s, t, q, m)
  <2>1. CASE t = s /\ m.chan = "auto" /\ s.cache[r].act # "Autocomplete"
    BY <1>6, <2>1 DEF Finishes, ActOf
  <2>2. CASE t = u /\ t # s
    <3>1. Cached(u, q) /\ Shape(u, q)
      BY <1>2, <1>3, <1>6 DEF Cached, Shape
    <3>2. /\ PageOf(u, q) = PageOf(s, q) /\ LaOf(u, q) = LaOf(s, q) /\ ActOf(u, q) = "none"
      BY <1>2, <1>3, <1>6, <3>1 DEF PageOf, LaOf, ActOf
    <3>3. m.chan # "auto" \/ ActOf(s, q) = "Autocomplete"
      BY <1>5, <1>6, <2>2 DEF ActOf
    <3> QED
      BY <1>2, <1>6, <2>2, <3>1, <3>2, <3>3 DEF Finishes
  <2>3. CASE t = u /\ t = s
    <3>1. s.cache[q].act = "none"
      BY <1>2, <1>3, <1>6, <2>3
    <3> QED
      BY <1>6, <2>3, <3>1 DEF Finishes, ActOf
  <2> QED
    BY <1>4, <2>1, <2>2, <2>3
<1>7. t.full = s.full
  BY <1>2, <1>4
<1> QED
  BY <1>1, <1>6, <1>7 DEF t

\* The run r is taken out of the cache.
LEMMA DropRunIs ==
  ASSUME NEW q \in Runs, NEW s, NEW r, NEW m, Shape(s, q)
  PROVE  LET t == DropRun(s, r) IN
         /\ r # q => Quiet(s, t, q)
         /\ r = q /\ ActOf(s, q) = "Eviction" /\ m.chan = "lang" => Finishes(s, t, q, m)
         /\ t.full = s.full
<1> DEFINE t == DropRun(s, r)
<1>1. /\ DOMAIN t = DOMAIN St /\ DOMAIN t.cache = Runs
      /\ t.cache[q] = IF r = q THEN NoRun ELSE s.cache[q]
      /\ t.full = s.full /\ t.asserts = s.asserts /\ t.out = s.out /\ t.rep = s.rep
      /\ t.lru = IF r \in Range(s.lru) THEN Without(s.lru, r) ELSE s.lru
  BY DEF DropRun, Shape, St
<1> HIDE DEF t
<1>2. IsSequence(t.lru)
  BY <1>1, WithoutIs DEF Shape
<1>3. r = q => ~Cached(t, q)
  BY <1>1 DEF Cached, NoRun
<1>4. Shape(t, q)
  BY <1>1, <1>2, <1>3 DEF Shape, Cached
<1>5. ASSUME r # q PROVE Quiet(s, t, q)
  <2>1. /\ Cached(t, q) <=> Cached(s, q)
        /\ PageOf(t, q) = PageOf(s, q) /\ LaOf(t, q) = LaOf(s, q) /\ ActOf(t, q) = ActOf(s, q)
        /\ RepOf(t, q) = RepOf(s, q)
    BY <1>1, <1>5 DEF Cached, PageOf, LaOf, ActOf, RepOf
  <2> QED
    BY <1>1, <1>4, <2>1, QuietSame
<1>6. r = q /\ ActOf(s, q) = "Eviction" /\ m.chan = "lang" => Finishes(s, t, q, m)
  BY <1>1, <1>3, <1>4 DEF Finishes
<1> QED
  BY <1>1, <1>5, <1>6 DEF t

\* The first list of waiting tasks is taken.
LEMMA TailFullIs ==
  ASSUME NEW q \in Runs, NEW t, Shape(t, q), t.full # <<>>
  PROVE  /\ Quiet(t, [t EXCEPT !.full = Tail(@)], q)
         /\ [t EXCEPT !.full = Tail(@)].cache = t.cache
         /\ [t EXCEPT !.full = Tail(@)].asserts = t.asserts
         /\ [t EXCEPT !.full = Tail(@)].out = t.out
         /\ [t EXCEPT !.full = Tail(@)].rep = t.rep
<1> DEFINE u == [t EXCEPT !.full = Tail(@)]
<1>1. /\ DOMAIN u = DOMAIN St /\ u.cache = t.cache /\ u.lru = t.lru
      /\ u.asserts = t.asserts /\ u.out = t.out /\ u.rep = t.rep /\ u.full = Tail(t.full)
  BY DEF Shape, St
<1> HIDE DEF u
<1>2. IsSequence(u.full) /\ \A i \in DOMAIN u.full : IsSequence(u.full[i])
  BY <1>1, TailIs DEF Shape
<1>3. Quiet(t, u, q)
  BY <1>1, <1>2, RestQuiet DEF Shape
<1> QED
  BY <1>1, <1>3 DEF u

\* What is applied after a completion is a list.
LEMMA ReadyIs ==
  ASSUME NEW q \in Runs, NEW t, NEW r, NEW evicted, NEW b, NEW w, Shape(t, q)
  PROVE  IsSequence(ReadyWfts(t, r, evicted, b, w))
<1>1. IsSequence(<<NextWft(b)>>) /\ IsSequence(<<w>>) /\ IsSequence(<<>>)
  BY ShortSequences
<1>2. t.full # <<>> => IsSequence(Head(t.full))
  BY TailIs DEF Shape
<1> QED
  BY <1>1, <1>2 DEF ReadyWfts

\* The rest of post_activation.
LEMMA FinishedIs ==
  ASSUME NEW q \in Runs, NEW s, NEW m, NEW evicted, NEW w, NEW o, Shape(s, q),
         m.run = q => Cached(s, q),
         m.run = q => (evicted <=> ActOf(s, q) = "Eviction" /\ m.chan = "lang")
  PROVE  /\ m.run # q => Quiet(s, Finished(s, m, evicted, w, o), q)
         /\ m.run = q => \E u : Finishes(s, u, q, m) /\ Quiet(u, Finished(s, m, evicted, w, o), q)
<1> DEFINE r == m.run
           b == s.cache[r].buf
           t == IF evicted THEN DropRun(s, r) ELSE FinishActivation(s, r, m.chan = "auto")
           takes == evicted /\ NextWft(b) = NoTask /\ w = NoTask /\ t.full # <<>>
           u == IF takes THEN [t EXCEPT !.full = Tail(@)] ELSE t
           v == ApplyReady(u, ReadyWfts(t, r, evicted, b, w), o)
           z == Finished(s, m, evicted, w, o)
<1>1. z = CheckAfterTasks(v, s.out, m, o)
  BY DEF Finished
<1>2. (r # q => Quiet(s, t, q)) /\ (r = q => Finishes(s, t, q, m))
  BY FinishActivationIs, DropRunIs
<1> HIDE DEF t
<1>3. Shape(t, q)
  BY <1>2 DEF Finishes, Quiet, Works
<1>4. /\ Quiet(t, u, q) /\ u.cache = t.cache /\ u.asserts = t.asserts /\ u.out = t.out
      /\ u.rep = t.rep
  BY <1>3, TailFullIs, QuietRefl
<1> HIDE DEF u, takes
<1>5. Shape(u, q)
  BY <1>4, QuietShape
<1>6. IsSequence(ReadyWfts(t, r, evicted, b, w))
  BY <1>3, ReadyIs
<1>7. Quiet(u, v, q)
  BY <1>5, <1>6, ApplyReadyQuiet
<1> HIDE DEF v
<1>8. Quiet(u, z, q)
  BY <1>1, <1>5, <1>7, QuietShape, CheckAfterTasksQuiet, QuietTrans
<1> HIDE DEF z
<1>9. r = q => Finishes(s, u, q, m)
  <2>1. /\ Cached(u, q) <=> Cached(t, q)
        /\ PageOf(u, q) = PageOf(t, q) /\ LaOf(u, q) = LaOf(t, q) /\ ActOf(u, q) = ActOf(t, q)
    BY <1>4 DEF Cached, PageOf, LaOf, ActOf
  <2> QED
    BY <1>2, <1>4, <1>5, <2>1 DEF Finishes
<1>10. r # q => Quiet(s, z, q)
  BY <1>2, <1>4, <1>8, QuietTrans
<1> QED
  BY <1>8, <1>9, <1>10 DEF z

\* A post_activation of a cached run finishes its activation, that of another
\* run is quiet.
LEMMA PostActivationIs ==
  ASSUME NEW q \in Runs, NEW s0, NEW m, NEW o, Shape(s0, q)
  PROVE  /\ m.run # q \/ ~Cached(s0, q) => Quiet(s0, PostActivationInput(s0, m, o), q)
         /\ m.run = q /\ Cached(s0, q) =>
              \E s, u : /\ Quiet(s0, s, q) /\ s.asserts = s0.asserts /\ s.out = s0.out
                        /\ ActOf(s, q) = ActOf(s0, q)
                        /\ Finishes(s, u, q, m) /\ Quiet(u, PostActivationInput(s0, m, o), q)
<1> DEFINE r == m.run
           k == Touch(s0, r)
           completes == CompletesWft(k, r, m.status)
           w == IF completes /\ k.cache[r].wft.id # 0 THEN m.wft ELSE NoTask
           s == IF completes THEN [k EXCEPT !.cache[r].wft = NoWft] ELSE k
           evicted == k.cache[r].act = "Eviction" /\ m.chan = "lang"
           z == PostActivationInput(s0, m, o)
<1>1. /\ Quiet(s0, k, q) /\ k.cache = s0.cache /\ k.out = s0.out
      /\ k.asserts = s0.asserts
  BY TouchQuiet DEF Touch, Shape, St
<1>2. z = IF ~Cached(s0, r) THEN s0 ELSE Finished(s, m, evicted, w, o)
  BY DEF PostActivationInput
<1> HIDE DEF k, completes
<1>3. Shape(k, q) /\ (Cached(s0, r) => Cached(k, r))
  BY <1>1 DEF Quiet, Works, Cached
<1>4. /\ DOMAIN s = DOMAIN St /\ DOMAIN s.cache = Runs /\ s.lru = k.lru /\ s.full = k.full
      /\ s.asserts = k.asserts /\ s.out = k.out /\ s.rep = k.rep
      /\ r # q => s.cache[q] = k.cache[q]
      /\ r = q => s.cache[q] = k.cache[q] \/ s.cache[q] = [k.cache[q] EXCEPT !.wft = NoWft]
  BY <1>3 DEF Shape, St
<1> HIDE DEF s, w
<1>5. ASSUME Cached(s0, r) PROVE Quiet(k, s, q) /\ (r = q => s.cache[q].act = k.cache[q].act)
  <2>1. r = q => s.cache[q] = k.cache[q] \/ SameRun(k.cache[q], s.cache[q])
    BY <1>3, <1>4, <1>5 DEF SameRun, IsRecord, NewRun, Shape
  <2> QED
    BY <1>3, <1>4, <2>1, PartsQuiet DEF SameRun
<1>6. ASSUME Cached(s0, r) PROVE Quiet(s0, s, q)
  BY <1>1, <1>5, <1>6, QuietTrans
<1>7. ASSUME Cached(s0, r), r = q
      PROVE  /\ Cached(s, q) /\ ActOf(s, q) = ActOf(s0, q)
             /\ evicted <=> ActOf(s, q) = "Eviction" /\ m.chan = "lang"
  BY <1>1, <1>3, <1>5, <1>6, <1>7, QuietShape DEF ActOf
<1>8. ASSUME Cached(s0, r), r # q PROVE Quiet(s0, z, q)
  <2>1. Quiet(s, Finished(s, m, evicted, w, o), q)
    BY <1>6, <1>8, QuietShape, FinishedIs
  <2> QED
    BY <1>2, <1>6, <1>8, <2>1, QuietTrans
<1>9. ASSUME Cached(s0, r), r = q
      PROVE  \E u : Finishes(s, u, q, m) /\ Quiet(u, z, q)
  <2>1. Shape(s, q)
    BY <1>6, <1>9, QuietShape
  <2> HIDE DEF evicted
  <2> QED
    BY <1>2, <1>7, <1>9, <2>1, FinishedIs
<1>10. ~Cached(s0, r) => Quiet(s0, z, q)
  BY <1>2, QuietRefl
<1> HIDE DEF z
<1>11. ASSUME r = q, Cached(s0, q)
       PROVE  \E x, u : /\ Quiet(s0, x, q) /\ x.asserts = s0.asserts /\ x.out = s0.out
                        /\ ActOf(x, q) = ActOf(s0, q)
                        /\ Finishes(x, u, q, m) /\ Quiet(u, z, q)
  BY <1>1, <1>4, <1>6, <1>7, <1>9, <1>11
<1> QED
  BY <1>8, <1>10, <1>11 DEF z

----------------------------------------------------------------------------
(* Completions: the caller is answered, or the run keeps its channel.      *)

Told(s, c, q) == \E x \in RepOf(s, q) : x.chan = c

\* From s to t the caller c of q is answered.
Answers(s, t, q, c) ==
  /\ Works(s, t, q)
  /\ PageOf(t, q) = PageOf(s, q) /\ LaOf(t, q) = LaOf(s, q)
  /\ \E x : /\ x.chan = c /\ x.run = q /\ x.outcome # "sent"
            /\ RepOf(t, q) = RepOf(s, q) \cup {x}

\* A quiet step before or after makes no difference.
LEMMA AnswersTrans ==
  ASSUME NEW q \in Runs, NEW s, NEW t, NEW u, NEW c, Shape(s, q),
         \/ Quiet(s, t, q) /\ Answers(t, u, q, c)
         \/ Answers(s, t, q, c) /\ Quiet(t, u, q)
  PROVE  Answers(s, u, q, c)
<1>1. Works(s, u, q)
  BY WorksTrans DEF Quiet, Answers
<1> QED
  BY <1>1 DEF Quiet, Answers

\* An answer goes out.
LEMMA RepIs ==
  ASSUME NEW q \in Runs, NEW s, NEW r, NEW c, NEW outcome, outcome # "sent", Shape(s, q)
  PROVE  LET t == [s EXCEPT !.rep = @ \cup {[chan |-> c, run |-> r, outcome |-> outcome]}] IN
         /\ r # q => Quiet(s, t, q)
         /\ r = q => Answers(s, t, q, c)
<1> DEFINE x == [chan |-> c, run |-> r, outcome |-> outcome]
           t == [s EXCEPT !.rep = @ \cup {x}]
<1>1. /\ DOMAIN t = DOMAIN St /\ t.cache = s.cache /\ t.lru = s.lru /\ t.full = s.full
      /\ t.asserts = s.asserts /\ t.out = s.out /\ t.rep = s.rep \cup {x}
  BY DEF Shape, St
<1>2. x.chan = c /\ x.run = r /\ x.outcome # "sent"
  OBVIOUS
<1> HIDE DEF t, x
<1>3. /\ Cached(t, q) <=> Cached(s, q)
      /\ PageOf(t, q) = PageOf(s, q) /\ LaOf(t, q) = LaOf(s, q) /\ ActOf(t, q) = ActOf(s, q)
      /\ r # q => RepOf(t, q) = RepOf(s, q)
      /\ r = q => RepOf(t, q) = RepOf(s, q) \cup {x}
  BY <1>1, <1>2 DEF Cached, PageOf, LaOf, ActOf, RepOf
<1>4. Shape(t, q)
  BY <1>1, <1>3 DEF Shape
<1>5. Len(s.out) \in Nat /\ DOMAIN s.out = 1 .. Len(s.out)
  BY SequenceIs DEF Shape
<1>6. Works(s, t, q)
  BY <1>1, <1>3, <1>4, <1>5 DEF Works, Sends, Completes
<1>7. (r # q => Quiet(s, t, q)) /\ (r = q => Answers(s, t, q, c))
  BY <1>2, <1>3, <1>6 DEF Quiet, Answers
<1> QED
  BY <1>7 DEF t, x

\* A completion is answered to its caller.  When the caller has gone, the run
\* is asked to go and nobody is told anything.
LEMMA ReplyIs ==
  ASSUME NEW q \in Runs, NEW s, NEW r, NEW c, NEW outcome, outcome # "sent", NEW o, Shape(s, q),
         r = q => Cached(s, q)
  PROVE  /\ r # q => Quiet(s, Reply(s, r, c, outcome, o), q)
         /\ r = q /\ c \in Callers => Answers(s, Reply(s, r, c, outcome, o), q, c)
<1>1. CASE c = "gone"
  <2> DEFINE t == EvictBasic(s, r, "hard", 0, o)
  <2>1. Quiet(s, t, q)
    BY EvictBasicQuiet
  <2> HIDE DEF t
  <2>2. Quiet(s, [t EXCEPT !.out = s.out], q)
    BY <2>1, QuietUnsent
  <2> QED
    BY <1>1, <2>2 DEF Reply, t, Callers
<1>2. CASE c # "gone"
  BY <1>2, RepIs DEF Reply
<1> QED
  BY <1>1, <1>2

\* e is s after an eviction was requested; what that sent may be taken back.
LEMMA FailTaskIs ==
  ASSUME NEW q \in Runs, NEW s, NEW e, NEW r, NEW h, NEW quiet, NEW nd, NEW c, NEW o,
         Shape(s, q), Quiet(s, e, q), r = q => Cached(s, q)
  PROVE  /\ r # q => Quiet(s, FailTask(e, s.out, r, h, quiet, nd, c, o), q)
         /\ r = q /\ c \in Callers => Answers(s, FailTask(e, s.out, r, h, quiet, nd, c, o), q, c)
<1> DEFINE forced == FailOnND /\ nd /\ h.wft.att <= 1 /\ ~PendingWorkIsLegacyQuery(e.cache[r])
           notes == IF e.cache[r].act = "Eviction" THEN {"commands_on_eviction"} ELSE {}
           u == [e EXCEPT !.out = s.out]
           t == [e EXCEPT !.out = s.out, !.cache[r].fin = TRUE, !.asserts = @ \cup notes]
           v == IF forced THEN t ELSE e
           outcome == IF forced THEN ForcedOutcome(e.cache[r]) ELSE FailedOutcome(e, r, h, quiet)
<1>1. FailTask(e, s.out, r, h, quiet, nd, c, o) = Reply(v, r, c, outcome, o) /\ outcome # "sent"
  BY DEF FailTask, ForcedOutcome, FailedOutcome
<1> HIDE DEF outcome
<1>2. Quiet(s, u, q)
  BY QuietUnsent
<1>3. Quiet(u, t, q)
  <2>1. Shape(u, q) /\ Shape(e, q) /\ (r = q => Cached(e, q))
    BY <1>2, QuietShape
  <2>2. /\ DOMAIN t = DOMAIN St /\ DOMAIN t.cache = Runs /\ t.lru = e.lru /\ t.full = e.full
        /\ e.asserts \subseteq t.asserts /\ t.out = s.out /\ t.rep = e.rep
        /\ r # q => t.cache[q] = e.cache[q]
        /\ r = q => t.cache[q] = [e.cache[q] EXCEPT !.fin = TRUE]
    BY <2>1 DEF Shape, St
  <2>3. /\ u.cache = e.cache /\ u.lru = e.lru /\ u.full = e.full /\ u.asserts = e.asserts
        /\ u.out = s.out /\ u.rep = e.rep
    BY <2>1 DEF Shape, St
  <2>4. r = q => SameRun(e.cache[q], t.cache[q])
    BY <2>1, <2>2 DEF SameRun, IsRecord, NewRun, Shape
  <2> HIDE DEF t, u
  <2> QED
    BY <2>1, <2>2, <2>3, <2>4, PartsQuiet
<1> HIDE DEF t, u
<1>4. Quiet(s, v, q)
  BY <1>2, <1>3, QuietTrans
<1> HIDE DEF v
<1>5. /\ r # q => Quiet(v, Reply(v, r, c, outcome, o), q)
      /\ r = q /\ c \in Callers => Answers(v, Reply(v, r, c, outcome, o), q, c)
  BY <1>1, <1>4, QuietShape, ReplyIs
<1> QED
  BY <1>1, <1>4, <1>5, QuietTrans, AnswersTrans

\* A failed completion is answered at once.
LEMMA FailedCompletionIs ==
  ASSUME NEW q \in Runs, NEW s, NEW r, NEW why, NEW auto, NEW nd, NEW c, NEW o,
         Shape(s, q), r = q => Cached(s, q)
  PROVE  /\ r # q => Quiet(s, FailedCompletion(s, r, why, auto, nd, c, o), q)
         /\ r = q /\ c \in Callers
              => Answers(s, FailedCompletion(s, r, why, auto, nd, c, o), q, c)
<1> DEFINE h == s.cache[r]
           quiet == PendingWorkIsLegacyQuery(h) /\ auto /\ why \in {"unspec", "page"}
           e == IF quiet THEN s ELSE EvictBasic(s, r, why, 0, o)
           n == Note(s, "fail_without_wft")
           z == FailedCompletion(s, r, why, auto, nd, c, o)
<1>1. z = IF h.wft.id = 0 THEN Reply(n, r, c, "Nothing", o)
          ELSE FailTask(e, s.out, r, h, quiet, nd, c, o)
  BY DEF FailedCompletion
<1>2. Quiet(s, e, q)
  BY EvictBasicQuiet, QuietRefl
<1>3. Quiet(s, n, q)
  BY NoteQuiet
<1> HIDE DEF e, n, z, quiet
<1>4. /\ r # q => Quiet(s, Reply(n, r, c, "Nothing", o), q)
      /\ r = q /\ c \in Callers => Answers(s, Reply(n, r, c, "Nothing", o), q, c)
  <2>1. Shape(n, q) /\ (r = q => Cached(n, q))
    BY <1>3, QuietShape
  <2>2. /\ r # q => Quiet(n, Reply(n, r, c, "Nothing", o), q)
        /\ r = q /\ c \in Callers => Answers(n, Reply(n, r, c, "Nothing", o), q, c)
    BY <2>1, ReplyIs
  <2> QED
    BY <1>3, <2>2, QuietTrans, AnswersTrans
<1>5. /\ r # q => Quiet(s, FailTask(e, s.out, r, h, quiet, nd, c, o), q)
      /\ r = q /\ c \in Callers => Answers(s, FailTask(e, s.out, r, h, quiet, nd, c, o), q, c)
  BY <1>2, FailTaskIs
<1> QED
  BY <1>1, <1>4, <1>5 DEF z

\* The machines failed while a caller waits: it is told that its task failed.
LEMMA UpdateErrIs ==
  ASSUME NEW q \in Runs, NEW s, NEW r, NEW d, NEW o, Shape(s, q), r = q => Cached(s, q)
  PROVE  /\ r # q => Quiet(s, UpdateErr(s, r, <<d>>, o), q)
         /\ r = q /\ d.chan \in Callers => Answers(s, UpdateErr(s, r, <<d>>, o), q, d.chan)
<1> DEFINE b == [s EXCEPT !.cache[r].broken = TRUE]
           z == FailedCompletion(b, r, "hard", TRUE, o.nd, d.chan, o)
<1>1. Quiet(s, b, q)
  <2>1. /\ DOMAIN b = DOMAIN St /\ DOMAIN b.cache = Runs /\ b.lru = s.lru /\ b.full = s.full
        /\ b.asserts = s.asserts /\ b.out = s.out /\ b.rep = s.rep
        /\ r # q => b.cache[q] = s.cache[q]
        /\ r = q => b.cache[q] = [s.cache[q] EXCEPT !.broken = TRUE]
    BY DEF Shape, St
  <2>2. r = q => SameRun(s.cache[q], b.cache[q])
    BY <2>1 DEF SameRun, IsRecord, NewRun, Shape
  <2> HIDE DEF b
  <2> QED
    BY <2>1, <2>2, PartsQuiet
<1>2. UpdateErr(s, r, <<d>>, o) = z
  BY DEF UpdateErr
<1> HIDE DEF b
<1>3. (r # q => Quiet(b, z, q)) /\ (r = q /\ d.chan \in Callers => Answers(b, z, q, d.chan))
  BY <1>1, QuietShape, FailedCompletionIs
<1> QED
  BY <1>1, <1>2, <1>3, QuietTrans, AnswersTrans

\* From s to t the run q puts the caller c into one of its slots.
Stores(s, t, q, c) ==
  /\ Works(s, t, q) /\ RepOf(t, q) = RepOf(s, q)
  /\ \/ /\ LaOf(t, q) = LaOf(s, q) /\ Keeps(PageOf(t, q), c) /\ DOMAIN PageOf(t, q) = {1}
     \/ /\ PageOf(t, q) = PageOf(s, q) /\ Keeps(LaOf(t, q), c) /\ DOMAIN LaOf(t, q) = {1}

Takes(s, t, q, c) == Answers(s, t, q, c) \/ Stores(s, t, q, c)

\* A completion is answered or kept also with something quiet before or after.
LEMMA TakesTrans ==
  ASSUME NEW q \in Runs, NEW s, NEW t, NEW u, NEW c, Shape(s, q),
         \/ Quiet(s, t, q) /\ Takes(t, u, q, c)
         \/ Takes(s, t, q, c) /\ Quiet(t, u, q)
  PROVE  Takes(s, u, q, c)
<1>1. Works(s, u, q)
  BY WorksTrans DEF Quiet, Answers, Stores, Takes
<1> QED
  BY <1>1 DEF Quiet, Answers, Stores, Takes

\* A completion waits in the slot of the run, everything else as in s.
LEMMA StoresIs ==
  ASSUME NEW q \in Runs, NEW s, NEW t, NEW d, Shape(s, q), Cached(s, q),
         DOMAIN t = DOMAIN St, DOMAIN t.cache = Runs, t.lru = s.lru, t.full = s.full,
         t.asserts = s.asserts, t.out = s.out, t.rep = s.rep,
         IsRecord(t.cache[q]), t.cache[q].run = "cached", t.cache[q].act = s.cache[q].act,
         \/ t.cache[q].page = <<d>> /\ t.cache[q].laDat = s.cache[q].laDat
         \/ t.cache[q].laDat = <<d>> /\ t.cache[q].page = s.cache[q].page
  PROVE  Stores(s, t, q, d.chan)
<1>1. /\ Cached(t, q) /\ ActOf(t, q) = ActOf(s, q) /\ RepOf(t, q) = RepOf(s, q)
      /\ PageOf(t, q) = t.cache[q].page /\ LaOf(t, q) = t.cache[q].laDat
      /\ PageOf(s, q) = s.cache[q].page /\ LaOf(s, q) = s.cache[q].laDat
  BY DEF Cached, ActOf, PageOf, LaOf, RepOf
<1>2. Shape(t, q)
  BY DEF Shape
<1>3. Len(s.out) \in Nat /\ DOMAIN s.out = 1 .. Len(s.out)
  BY SequenceIs DEF Shape
<1>4. Works(s, t, q)
  BY <1>1, <1>2, <1>3 DEF Works, Sends, Completes
<1>5. Keeps(<<d>>, d.chan) /\ DOMAIN <<d>> = {1}
  BY DEF Keeps
<1>6. CASE t.cache[q].page = <<d>> /\ t.cache[q].laDat = s.cache[q].laDat
  BY <1>1, <1>4, <1>5, <1>6 DEF Stores
<1>7. CASE t.cache[q].laDat = <<d>> /\ t.cache[q].page = s.cache[q].page
  BY <1>1, <1>4, <1>5, <1>7 DEF Stores
<1> QED
  BY <1>6, <1>7

\* Who waits in a slot is answered.
LEMMA FulfillIs ==
  ASSUME NEW q \in Runs, NEW s, NEW r, NEW dat, NEW outcome, outcome # "sent", Shape(s, q)
  PROVE  /\ r # q \/ dat = <<>> => Quiet(s, Fulfill(s, r, dat, outcome), q)
         /\ r = q /\ dat # <<>> => Answers(s, Fulfill(s, r, dat, outcome), q, dat[1].chan)
<1>1. dat = <<>> => Fulfill(s, r, dat, outcome) = s
  BY DEF Fulfill
<1>2. dat # <<>> => Fulfill(s, r, dat, outcome) =
        [s EXCEPT !.rep = @ \cup {[chan |-> dat[1].chan, run |-> r, outcome |-> outcome]}]
  BY DEF Fulfill
<1>3. CASE dat = <<>>
  BY <1>1, <1>3, QuietRefl
<1>4. CASE dat # <<>>
  <2> DEFINE c == dat[1].chan
             t == [s EXCEPT !.rep = @ \cup {[chan |-> c, run |-> r, outcome |-> outcome]}]
  <2>1. (r # q => Quiet(s, t, q)) /\ (r = q => Answers(s, t, q, c))
    BY RepIs
  <2>2. Fulfill(s, r, dat, outcome) = t
    BY <1>2, <1>4
  <2> HIDE DEF t
  <2> QED
    BY <1>4, <2>1, <2>2
<1> QED
  BY <1>3, <1>4

\* process_completion of the run.
LEMMA ProcessCompletionIs ==
  ASSUME NEW q \in Runs, NEW s, NEW r, NEW d, NEW o, Shape(s, q), r = q => Cached(s, q)
  PROVE  /\ r # q => Quiet(s, ProcessCompletion(s, r, d, o), q)
         /\ r = q /\ d.chan \in Callers => Takes(s, ProcessCompletion(s, r, d, o), q, d.chan)
<1> DEFINE h == s.cache[r]
           fin == h.fin \/ o.fin
           new == IF h.wft.q = "legacy" THEN 0 ELSE o.las
           las == IF fin THEN 0 ELSE IF new > h.las THEN new ELSE h.las
           g == [h EXCEPT !.jobs = @ \/ o.jobs, !.fin = fin, !.las = las]
           k == [g EXCEPT !.la = "wait", !.laDat = <<d>>]
           w == [Set(s, r, k) EXCEPT !.timer[r] = TRUE]
           now == IF d.wasEvict THEN h ELSE g
           resp == PrepareCompleteResp(now, d, FALSE)
           f == Fulfill(Set(s, r, now), r, <<d>>, resp)
           z == ProcessCompletion(s, r, d, o)
<1>1. /\ \/ z = UpdateErr(s, r, <<d>>, o)
         \/ z = UpdateToActs(f, r, "none", o)
         \/ z = UpdateToActs(w, r, "none", o)
      /\ resp # "sent"
  BY DEF ProcessCompletion, PrepareCompleteResp
<1> HIDE DEF z, fin, las, resp
<1>2. r = q => SameRun(s.cache[q], g)
  BY DEF Shape, SameRun, IsRecord, NewRun
<1> HIDE DEF g
<1>3. r = q => /\ IsRecord(k) /\ k.run = "cached" /\ k.act = s.cache[q].act
               /\ k.page = s.cache[q].page /\ k.laDat = <<d>>
  BY <1>2 DEF SameRun, IsRecord, NewRun, Cached
<1> HIDE DEF k
<1>4. (r # q => Quiet(s, f, q)) /\ (r = q => Answers(s, f, q, d.chan))
  <2> DEFINE t == Set(s, r, now)
  <2>1. r = q => SameRun(s.cache[q], now)
    BY <1>2 DEF SameRun, Shape
  <2> HIDE DEF now
  <2>2. Quiet(s, t, q)
    BY <2>1, SetQuiet
  <2> HIDE DEF t
  <2>3. <<d>> # <<>> /\ <<d>>[1] = d
    OBVIOUS
  <2>4. f = Fulfill(t, r, <<d>>, resp)
    BY DEF t
  <2> HIDE DEF f
  <2>5. (r # q => Quiet(t, f, q)) /\ (r = q => Answers(t, f, q, d.chan))
    BY <1>1, <2>2, <2>3, <2>4, QuietShape, FulfillIs
  <2> QED
    BY <2>2, <2>5, QuietTrans, AnswersTrans
<1> HIDE DEF f
<1>5. (r # q => Quiet(s, w, q)) /\ (r = q => Stores(s, w, q, d.chan))
  <2> DEFINE t == Set(s, r, k)
  <2>1. /\ DOMAIN t = DOMAIN St /\ DOMAIN t.cache = Runs
        /\ t.cache[q] = IF r = q THEN k ELSE s.cache[q]
        /\ t.lru = s.lru /\ t.full = s.full /\ t.asserts = s.asserts /\ t.out = s.out
        /\ t.rep = s.rep
    BY SetIs
  <2>2. w = [t EXCEPT !.timer[r] = TRUE]
    OBVIOUS
  <2> HIDE DEF t, w
  <2>3. /\ DOMAIN w = DOMAIN St /\ w.cache = t.cache /\ w.lru = s.lru /\ w.full = s.full
        /\ w.asserts = s.asserts /\ w.out = s.out /\ w.rep = s.rep
    BY <2>1, <2>2 DEF St
  <2>4. r # q => Quiet(s, w, q)
    BY <2>1, <2>3, PartsQuiet
  <2>5. r = q => Stores(s, w, q, d.chan)
    BY <1>3, <2>1, <2>3, StoresIs
  <2> QED
    BY <2>4, <2>5
<1> HIDE DEF w
<1>6. ASSUME NEW x, (r # q => Quiet(s, x, q)) /\ (r = q => Takes(s, x, q, d.chan))
      PROVE  /\ r # q => Quiet(s, UpdateToActs(x, r, "none", o), q)
             /\ r = q => Takes(s, UpdateToActs(x, r, "none", o), q, d.chan)
  <2>1. Shape(x, q) /\ (r = q => Cached(x, q))
    BY <1>6 DEF Quiet, Takes, Answers, Stores, Works
  <2>2. Quiet(x, UpdateToActs(x, r, "none", o), q)
    BY <2>1, UpdateToActsQuiet
  <2> QED
    BY <1>6, <2>2, QuietTrans, TakesTrans
<1>7. /\ r # q => Quiet(s, UpdateErr(s, r, <<d>>, o), q)
      /\ r = q /\ d.chan \in Callers => Answers(s, UpdateErr(s, r, <<d>>, o), q, d.chan)
  BY UpdateErrIs
<1>8. (r = q => Takes(s, f, q, d.chan)) /\ (r = q => Takes(s, w, q, d.chan))
  BY <1>4, <1>5 DEF Takes
<1>9. /\ r # q => Quiet(s, z, q)
      /\ r = q /\ d.chan \in Callers => Takes(s, z, q, d.chan)
  BY <1>1, <1>4, <1>5, <1>6, <1>7, <1>8 DEF Takes
<1> QED
  BY <1>9 DEF z

\* successful_completion of the run.
LEMMA SuccessfulCompletionIs ==
  ASSUME NEW q \in Runs, NEW s, NEW r, NEW c, NEW resp, NEW o, Shape(s, q), r = q => Cached(s, q)
  PROVE  /\ r # q => Quiet(s, SuccessfulCompletion(s, r, c, resp, o), q)
         /\ r = q /\ c \in Callers => Takes(s, SuccessfulCompletion(s, r, c, resp, o), q, c)
<1> DEFINE h == s.cache[r]
           d == [chan |-> c, wasEvict |-> h.act = "Eviction", resp |-> resp,
                 hadQuery |-> h.wft.q # "none"]
           u == IF h.act = "Eviction" THEN s ELSE Note(s, "complete_without_wft")
           v == IF h.wft.id = 0 THEN [u EXCEPT !.cache[r].evict.tt = 0] ELSE s
           outcome == IF h.wft.id # 0 THEN "Query" ELSE IF h.evict.tt # 0 THEN "Fail" ELSE "Nothing"
           p == [s EXCEPT !.cache[r].page = <<d>>,
                          !.fetch = @ \cup {[what |-> "page", run |-> r, wft |-> NoTask]}]
           z == SuccessfulCompletion(s, r, c, resp, o)
<1>1. \/ z = Reply(v, r, c, outcome, o)
      \/ z = p
      \/ z = ProcessCompletion(s, r, d, o)
  BY DEF SuccessfulCompletion
<1>2. d.chan = c /\ outcome # "sent"
  OBVIOUS
<1> HIDE DEF z, d, outcome
<1>3. Quiet(s, u, q)
  BY NoteQuiet, QuietRefl
<1> HIDE DEF u
<1>4. Shape(u, q) /\ (r = q => Cached(u, q))
  BY <1>3, QuietShape
<1>5. Quiet(s, v, q)
  <2> DEFINE x == [u EXCEPT !.cache[r].evict.tt = 0]
  <2>1. /\ DOMAIN x = DOMAIN St /\ DOMAIN x.cache = Runs /\ x.lru = u.lru /\ x.full = u.full
        /\ x.asserts = u.asserts /\ x.out = u.out /\ x.rep = u.rep
        /\ r # q => x.cache[q] = u.cache[q]
        /\ r = q => x.cache[q] = [u.cache[q] EXCEPT !.evict.tt = 0]
    BY <1>4 DEF Shape, St
  <2>2. r = q => SameRun(u.cache[q], x.cache[q])
    BY <1>4, <2>1 DEF SameRun, IsRecord, NewRun, Shape
  <2>3. v = x \/ v = s
    OBVIOUS
  <2> HIDE DEF x, v
  <2>4. Quiet(u, x, q)
    BY <1>4, <2>1, <2>2, PartsQuiet
  <2> QED
    BY <1>3, <2>3, <2>4, QuietTrans, QuietRefl
<1> HIDE DEF v
<1>6. /\ r # q => Quiet(s, Reply(v, r, c, outcome, o), q)
      /\ r = q /\ c \in Callers => Answers(s, Reply(v, r, c, outcome, o), q, c)
  <2>1. /\ r # q => Quiet(v, Reply(v, r, c, outcome, o), q)
        /\ r = q /\ c \in Callers => Answers(v, Reply(v, r, c, outcome, o), q, c)
    BY <1>2, <1>5, QuietShape, ReplyIs
  <2> QED
    BY <1>5, <2>1, QuietTrans, AnswersTrans
<1>7. (r # q => Quiet(s, p, q)) /\ (r = q => Stores(s, p, q, c))
  <2>1. /\ DOMAIN p = DOMAIN St /\ DOMAIN p.cache = Runs /\ p.lru = s.lru /\ p.full = s.full
        /\ p.asserts = s.asserts /\ p.out = s.out /\ p.rep = s.rep
        /\ r # q => p.cache[q] = s.cache[q]
        /\ r = q => p.cache[q] = [s.cache[q] EXCEPT !.page = <<d>>]
    BY DEF Shape, St
  <2>2. r = q => /\ IsRecord(p.cache[q]) /\ p.cache[q].run = "cached"
                 /\ p.cache[q].act = s.cache[q].act /\ p.cache[q].page = <<d>>
                 /\ p.cache[q].laDat = s.cache[q].laDat
    BY <2>1 DEF Shape, IsRecord, NewRun, Cached
  <2> HIDE DEF p
  <2>3. r # q => Quiet(s, p, q)
    BY <2>1, PartsQuiet
  <2>4. r = q => Stores(s, p, q, d.chan)
    BY <2>1, <2>2, StoresIs
  <2> QED
    BY <1>2, <2>3, <2>4
<1> HIDE DEF p
<1>8. /\ r # q => Quiet(s, ProcessCompletion(s, r, d, o), q)
      /\ r = q /\ c \in Callers => Takes(s, ProcessCompletion(s, r, d, o), q, c)
  BY <1>2, ProcessCompletionIs
<1>9. /\ r # q => Quiet(s, z, q)
      /\ r = q /\ c \in Callers => Takes(s, z, q, c)
  BY <1>1, <1>6, <1>7, <1>8 DEF Takes
<1> QED
  BY <1>9 DEF z

\* At most one slot of q is taken, by a caller that waits.
Slots(s, q) ==
  /\ IsSlot(PageOf(s, q)) /\ IsSlot(LaOf(s, q))
  /\ PageOf(s, q) = <<>> \/ LaOf(s, q) = <<>>

\* From s to t the slot that keeps the caller c is emptied.
Empties(s, t, q, c) ==
  /\ Works(s, t, q) /\ RepOf(t, q) = RepOf(s, q)
  /\ \/ Keeps(PageOf(s, q), c) /\ PageOf(t, q) = <<>> /\ LaOf(t, q) = LaOf(s, q)
     \/ Keeps(LaOf(s, q), c) /\ LaOf(t, q) = <<>> /\ PageOf(t, q) = PageOf(s, q)

\* A caller that waits in a slot is answered, or waits in the other.
Moves(s, t, q) == \E c, e : Empties(s, e, q, c) /\ Takes(e, t, q, c)

\* An answer or a wait for it is no less so after a quiet step.
LEMMA MovesTrans ==
  ASSUME NEW q \in Runs, NEW s, NEW t, NEW u, Shape(s, q), Moves(s, t, q), Quiet(t, u, q)
  PROVE  Moves(s, u, q)
<1>1. PICK c, e : Empties(s, e, q, c) /\ Takes(e, t, q, c)
  BY DEF Moves
<1>2. Shape(e, q)
  BY <1>1 DEF Empties, Works
<1>3. Takes(e, u, q, c)
  BY <1>1, <1>2, TakesTrans
<1> QED
  BY <1>1, <1>3 DEF Moves

\* Nor is it after one before it.
LEMMA QuietMoves ==
  ASSUME NEW q \in Runs, NEW s, NEW t, NEW u, Shape(s, q), Quiet(s, t, q), Moves(t, u, q)
  PROVE  Moves(s, u, q)
<1>1. PICK c, e : Empties(t, e, q, c) /\ Takes(e, u, q, c)
  BY DEF Moves
<1>2. Works(s, e, q)
  BY <1>1, WorksTrans DEF Empties, Quiet
<1>3. Empties(s, e, q, c)
  BY <1>1, <1>2 DEF Empties, Quiet
<1> QED
  BY <1>1, <1>3 DEF Moves

\* One slot of the run is emptied, everything else is as in s.
LEMMA EmptiesIs ==
  ASSUME NEW q \in Runs, NEW s, NEW t, NEW c, Shape(s, q), Cached(s, q),
         DOMAIN t = DOMAIN St, DOMAIN t.cache = Runs, t.lru = s.lru, t.full = s.full,
         t.asserts = s.asserts, t.out = s.out, t.rep = s.rep,
         IsRecord(t.cache[q]), t.cache[q].run = "cached", t.cache[q].act = s.cache[q].act,
         \/ /\ Keeps(s.cache[q].page, c)
            /\ t.cache[q].page = <<>> /\ t.cache[q].laDat = s.cache[q].laDat
         \/ /\ Keeps(s.cache[q].laDat, c)
            /\ t.cache[q].laDat = <<>> /\ t.cache[q].page = s.cache[q].page
  PROVE  Empties(s, t, q, c) /\ Shape(t, q) /\ Cached(t, q)
<1>1. /\ Cached(t, q) /\ ActOf(t, q) = ActOf(s, q) /\ RepOf(t, q) = RepOf(s, q)
      /\ PageOf(t, q) = t.cache[q].page /\ LaOf(t, q) = t.cache[q].laDat
      /\ PageOf(s, q) = s.cache[q].page /\ LaOf(s, q) = s.cache[q].laDat
  BY DEF Cached, ActOf, PageOf, LaOf, RepOf
<1>2. Shape(t, q)
  BY DEF Shape
<1>3. Len(s.out) \in Nat /\ DOMAIN s.out = 1 .. Len(s.out)
  BY SequenceIs DEF Shape
<1>4. Works(s, t, q)
  BY <1>1, <1>2, <1>3 DEF Works, Sends, Completes
<1> QED
  BY <1>1, <1>2, <1>4 DEF Empties

\* A slot that is taken keeps a caller.
LEMMA SlotKeeps ==
  ASSUME NEW x, IsSlot(x), x # <<>>
  PROVE  x[1].chan \in Callers /\ Keeps(x, x[1].chan)
BY DEF IsSlot, Keeps

\* The page of history is there: the completion that waits for it is processed.
LEMMA FetchedPageIs ==
  ASSUME NEW q \in Runs, NEW s, NEW r, NEW o, Shape(s, q), r = q => Cached(s, q), Slots(s, q)
  PROVE  LET z == FetchedPageCompletion(s, r, o) IN
         /\ r # q => Quiet(s, z, q)
         /\ r = q => Quiet(s, z, q) \/ Moves(s, z, q)
<1> DEFINE h == s.cache[r]
           g == [h EXCEPT !.page = <<>>]
           t == Set(s, r, g)
           n == Note(s, "page_for_nobody")
           z == FetchedPageCompletion(s, r, o)
<1>1. z = IF h.page # <<>> THEN ProcessCompletion(t, r, h.page[1], o) ELSE UpdateErr(n, r, <<>>, o)
  BY DEF FetchedPageCompletion
<1>2. CASE h.page = <<>>
  <2>1. Quiet(s, n, q)
    BY NoteQuiet
  <2> HIDE DEF n
  <2>2. Quiet(n, UpdateErr(n, r, <<>>, o), q)
    BY <2>1, QuietShape, UpdateErrQuiet
  <2>3. Quiet(s, z, q)
    BY <1>1, <1>2, <2>1, <2>2, QuietTrans
  <2> QED
    BY <2>3
<1>3. CASE h.page # <<>> /\ r # q
  <2>1. Quiet(s, t, q)
    BY <1>3, SetQuiet
  <2> HIDE DEF t
  <2>2. Quiet(t, ProcessCompletion(t, r, h.page[1], o), q)
    BY <1>3, <2>1, QuietShape, ProcessCompletionIs
  <2>3. Quiet(s, z, q)
    BY <1>1, <1>3, <2>1, <2>2, QuietTrans
  <2> QED
    BY <1>3, <2>3
<1>4. CASE h.page # <<>> /\ r = q
  <2> DEFINE c == h.page[1].chan
  <2>1. PageOf(s, q) = h.page
    BY <1>4 DEF PageOf
  <2>2. c \in Callers /\ Keeps(h.page, c)
    BY <1>4, <2>1, SlotKeeps DEF Slots
  <2>3. /\ DOMAIN t = DOMAIN St /\ DOMAIN t.cache = Runs /\ t.cache[q] = g
        /\ t.lru = s.lru /\ t.full = s.full /\ t.asserts = s.asserts /\ t.out = s.out
        /\ t.rep = s.rep
    BY <1>4, SetIs
  <2>4. IsRecord(g) /\ g.run = "cached" /\ g.act = h.act /\ g.page = <<>> /\ g.laDat = h.laDat
    BY <1>4 DEF Shape, IsRecord, NewRun, Cached
  <2> HIDE DEF t, g
  <2>5. Empties(s, t, q, c) /\ Shape(t, q) /\ Cached(t, q)
    BY <1>4, <2>2, <2>3, <2>4, EmptiesIs
  <2>6. Takes(t, ProcessCompletion(t, r, h.page[1], o), q, c)
    BY <1>4, <2>2, <2>5, ProcessCompletionIs
  <2>7. Takes(t, z, q, c)
    BY <1>1, <1>4, <2>6
  <2>8. Moves(s, z, q)
    BY <2>5, <2>7 DEF Moves
  <2> QED
    BY <1>4, <2>8
<1> QED
  BY <1>2, <1>3, <1>4

\* A failed fetch fails the completion that waits for the page.
LEMMA PageEvictionIs ==
  ASSUME NEW q \in Runs, NEW s, NEW r, NEW tt, NEW o, Shape(s, q), Slots(s, q)
  PROVE  LET z == RequestEviction(s, r, "page", tt, o) IN
         /\ r # q => Quiet(s, z, q)
         /\ r = q => Quiet(s, z, q) \/ Moves(s, z, q)
<1> DEFINE h == s.cache[r]
           own == ~\E f \in s.fetch : f.what = "page" /\ f.run = r
           g == [h EXCEPT !.page = <<>>]
           e == Set(s, r, g)
           t == Touch(e, r)
           n == IF own THEN t ELSE Note(t, "foreign_fetch_failure")
           k == Touch(s, r)
           z == RequestEviction(s, r, "page", tt, o)
           fails == FailedCompletion(n, r, "page", TRUE, FALSE, h.page[1].chan, o)
<1>1. z = IF ~Cached(s, r) THEN s ELSE IF h.page # <<>> THEN fails
          ELSE EvictBasic(k, r, "page", tt, o)
  BY DEF RequestEviction
<1> HIDE DEF z, own
<1>2. CASE ~Cached(s, r)
  <2>1. Quiet(s, z, q)
    BY <1>1, <1>2, QuietRefl
  <2> QED
    BY <2>1 DEF z
<1>3. CASE Cached(s, r) /\ h.page = <<>>
  <2>1. Quiet(s, k, q)
    BY TouchQuiet
  <2> HIDE DEF k
  <2>2. Quiet(k, EvictBasic(k, r, "page", tt, o), q)
    BY <1>3, <2>1, QuietShape, EvictBasicQuiet
  <2>3. Quiet(s, z, q)
    BY <1>1, <1>3, <2>1, <2>2, QuietTrans
  <2> QED
    BY <2>3 DEF z
<1>4. ASSUME Shape(e, q), r = q => Cached(e, q)
      PROVE  /\ Quiet(e, n, q)
             /\ r # q => Quiet(e, fails, q)
             /\ r = q /\ h.page[1].chan \in Callers => Answers(e, fails, q, h.page[1].chan)
  <2> HIDE DEF e
  <2>1. Quiet(e, t, q)
    BY <1>4, TouchQuiet
  <2> HIDE DEF t
  <2>2. Quiet(t, n, q)
    BY <2>1, QuietShape, QuietRefl, NoteQuiet
  <2> HIDE DEF n
  <2>3. Quiet(e, n, q)
    BY <1>4, <2>1, <2>2, QuietTrans
  <2>4. Shape(n, q) /\ (r = q => Cached(n, q))
    BY <1>4, <2>3, QuietShape
  <2>5. /\ r # q => Quiet(n, fails, q)
        /\ r = q /\ h.page[1].chan \in Callers => Answers(n, fails, q, h.page[1].chan)
    BY <2>4, FailedCompletionIs
  <2> QED
    BY <1>4, <2>3, <2>5, QuietTrans, AnswersTrans
<1> HIDE DEF fails
<1>5. CASE Cached(s, r) /\ h.page # <<>> /\ r # q
  <2>1. Quiet(s, e, q)
    BY <1>5, SetQuiet
  <2>2. Quiet(e, fails, q)
    BY <1>4, <1>5, <2>1, QuietShape
  <2>3. Quiet(s, z, q)
    BY <1>1, <1>5, <2>1, <2>2, QuietTrans
  <2> QED
    BY <1>5, <2>3 DEF z
<1>6. CASE Cached(s, r) /\ h.page # <<>> /\ r = q
  <2> DEFINE c == h.page[1].chan
  <2>1. PageOf(s, q) = h.page
    BY <1>6 DEF PageOf
  <2>2. c \in Callers /\ Keeps(h.page, c)
    BY <1>6, <2>1, SlotKeeps DEF Slots
  <2>3. /\ DOMAIN e = DOMAIN St /\ DOMAIN e.cache = Runs /\ e.cache[q] = g
        /\ e.lru = s.lru /\ e.full = s.full /\ e.asserts = s.asserts /\ e.out = s.out
        /\ e.rep = s.rep
    BY <1>6, SetIs
  <2>4. IsRecord(g) /\ g.run = "cached" /\ g.act = h.act /\ g.page = <<>> /\ g.laDat = h.laDat
    BY <1>6 DEF Shape, IsRecord, NewRun, Cached
  <2>5. Empties(s, e, q, c) /\ Shape(e, q) /\ Cached(e, q)
    <3> HIDE DEF e, g
    <3> QED
      BY <1>6, <2>2, <2>3, <2>4, EmptiesIs
  <2>6. Answers(e, z, q, c)
    BY <1>1, <1>4, <1>6, <2>2, <2>5
  <2>7. Takes(e, z, q, c)
    BY <2>6 DEF Takes
  <2>8. Moves(s, z, q)
    <3> HIDE DEF e, c
    <3> QED
      BY <2>5, <2>7 DEF Moves
  <2> QED
    BY <1>6, <2>8 DEF z
<1> QED
  BY <1>2, <1>3, <1>5, <1>6

\* The run's completion that waits for local activities is answered when e
\* lets it go: what e changes else concerns nobody.
LEMMA LetGoIs ==
  ASSUME NEW q \in Runs, NEW s, NEW r, NEW e, NEW outcome, outcome # "sent", NEW a, NEW o,
         Shape(s, q), r = q => Cached(s, q), Slots(s, q),
         DOMAIN e = DOMAIN St, DOMAIN e.cache = Runs, e.lru = s.lru, e.full = s.full,
         e.asserts = s.asserts, e.out = s.out, e.rep = s.rep,
         r # q => e.cache[q] = s.cache[q],
         r = q => /\ IsRecord(e.cache[q]) /\ e.cache[q].run = "cached"
                  /\ e.cache[q].act = s.cache[q].act /\ e.cache[q].page = s.cache[q].page
                  /\ e.cache[q].laDat = <<>>
  PROVE  LET z == UpdateToActs(Fulfill(e, r, s.cache[r].laDat, outcome), r, a, o) IN
         /\ r # q => Quiet(s, z, q)
         /\ r = q => Quiet(s, z, q) \/ Moves(s, z, q)
<1> DEFINE dat == s.cache[r].laDat
           f == Fulfill(e, r, dat, outcome)
           z == UpdateToActs(f, r, a, o)
<1>1. Shape(e, q) /\ (r = q => Cached(e, q))
  BY DEF Shape, Cached
<1>2. /\ r # q \/ dat = <<>> => Quiet(e, f, q)
      /\ r = q /\ dat # <<>> => Answers(e, f, q, dat[1].chan)
  BY <1>1, FulfillIs
<1> HIDE DEF f, z
<1>3. Shape(f, q) /\ (r = q => Cached(f, q))
  BY <1>1, <1>2 DEF Quiet, Answers, Works
<1>4. Quiet(f, z, q)
  BY <1>3, UpdateToActsQuiet DEF z
<1>5. CASE r # q
  <2>1. Quiet(s, e, q)
    BY <1>5, PartsQuiet
  <2>2. Quiet(s, z, q)
    BY <1>2, <1>4, <1>5, <2>1, QuietTrans
  <2> QED
    BY <1>5, <2>2 DEF z, f
<1>6. CASE r = q /\ dat = <<>>
  <2>1. SameRun(s.cache[q], e.cache[q])
    BY <1>6 DEF SameRun, Cached
  <2>2. Quiet(s, e, q)
    BY <2>1, PartsQuiet
  <2>3. Quiet(s, z, q)
    BY <1>2, <1>4, <1>6, <2>2, QuietTrans
  <2> QED
    BY <1>6, <2>3 DEF z, f
<1>7. CASE r = q /\ dat # <<>>
  <2> DEFINE c == dat[1].chan
  <2>1. LaOf(s, q) = dat
    BY <1>7 DEF LaOf
  <2>2. c \in Callers /\ Keeps(dat, c)
    BY <1>7, <2>1, SlotKeeps DEF Slots
  <2>3. Empties(s, e, q, c)
    BY <1>7, <2>2, EmptiesIs
  <2>4. Takes(e, f, q, c)
    BY <1>2, <1>7 DEF Takes
  <2>5. Takes(e, z, q, c)
    BY <1>1, <1>4, <2>4, TakesTrans
  <2>6. Moves(s, z, q)
    <3> HIDE DEF c
    <3> QED
      BY <2>3, <2>5 DEF Moves
  <2> QED
    BY <1>7, <2>6 DEF z, f
<1> QED
  BY <1>5, <1>6, <1>7

\* A local activity resolves: the completion that waits for the last of them
\* is answered.
LEMMA LocalResolutionIs ==
  ASSUME NEW q \in Runs, NEW s, NEW r, NEW o, Shape(s, q), Slots(s, q)
  PROVE  LET z == LocalResolution(s, r, o) IN
         /\ r # q => Quiet(s, z, q)
         /\ r = q => Quiet(s, z, q) \/ Moves(s, z, q)
<1> DEFINE h == s.cache[r]
           g == [h EXCEPT !.las = IF @ > 0 THEN @ - 1 ELSE 0, !.jobs = TRUE]
           k == [g EXCEPT !.la = "none", !.laDat = <<>>]
           t == Set(s, r, k)
           e == [t EXCEPT !.timer[r] = FALSE]
           resp == PrepareCompleteResp(g, h.laDat[1], FALSE)
           u == Set(s, r, g)
           z == LocalResolution(s, r, o)
<1>1. \/ z = s
      \/ Cached(s, r) /\ z = UpdateErr(s, r, <<>>, o)
      \/ Cached(s, r) /\ z = UpdateToActs(u, r, "none", o)
      \/ Cached(s, r) /\ h.laDat = <<>> /\ z = UpdateToActs(e, r, "none", o)
      \/ Cached(s, r) /\ z = UpdateToActs(Fulfill(e, r, h.laDat, resp), r, "none", o)
  BY DEF LocalResolution
<1>2. h.laDat = <<>> => Fulfill(e, r, h.laDat, resp) = e
  BY DEF Fulfill
<1>r. resp # "sent"
  BY DEF PrepareCompleteResp
<1> HIDE DEF z, resp
<1>3. CASE z = s
  BY <1>3, QuietRefl DEF z
<1>4. CASE Cached(s, r) /\ z = UpdateErr(s, r, <<>>, o)
  <2>1. Quiet(s, z, q)
    BY <1>4, UpdateErrQuiet
  <2> QED
    BY <2>1 DEF z
<1>5. CASE Cached(s, r) /\ z = UpdateToActs(u, r, "none", o)
  <2>1. r = q => SameRun(s.cache[q], g)
    BY <1>5 DEF Shape, SameRun, IsRecord, NewRun
  <2> HIDE DEF g
  <2>2. Quiet(s, u, q)
    BY <2>1, SetQuiet
  <2> HIDE DEF u
  <2>3. Quiet(u, UpdateToActs(u, r, "none", o), q)
    BY <1>5, <2>2, QuietShape, UpdateToActsQuiet
  <2>4. Quiet(s, z, q)
    BY <1>5, <2>2, <2>3, QuietTrans
  <2> QED
    BY <2>4 DEF z
<1>6. CASE Cached(s, r) /\ z = UpdateToActs(Fulfill(e, r, h.laDat, resp), r, "none", o)
  <2>1. /\ DOMAIN t = DOMAIN St /\ DOMAIN t.cache = Runs
        /\ t.cache[q] = IF r = q THEN k ELSE s.cache[q]
        /\ t.lru = s.lru /\ t.full = s.full /\ t.asserts = s.asserts /\ t.out = s.out
        /\ t.rep = s.rep
    BY SetIs
  <2>2. r = q => /\ IsRecord(k) /\ k.run = "cached" /\ k.act = s.cache[q].act
                 /\ k.page = s.cache[q].page /\ k.laDat = <<>>
    BY <1>6 DEF Shape, IsRecord, NewRun, Cached
  <2> HIDE DEF t, k
  <2>3. /\ DOMAIN e = DOMAIN St /\ e.cache = t.cache /\ e.lru = t.lru /\ e.full = t.full
        /\ e.asserts = t.asserts /\ e.out = t.out /\ e.rep = t.rep
    BY <2>1 DEF St
  <2> HIDE DEF e
  <2>4. /\ r # q => Quiet(s, z, q)
        /\ r = q => Quiet(s, z, q) \/ Moves(s, z, q)
    BY <1>6, <1>r, <2>1, <2>2, <2>3, LetGoIs
  <2> QED
    BY <2>4 DEF z
<1> HIDE DEF e
<1> QED
  BY <1>1, <1>2, <1>3, <1>4, <1>5, <1>6

\* The heartbeat timeout answers the completion that waits.
LEMMA HeartbeatIs ==
  ASSUME NEW q \in Runs, NEW s, NEW r, NEW o, Shape(s, q), Slots(s, q)
  PROVE  LET z == HeartbeatTimeout(s, r, o) IN
         /\ r # q => Quiet(s, z, q)
         /\ r = q => Quiet(s, z, q) \/ Moves(s, z, q)
<1> DEFINE h == s.cache[r]
           k == [h EXCEPT !.la = "hb", !.laDat = <<>>]
           e == Set(s, r, k)
           a == IF h.la = "hb" THEN "autocomplete" ELSE "none"
           resp == PrepareCompleteResp(h, h.laDat[1], TRUE)
           z == HeartbeatTimeout(s, r, o)
<1>1. \/ z = s
      \/ Cached(s, r) /\ z = UpdateToActs(s, r, a, o)
      \/ Cached(s, r) /\ z = UpdateToActs(Fulfill(e, r, h.laDat, resp), r, a, o)
  BY DEF HeartbeatTimeout
<1>r. resp # "sent"
  BY DEF PrepareCompleteResp
<1> HIDE DEF z, resp, a
<1>2. CASE z = s
  BY <1>2, QuietRefl DEF z
<1>3. CASE Cached(s, r) /\ z = UpdateToActs(s, r, a, o)
  <2>1. Quiet(s, z, q)
    BY <1>3, UpdateToActsQuiet
  <2> QED
    BY <2>1 DEF z
<1>4. CASE Cached(s, r) /\ z = UpdateToActs(Fulfill(e, r, h.laDat, resp), r, a, o)
  <2>1. /\ DOMAIN e = DOMAIN St /\ DOMAIN e.cache = Runs
        /\ e.cache[q] = IF r = q THEN k ELSE s.cache[q]
        /\ e.lru = s.lru /\ e.full = s.full /\ e.asserts = s.asserts /\ e.out = s.out
        /\ e.rep = s.rep
    BY SetIs
  <2>2. r = q => /\ IsRecord(k) /\ k.run = "cached" /\ k.act = s.cache[q].act
                 /\ k.page = s.cache[q].page /\ k.laDat = <<>>
    BY <1>4 DEF Shape, IsRecord, NewRun, Cached
  <2> HIDE DEF e, k
  <2>3. /\ r # q => Quiet(s, z, q)
        /\ r = q => Quiet(s, z, q) \/ Moves(s, z, q)
    BY <1>4, <1>r, <2>1, <2>2, LetGoIs
  <2> QED
    BY <2>3 DEF z
<1> QED
  BY <1>1, <1>2, <1>3, <1>4

\* A completion: the caller is answered or, when it was a success, kept.
LEMMA CompletionIs ==
  ASSUME NEW q \in Runs, NEW s, NEW m, NEW o, Shape(s, q)
  PROVE  LET z == CompletionInput(s, m, o) IN
         /\ m.run # q => Quiet(s, z, q)
         /\ m.run = q /\ m.chan \in Callers => Takes(s, z, q, m.chan)
         /\ m.run = q /\ m.chan \in Callers /\ ~m.ok => Answers(s, z, q, m.chan)
<1> DEFINE r == m.run
           t == Touch(s, r)
           why == IF m.chan # "lang" THEN "unspec" ELSE "hard"
           n == Note(s, "run_missing")
           lost == [n EXCEPT !.rep = @ \cup {[chan |-> m.chan, run |-> r, outcome |-> "Lost"]}]
           y == SuccessfulCompletion(t, r, m.chan, m.resp, o)
           x == FailedCompletion(t, r, why, m.chan # "lang", m.nd, m.chan, o)
           z == CompletionInput(s, m, o)
<1>1. z = IF ~Cached(s, r) THEN lost ELSE EvictLru(IF m.ok THEN y ELSE x, o)
  BY DEF CompletionInput
<1>2. Quiet(s, n, q) /\ Quiet(s, t, q) /\ t.cache = s.cache
  BY NoteQuiet, TouchQuiet
<1> HIDE DEF z, n, t
<1>3. (r # q => Quiet(s, lost, q)) /\ (r = q => Answers(s, lost, q, m.chan))
  <2>1. (r # q => Quiet(n, lost, q)) /\ (r = q => Answers(n, lost, q, m.chan))
    BY <1>2, QuietShape, RepIs
  <2> HIDE DEF lost
  <2> QED
    BY <1>2, <2>1, QuietTrans, AnswersTrans
<1> HIDE DEF lost
<1>4. ASSUME Cached(s, r)
      PROVE  /\ r # q => Quiet(s, x, q) /\ Quiet(s, y, q)
             /\ r = q /\ m.chan \in Callers => Answers(s, x, q, m.chan) /\ Takes(s, y, q, m.chan)
  <2>1. Shape(t, q) /\ (r = q => Cached(t, q))
    BY <1>2, <1>4, QuietShape
  <2>2. /\ r # q => Quiet(t, x, q)
        /\ r = q /\ m.chan \in Callers => Answers(t, x, q, m.chan)
    BY <2>1, FailedCompletionIs
  <2>3. /\ r # q => Quiet(t, y, q)
        /\ r = q /\ m.chan \in Callers => Takes(t, y, q, m.chan)
    BY <2>1, SuccessfulCompletionIs
  <2> HIDE DEF x, y
  <2> QED
    BY <1>2, <2>2, <2>3, QuietTrans, AnswersTrans, TakesTrans
<1> HIDE DEF x, y
<1>5. CASE ~Cached(s, r)
  BY <1>1, <1>3, <1>5 DEF Takes, z
<1>6. CASE Cached(s, r)
  <2> DEFINE v == IF m.ok THEN y ELSE x
  <2>1. /\ r # q => Quiet(s, v, q)
        /\ r = q /\ m.chan \in Callers => Takes(s, v, q, m.chan)
        /\ r = q /\ m.chan \in Callers /\ ~m.ok => Answers(s, v, q, m.chan)
    BY <1>4, <1>6 DEF Takes
  <2>2. z = EvictLru(v, o)
    BY <1>1, <1>6
  <2> HIDE DEF v
  <2>3. ASSUME Shape(v, q)
        PROVE  /\ r # q => Quiet(s, z, q)
               /\ r = q /\ m.chan \in Callers => Takes(s, z, q, m.chan)
               /\ r = q /\ m.chan \in Callers /\ ~m.ok => Answers(s, z, q, m.chan)
    <3>1. Quiet(v, z, q)
      BY <2>2, <2>3, EvictLruQuiet
    <3> QED
      BY <2>1, <3>1, QuietTrans, AnswersTrans, TakesTrans
  <2>4. r # q \/ m.chan \in Callers => Shape(v, q)
    BY <2>1 DEF Quiet, Takes, Answers, Stores, Works
  <2> QED
    BY <2>3, <2>4 DEF z
<1> QED
  BY <1>5, <1>6

----------------------------------------------------------------------------
(* What a step of the stream makes of the callers of q.                    *)

\* Nobody is forgotten between s and t: who waited in a slot, or came in (C),
\* is answered or waits in a slot, one or the other, and only those who waited
\* or are among K wait.
Handled(s, t, q, C, K) ==
  /\ Works(s, t, q) /\ Slots(t, q) /\ \A x \in RepOf(t, q) : x.outcome # "sent"
  /\ \A c \in Callers :
        /\ (Told(t, c, q) \/ Stored(t, c, q)) <=> (Stored(s, c, q) \/ c \in C)
        /\ ~(Told(t, c, q) /\ Stored(t, c, q))
        /\ Stored(t, c, q) => Stored(s, c, q) \/ c \in K

\* A step that answers nobody.
LEMMA QuietHandled ==
  ASSUME NEW q \in Runs, NEW s, NEW t, Shape(s, q), Slots(s, q), RepOf(s, q) = {}, Quiet(s, t, q)
  PROVE  Handled(s, t, q, {}, {})
<1>1. \A c : ~Told(t, c, q) /\ (Stored(t, c, q) <=> Stored(s, c, q))
  BY DEF Quiet, Told, Stored
<1> QED
  BY <1>1 DEF Handled, Quiet, Slots

\* What has been handled stays so when something quiet follows.
LEMMA HandledQuiet ==
  ASSUME NEW q \in Runs, NEW s, NEW t, NEW u, NEW C, NEW K, Shape(s, q),
         Handled(s, t, q, C, K), Quiet(t, u, q)
  PROVE  Handled(s, u, q, C, K)
<1>1. \A c : (Told(u, c, q) <=> Told(t, c, q)) /\ (Stored(u, c, q) <=> Stored(t, c, q))
  BY DEF Quiet, Told, Stored
<1>2. Works(s, u, q) /\ Slots(u, q) /\ RepOf(u, q) = RepOf(t, q)
  BY WorksTrans DEF Handled, Quiet, Slots
<1> QED
  BY <1>1, <1>2 DEF Handled

\* Answering a caller handles its completion, and nothing is kept.
LEMMA AnswersHandled ==
  ASSUME NEW q \in Runs, NEW s, NEW t, NEW c \in Callers, Shape(s, q), Slots(s, q),
         RepOf(s, q) = {}, ~Stored(s, c, q), Answers(s, t, q, c)
  PROVE  Handled(s, t, q, {c}, {})
<1>1. PICK x : x.chan = c /\ x.run = q /\ x.outcome # "sent" /\ RepOf(t, q) = {x}
  BY DEF Answers
<1>2. \A d : (Told(t, d, q) <=> d = c) /\ (Stored(t, d, q) <=> Stored(s, d, q))
  BY <1>1 DEF Answers, Told, Stored
<1>3. Works(s, t, q) /\ Slots(t, q)
  BY DEF Answers, Slots
<1> QED
  BY <1>1, <1>2, <1>3 DEF Handled

\* With both slots free.
LEMMA TakesHandled ==
  ASSUME NEW q \in Runs, NEW s, NEW t, NEW c \in Callers, Shape(s, q),
         PageOf(s, q) = <<>>, LaOf(s, q) = <<>>, RepOf(s, q) = {}, Takes(s, t, q, c)
  PROVE  Handled(s, t, q, {c}, {c})
<1>1. Slots(s, q) /\ \A d : ~Stored(s, d, q)
  BY DEF Slots, IsSlot, Stored, Keeps
<1>2. CASE Answers(s, t, q, c)
  BY <1>1, <1>2, AnswersHandled DEF Handled
<1>3. CASE Stores(s, t, q, c)
  <2>1. Works(s, t, q) /\ RepOf(t, q) = {} /\ \A d : ~Told(t, d, q)
    BY <1>3 DEF Stores, Told
  <2>2. Slots(t, q) /\ \A d : Stored(t, d, q) <=> d = c
    BY <1>3 DEF Stores, Slots, IsSlot, Stored, Keeps
  <2> QED
    BY <1>1, <2>1, <2>2 DEF Handled
<1> QED
  BY <1>2, <1>3 DEF Takes

\* Nobody else waits when a slot is emptied.
LEMMA MovesHandled ==
  ASSUME NEW q \in Runs, NEW s, NEW t, Shape(s, q), Slots(s, q), RepOf(s, q) = {}, Moves(s, t, q)
  PROVE  Handled(s, t, q, {}, {})
<1>1. PICK c, e : Empties(s, e, q, c) /\ Takes(e, t, q, c)
  BY DEF Moves
<1>2. /\ PageOf(e, q) = <<>> /\ LaOf(e, q) = <<>> /\ c \in Callers
      /\ \A d : Stored(s, d, q) <=> d = c
  BY <1>1 DEF Empties, Slots, IsSlot, Stored, Keeps
<1>3. Shape(e, q) /\ Works(s, e, q) /\ RepOf(e, q) = {}
  BY <1>1 DEF Empties, Works
<1>4. Handled(e, t, q, {c}, {c})
  BY <1>1, <1>2, <1>3, TakesHandled
<1>5. \A d : ~Stored(e, d, q)
  BY <1>2 DEF Stored, Keeps
<1>6. Works(s, t, q)
  BY <1>3, <1>4, WorksTrans DEF Handled
<1> QED
  BY <1>2, <1>4, <1>5, <1>6 DEF Handled

----------------------------------------------------------------------------
(* A step of the stream keeps the invariant of a run q that no poll dropped. *)

\* What the handlers need of the state they start from.
LEMMA StartIs ==
  ASSUME NEW q \in Runs, Shapes, RunInvariant(q)
  PROVE  /\ Shape(St, q) /\ Slots(St, q) /\ RepOf(St, q) = {}
         /\ St.out = <<>> /\ St.asserts = asserts
<1>1. /\ St.cache = cache /\ St.lru = lru /\ St.full = full /\ St.out = <<>> /\ St.rep = {}
      /\ St.asserts = asserts
  BY DEF St
<1>2. Shape(St, q)
  BY <1>1, ShortSequences DEF Shapes, Inputs, Shape, RunInvariant, Clean
<1>3. Slots(St, q)
  BY <1>1 DEF RunInvariant, Clean, Slots, PageOf, LaOf, IsSlot
<1> QED
  BY <1>1, <1>2, <1>3 DEF RepOf

\* The state after the step is that of the stream.
LEMMA EndIs ==
  ASSUME NEW q \in Runs, NEW t, NEW cost, Publish(t, cost), Shape(t, q), IsSequence(acts)
  PROVE  /\ cache' = t.cache
         /\ Cached(St, q)' <=> Cached(t, q)
         /\ ActOf(St, q)' = ActOf(t, q) /\ PageOf(St, q)' = PageOf(t, q)
         /\ LaOf(St, q)' = LaOf(t, q)
         /\ \A c : Stored(St, c, q)' <=> Stored(t, c, q)
         /\ IsSequence(acts)' /\ IsSequence(lru)' /\ IsSequence(full)'
         /\ (\A i \in DOMAIN full : IsSequence(full[i]))'
         /\ (DOMAIN cache = Runs)' /\ (DOMAIN call = Callers)'
         /\ (\A c \in Callers : DOMAIN call[c] = Runs)'
         /\ ~done' => acts' = acts \o t.out
         /\ "two_activations" \in asserts' <=> Panicked(t)
<1>1. /\ cache' = t.cache /\ lru' = t.lru /\ full' = t.full /\ asserts' = t.asserts
      /\ acts' = (IF done' THEN acts ELSE acts \o t.out)
      /\ call' = [c \in Callers |-> [r \in Runs |->
              IF \E x \in t.rep : x.chan = c /\ x.run = r
              THEN (CHOOSE x \in t.rep : x.chan = c /\ x.run = r).outcome
              ELSE call[c][r]]]
  BY DEF Publish
<1>2. Cached(St, q)' <=> Cached(t, q)
  BY <1>1 DEF Cached, St
<1>3. ActOf(St, q)' = ActOf(t, q)
  BY <1>1, <1>2 DEF ActOf, St
<1>4. PageOf(St, q)' = PageOf(t, q)
  BY <1>1, <1>2 DEF PageOf, St
<1>5. LaOf(St, q)' = LaOf(t, q)
  BY <1>1, <1>2 DEF LaOf, St
<1>6. \A c : Stored(St, c, q)' <=> Stored(t, c, q)
  BY <1>4, <1>5 DEF Stored
<1>7. IsSequence(acts \o t.out)
  BY ConcatIs DEF Shape
<1>8. IsSequence(acts)' /\ IsSequence(lru)' /\ IsSequence(full)'
  BY <1>1, <1>7 DEF Shape, IsSequence
<1>9. (\A i \in DOMAIN full : IsSequence(full[i]))'
  BY <1>1 DEF Shape, IsSequence
<1>10. (DOMAIN cache = Runs)' /\ (DOMAIN call = Callers)' /\ (\A c \in Callers : DOMAIN call[c] = Runs)'
  BY <1>1 DEF Shape
<1>11. (~done' => acts' = acts \o t.out) /\ ("two_activations" \in asserts' <=> Panicked(t))
  BY <1>1 DEF Panicked
<1> QED
  BY <1>1, <1>2, <1>3, <1>4, <1>5, <1>6, <1>8, <1>9, <1>10, <1>11

\* Who is told has its answer, everybody else is where he was.
LEMMA CallsAre ==
  ASSUME NEW q \in Runs, NEW t, NEW cost, Publish(t, cost), NEW c \in Callers,
         \A x \in RepOf(t, q) : x.outcome # "sent"
  PROVE  /\ Told(t, c, q) => call'[c][q] # "sent"
         /\ ~Told(t, c, q) => call'[c][q] = call[c][q]
<1>1. call'[c][q] = IF \E x \in t.rep : x.chan = c /\ x.run = q
                    THEN (CHOOSE x \in t.rep : x.chan = c /\ x.run = q).outcome
                    ELSE call[c][q]
  BY DEF Publish
<1>2. Told(t, c, q) <=> \E x \in t.rep : x.chan = c /\ x.run = q
  BY DEF Told, RepOf
<1>3. Told(t, c, q) => (CHOOSE x \in t.rep : x.chan = c /\ x.run = q) \in RepOf(t, q)
  BY <1>2 DEF RepOf
<1> QED
  BY <1>1, <1>2, <1>3

\* The step takes the completions C of q from the local inputs, of which K may
\* be kept, and nothing else of q but a post_activation.
Consumes(q, C, K) ==
  /\ \A c \in Callers :
        /\ Completing(local, c, q)' => Completing(local, c, q) /\ c \notin C
        /\ Completing(local, c, q) => Completing(local, c, q)' \/ c \in C
        /\ c \in C => Completing(local, c, q)
        /\ \A i, j \in DOMAIN local' :
              IsComplete(local'[i], c, q) /\ IsComplete(local'[j], c, q) => i = j
  /\ \A i, j \in DOMAIN local' : IsPost(local'[i], q) /\ IsPost(local'[j], q) => i = j
  /\ Posted(local, q)' => Posted(local, q)
  /\ \A i \in DOMAIN local' : local'[i].t \in {"complete", "post"} /\ local'[i].run = q
                                => local'[i].chan \in Callers
  /\ "auto" \in K \/ (\E i \in DOMAIN local' : IsComplete(local'[i], "auto", q) /\ local'[i].ok)
       => \E i \in DOMAIN local : IsComplete(local[i], "auto", q) /\ local[i].ok
  /\ K \subseteq C

\* Nothing is taken.
LEMMA ConsumesNothing ==
  ASSUME NEW q \in Runs, RunInvariant(q), local' = local
  PROVE  Consumes(q, {}, {})
BY DEF Consumes, RunInvariant, Clean, OneAtLang, Completing, Posted

\* The first input is taken.
LEMMA ConsumesFirst ==
  ASSUME NEW q \in Runs, RunInvariant(q), Inputs(local), local # <<>>, local' = Tail(local),
         NEW C, NEW K, K \subseteq C,
         \A c \in Callers : c \in C <=> IsComplete(local[1], c, q),
         "auto" \in K => local[1].ok
  PROVE  Consumes(q, C, K) /\ Inputs(local)'
<1>1. /\ IsSequence(Tail(local)) /\ 1 \in DOMAIN local
      /\ \A i \in DOMAIN Tail(local) :
            i + 1 \in DOMAIN local /\ i \in Nat /\ Tail(local)[i] = local[i + 1]
      /\ \A i \in DOMAIN local :
            i # 1 => i - 1 \in DOMAIN Tail(local) /\ Tail(local)[i - 1] = local[i]
  BY TailIs DEF Inputs
<1>2. /\ \A i \in DOMAIN local' :
            i + 1 \in DOMAIN local /\ i \in Nat /\ i + 1 # 1 /\ local'[i] = local[i + 1]
      /\ \A i \in DOMAIN local :
            i # 1 => i - 1 \in DOMAIN local' /\ local'[i - 1] = local[i]
  BY <1>1
<1>3. ASSUME NEW c \in Callers
      PROVE  /\ Completing(local, c, q)' => Completing(local, c, q) /\ c \notin C
             /\ Completing(local, c, q) => Completing(local, c, q)' \/ c \in C
             /\ c \in C => Completing(local, c, q)
             /\ \A i, j \in DOMAIN local' :
                   IsComplete(local'[i], c, q) /\ IsComplete(local'[j], c, q) => i = j
  <2>1. \A i, j \in DOMAIN local :
           IsComplete(local[i], c, q) /\ IsComplete(local[j], c, q) => i = j
    BY <1>3 DEF RunInvariant, Clean
  <2>2. \A i, j \in DOMAIN local' :
           IsComplete(local'[i], c, q) /\ IsComplete(local'[j], c, q) => i = j
    BY <1>2, <2>1
  <2>3. ASSUME NEW i \in DOMAIN local', IsComplete(local'[i], c, q)
        PROVE  Completing(local, c, q) /\ c \notin C
    BY <1>1, <1>2, <2>1, <2>3 DEF Completing
  <2>4. Completing(local, c, q)' => Completing(local, c, q) /\ c \notin C
    BY <2>3 DEF Completing
  <2>5. Completing(local, c, q) => Completing(local, c, q)' \/ c \in C
    BY <1>2 DEF Completing
  <2>6. c \in C => Completing(local, c, q)
    BY <1>1 DEF Completing
  <2> QED
    BY <2>2, <2>4, <2>5, <2>6
<1>4. \A i, j \in DOMAIN local' : IsPost(local'[i], q) /\ IsPost(local'[j], q) => i = j
  <2>1. \A i, j \in DOMAIN local : IsPost(local[i], q) /\ IsPost(local[j], q) => i = j
    BY DEF RunInvariant, OneAtLang
  <2> QED
    BY <1>2, <2>1
<1>5. Posted(local, q)' => Posted(local, q)
  BY <1>2 DEF Posted
<1>6. \A i \in DOMAIN local' : local'[i].t \in {"complete", "post"} /\ local'[i].run = q
                                 => local'[i].chan \in Callers
  <2>1. \A i \in DOMAIN local : local[i].t \in {"complete", "post"} /\ local[i].run = q
                                  => local[i].chan \in Callers
    BY DEF RunInvariant, Clean
  <2> QED
    BY <1>2, <2>1
<1>7. "auto" \in K \/ (\E i \in DOMAIN local' : IsComplete(local'[i], "auto", q) /\ local'[i].ok)
        => \E i \in DOMAIN local : IsComplete(local[i], "auto", q) /\ local[i].ok
  BY <1>1, <1>2 DEF Callers
<1>8. Inputs(local')
  BY <1>1, <1>2 DEF Inputs
<1> QED
  BY <1>3, <1>4, <1>5, <1>6, <1>7, <1>8 DEF Consumes, Inputs, IsSequence

\* The first input is taken and is no completion of q.
LEMMA ConsumesOther ==
  ASSUME NEW q \in Runs, RunInvariant(q), Inputs(local), local # <<>>, local' = Tail(local),
         \A c \in Callers : ~IsComplete(local[1], c, q)
  PROVE  Consumes(q, {}, {}) /\ Inputs(local)'
<1> DEFINE N == {}
<1>1. N \subseteq N /\ "auto" \notin N /\ \A c \in Callers : c \in N <=> IsComplete(local[1], c, q)
  OBVIOUS
<1> HIDE DEF N
<1>2. Consumes(q, N, N) /\ Inputs(local)'
  BY <1>1, ConsumesFirst
<1> QED
  BY <1>2 DEF N

\* What lang has of q, the input that the step takes apart.
Held(q) == lang[q] # "none" \/ call["lang"][q] # "idle" \/ Posted(local, q)'

\* What the poll loop has of q, the input that the step takes apart.
AutoHeld(q) == ForAuto(acts, q) \/ call["auto"][q] # "idle" \/ AutoPosted(local, q)'

\* The step takes the first local input, or none.
Advances == local' = local \/ (local # <<>> /\ local' = Tail(local))

\* No post_activation of the poll loop comes to the inputs, and the first goes.
LEMMA PostsLeft ==
  ASSUME NEW q \in Runs, Inputs(local), Advances, OneInAuto(q)
  PROVE  /\ AutoPosted(local, q)' => AutoPosted(local, q)
         /\ \A i, j \in DOMAIN local' :
               IsAutoPost(local'[i], q) /\ IsAutoPost(local'[j], q) => i = j
         /\ local # <<>> /\ local' = Tail(local) /\ IsAutoPost(local[1], q)
              => ~AutoPosted(local, q)'
<1>1. \A i, j \in DOMAIN local : IsAutoPost(local[i], q) /\ IsAutoPost(local[j], q) => i = j
  BY DEF OneInAuto
<1>2. CASE local # <<>> /\ local' = Tail(local)
  <2>1. /\ 1 \in DOMAIN local
        /\ \A i \in DOMAIN local' :
              i + 1 \in DOMAIN local /\ i \in Nat /\ i + 1 # 1 /\ local'[i] = local[i + 1]
    <3>1. /\ 1 \in DOMAIN local
          /\ \A i \in DOMAIN Tail(local) :
                i + 1 \in DOMAIN local /\ i \in Nat /\ Tail(local)[i] = local[i + 1]
          /\ IsSequence(Tail(local))
      BY <1>2, TailIs DEF Inputs
    <3>2. \A i \in DOMAIN Tail(local) : i + 1 # 1
      BY <3>1, SequenceIs
    <3> QED
      BY <1>2, <3>1, <3>2
  <2>2. AutoPosted(local, q)' => AutoPosted(local, q)
    BY <2>1 DEF AutoPosted
  <2>3. \A i, j \in DOMAIN local' : IsAutoPost(local'[i], q) /\ IsAutoPost(local'[j], q) => i = j
    BY <1>1, <2>1
  <2>4. IsAutoPost(local[1], q) => ~AutoPosted(local, q)'
    BY <1>1, <2>1 DEF AutoPosted
  <2> QED
    BY <2>2, <2>3, <2>4
<1>3. CASE local' = local /\ ~(local # <<>> /\ local' = Tail(local))
  BY <1>1, <1>3 DEF AutoPosted
<1> QED
  BY <1>2, <1>3 DEF Advances

\* The handlers start from u, which has the callers of the run where they are
\* and, when lang is not done with it, the activation outstanding; t is what
\* they and the evictions after them leave.
LEMMA StreamKeeps ==
  ASSUME NEW q \in Runs, Shapes, Answered(q), RunInvariant(q), Live,
         NEW u, NEW t, NEW C, NEW K, NEW cost,
         Shape(u, q), u.out = <<>>, PageOf(u, q) = PageOf(St, q), LaOf(u, q) = LaOf(St, q),
         Held(q) \/ ForLang(acts, q) => ActOf(u, q) \notin {"none", "Autocomplete"},
         Recorded /\ AutoHeld(q) => ActOf(u, q) = "Autocomplete", asserts \subseteq u.asserts,
         Handled(u, t, q, C, K), Publish(t, cost), lang' = lang, ignore' = ignore,
         Consumes(q, C, K), Inputs(local)', Advances
  PROVE  InOrder(q)'
<1>1. Shape(t, q) /\ Slots(t, q) /\ Works(u, t, q) /\ \A x \in RepOf(t, q) : x.outcome # "sent"
  BY DEF Handled, Works
<1>2. /\ cache' = t.cache
      /\ Cached(St, q)' <=> Cached(t, q)
      /\ ActOf(St, q)' = ActOf(t, q) /\ PageOf(St, q)' = PageOf(t, q)
      /\ LaOf(St, q)' = LaOf(t, q)
      /\ \A c : Stored(St, c, q)' <=> Stored(t, c, q)
      /\ IsSequence(acts)' /\ IsSequence(lru)' /\ IsSequence(full)'
      /\ (\A i \in DOMAIN full : IsSequence(full[i]))'
      /\ (DOMAIN cache = Runs)' /\ (DOMAIN call = Callers)'
      /\ (\A c \in Callers : DOMAIN call[c] = Runs)'
      /\ ~done' => acts' = acts \o t.out
      /\ "two_activations" \in asserts' <=> Panicked(t)
  BY <1>1, EndIs DEF Shapes, Inputs
<1>3. \A c \in Callers : /\ Told(t, c, q) => call'[c][q] # "sent"
                         /\ ~Told(t, c, q) => call'[c][q] = call[c][q]
  BY <1>1, CallsAre
<1>4. \A c : Stored(u, c, q) <=> Stored(St, c, q)
  BY DEF Stored
<1>5. ASSUME NEW c \in Callers
      PROVE  /\ (Told(t, c, q) \/ Stored(t, c, q)) <=> (Stored(St, c, q) \/ c \in C)
             /\ ~(Told(t, c, q) /\ Stored(t, c, q))
             /\ Stored(t, c, q) => Stored(St, c, q) \/ c \in K
             /\ c \in C => Completing(local, c, q)
             /\ Stored(St, c, q) \/ c \in C => call[c][q] = "sent"
  <2>1. c \in C => Completing(local, c, q)
    BY DEF Consumes
  <2>2. Stored(St, c, q) \/ c \in C => call[c][q] = "sent"
    BY <2>1 DEF RunInvariant, Clean
  <2> QED
    BY <1>4, <2>1, <2>2 DEF Handled
<1>6. Shapes'
  BY <1>2 DEF Shapes, Inputs
<1>7. Answered(q)'
  <2>1. SUFFICES ASSUME NEW c \in Callers, call'[c][q] = "sent"
                 PROVE  done' \/ Completing(local, c, q)' \/ Waits(c, q)'
    BY DEF Answered
  <2>2. ~Told(t, c, q) /\ call[c][q] = "sent"
    BY <1>3, <2>1
  <2>3. Completing(local, c, q) \/ Waits(c, q)
    BY <2>2 DEF Answered, Live
  <2>4. Waits(c, q) => Stored(St, c, q)
    <3>1. Cached(St, q) => IsSlot(cache[q].page) /\ IsSlot(cache[q].laDat)
      BY DEF RunInvariant, Clean
    <3>2. St.cache = cache
      BY DEF St
    <3>3. Cached(St, q) => PageOf(St, q) = cache[q].page /\ LaOf(St, q) = cache[q].laDat
      BY <3>2 DEF PageOf, LaOf
    <3>4. ASSUME NEW x, IsSlot(x), \E d \in Range(x) : d.chan = c
          PROVE  Keeps(x, c)
      BY <3>4 DEF IsSlot, Keeps, Range
    <3> QED
      BY <3>1, <3>3, <3>4 DEF Waits, Stored
  <2>5. Completing(local, c, q)' \/ Stored(t, c, q)
    BY <1>5, <2>2, <2>3, <2>4 DEF Consumes
  <2>6. Stored(t, c, q) => Waits(c, q)'
    <3>1. ASSUME NEW x, IsSlot(x), Keeps(x, c)
          PROVE  \E d \in Range(x) : d.chan = c
      BY <3>1 DEF IsSlot, Keeps, Range
    <3>2. Keeps(PageOf(t, q), c) => Cached(t, q) /\ PageOf(t, q) = t.cache[q].page
      BY DEF PageOf, Keeps
    <3>3. Keeps(LaOf(t, q), c) => Cached(t, q) /\ LaOf(t, q) = t.cache[q].laDat
      BY DEF LaOf, Keeps
    <3>4. ASSUME Keeps(PageOf(t, q), c) PROVE Waits(c, q)'
      <4>1. \E d \in Range(t.cache[q].page) : d.chan = c
        BY <1>1, <3>1, <3>2, <3>4 DEF Slots
      <4> QED
        BY <1>2, <3>2, <3>4, <4>1 DEF Waits
    <3>5. ASSUME Keeps(LaOf(t, q), c) PROVE Waits(c, q)'
      <4>1. \E d \in Range(t.cache[q].laDat) : d.chan = c
        BY <1>1, <3>1, <3>3, <3>5 DEF Slots
      <4> QED
        BY <1>2, <3>3, <3>5, <4>1 DEF Waits
    <3> QED
      BY <3>4, <3>5 DEF Stored
  <2> QED
    BY <2>5, <2>6
<1>a. LangBusy(q)' => Held(q)
  <2>1. call'["lang"][q] # "idle" => call["lang"][q] # "idle"
    BY <1>3, <1>5 DEF Callers
  <2> QED
    BY <2>1 DEF LangBusy, Held
<1>b. call'["auto"][q] # "idle" => call["auto"][q] # "idle"
  BY <1>3, <1>5 DEF Callers
<1>c. /\ u.asserts \subseteq t.asserts /\ asserts' = t.asserts /\ (Recorded' => Recorded)
  BY <1>1 DEF Works, Publish, Recorded
<1>d. ASSUME done' PROVE Over(q)'
  <2>1. acts' = acts /\ ~Panicked(t) /\ ShutdownDone(t)
    BY <1>d DEF Publish, Panicked
  <2>2. ActOf(t, q) = "none" \/ (ignore /\ ActOf(t, q) = "Eviction")
    BY <2>1 DEF ShutdownDone, CachedRuns, HasAnyPendingWork, ActOf
  <2>3. ActOf(u, q) # "none" => ActOf(t, q) = ActOf(u, q)
    BY <1>1, <2>1 DEF Works, Sends
  <2>4. ForLang(acts, q)' <=> ForLang(acts, q)
    BY <2>1 DEF ForLang
  <2>5. InAuto(q)' => AutoHeld(q)
    BY <1>b, <2>1 DEF InAuto, AutoHeld, ForAuto, AutoPosted, IsAuto, IsAutoPost
  <2> QED
    BY <1>2, <1>a, <1>c, <2>2, <2>3, <2>4, <2>5 DEF Over
<1>8. SUFFICES ASSUME Live' PROVE RunInvariant(q)'
  BY <1>6, <1>7, <1>d DEF InOrder
<1>9. Sends(u, t, q) /\ acts' = acts \o t.out
  BY <1>1, <1>2, <1>8 DEF Works, Live
<1>10. Len(u.out) = 0
  BY ShortSequences
<1>11. Clean(q)'
  <2>1. ASSUME Cached(t, q)
        PROVE  IsRecord(t.cache[q]) /\ IsSlot(t.cache[q].page) /\ IsSlot(t.cache[q].laDat)
    BY <1>1, <2>1 DEF Shape, Slots, PageOf, LaOf
  <2>2. (Cached(St, q) => IsRecord(cache[q]) /\ IsSlot(cache[q].page) /\ IsSlot(cache[q].laDat))'
    BY <1>2, <2>1 DEF IsRecord, IsSlot
  <2>3. (PageOf(St, q) = <<>> \/ LaOf(St, q) = <<>>)'
    BY <1>1, <1>2 DEF Slots
  <2>4. ASSUME NEW c \in Callers
        PROVE  /\ Completing(local, c, q)' => call'[c][q] = "sent" /\ ~Stored(St, c, q)'
               /\ Stored(St, c, q)' => call'[c][q] = "sent"
    <3>1. Completing(local, c, q)' =>
            Completing(local, c, q) /\ c \notin C /\ call[c][q] = "sent" /\ ~Stored(St, c, q)
      BY DEF Consumes, RunInvariant, Clean
    <3>2. Completing(local, c, q)' => ~Told(t, c, q) /\ ~Stored(t, c, q)
      BY <1>5, <3>1
    <3>3. Stored(t, c, q) => ~Told(t, c, q) /\ call[c][q] = "sent"
      BY <1>5
    <3> QED
      BY <1>2, <1>3, <3>1, <3>2, <3>3
  <2> QED
    BY <2>2, <2>3, <2>4 DEF Clean, Consumes
<1>12. LangBusy(q)' => Held(q)
  BY <1>a
<1>13. /\ Held(q) => LangBusy(q)
       /\ ForLang(acts, q) => ~LangBusy(q)
       /\ InAutocomplete(q) => ~LangBusy(q)
  BY DEF Held, LangBusy, Consumes, RunInvariant, OneAtLang, AutoFirst
<1>14. /\ IsSequence(acts) /\ IsSequence(t.out) /\ Len(acts) \in Nat /\ Len(t.out) \in Nat
       /\ DOMAIN acts = 1 .. Len(acts) /\ DOMAIN t.out = 1 .. Len(t.out)
  BY <1>1, SequenceIs DEF Shapes, Inputs, Shape
<1>15. \A i \in DOMAIN acts' :
          \/ i \in DOMAIN acts /\ acts'[i] = acts[i]
          \/ i > Len(acts) /\ i \in Nat /\ i - Len(acts) \in DOMAIN t.out /\ acts'[i] = t.out[i - Len(acts)]
  BY <1>9, <1>14, ConcatIs
<1>16. /\ \A i \in DOMAIN t.out : IsRecorded(t.out[i], q)
             => ActOf(u, q) = "none" /\ Matches(t.out[i].kind, ActOf(t, q))
       /\ \A i, j \in DOMAIN t.out : IsRecorded(t.out[i], q) /\ IsRecorded(t.out[j], q) => i = j
       /\ ActOf(u, q) # "none" => ActOf(t, q) = ActOf(u, q)
  BY <1>9, <1>10, <1>14 DEF Sends
<1>17. \A a : /\ IsForLang(a, q) => IsRecorded(a, q) /\ a.kind # "autocomplete"
              /\ IsAutocomplete(a, q) => IsRecorded(a, q) /\ a.kind = "autocomplete"
  BY DEF IsForLang, IsAutocomplete, IsRecorded, Automatic
<1>18. ASSUME NEW i \in DOMAIN acts', i \notin DOMAIN acts, IsRecorded(acts'[i], q)
       PROVE  ~Held(q) /\ ~ForLang(acts, q) /\ Matches(acts'[i].kind, ActOf(t, q))
  BY <1>15, <1>16, <1>18
<1>19. ASSUME NEW i \in DOMAIN acts', NEW j \in DOMAIN acts', i \notin DOMAIN acts, j \notin DOMAIN acts,
              IsRecorded(acts'[i], q), IsRecorded(acts'[j], q)
       PROVE  i = j
  <2>1. i - Len(acts) = j - Len(acts) /\ i \in Nat /\ j \in Nat
    BY <1>15, <1>16, <1>19
  <2> QED
    BY <1>14, <2>1
<1>20. OneAtLang(q)'
  <2>1. ASSUME NEW i \in DOMAIN acts', NEW j \in DOMAIN acts',
               IsForLang(acts'[i], q), IsForLang(acts'[j], q)
        PROVE  i = j
    <3>1. CASE i \in DOMAIN acts /\ j \in DOMAIN acts
      BY <1>14, <1>15, <2>1, <3>1 DEF RunInvariant, OneAtLang
    <3>2. CASE i \notin DOMAIN acts /\ j \notin DOMAIN acts
      BY <1>17, <1>19, <2>1, <3>2
    <3>3. CASE i \in DOMAIN acts /\ j \notin DOMAIN acts
      BY <1>14, <1>15, <1>17, <1>18, <2>1, <3>3 DEF ForLang
    <3>4. CASE i \notin DOMAIN acts /\ j \in DOMAIN acts
      BY <1>14, <1>15, <1>17, <1>18, <2>1, <3>4 DEF ForLang
    <3> QED
      BY <3>1, <3>2, <3>3, <3>4
  <2>2. ForLang(acts, q)' => ~LangBusy(q)'
    <3>1. ASSUME NEW i \in DOMAIN acts', IsForLang(acts'[i], q) PROVE ~Held(q)
      <4>1. CASE i \in DOMAIN acts
        BY <1>13, <1>14, <1>15, <3>1, <4>1 DEF ForLang
      <4>2. CASE i \notin DOMAIN acts
        BY <1>17, <1>18, <3>1, <4>2
      <4> QED
        BY <4>1, <4>2
    <3> QED
      BY <1>12, <3>1 DEF ForLang
  <2>3. /\ lang'[q] # "none" => call'["lang"][q] = "idle" /\ ~Posted(local, q)'
        /\ call'["lang"][q] # "idle" => ~Posted(local, q)'
    <3>1. call'["lang"][q] # "idle" => call["lang"][q] # "idle"
      BY <1>3, <1>5 DEF Callers
    <3> QED
      BY <3>1 DEF RunInvariant, OneAtLang, Consumes
  <2> QED
    BY <2>1, <2>2, <2>3 DEF OneAtLang, LangBusy, Consumes
<1>21. Outstanding(q)'
  <2>1. Held(q) => ActOf(t, q) \notin {"none", "Autocomplete"}
    BY <1>16
  <2>2. ASSUME NEW i \in DOMAIN acts', IsForLang(acts'[i], q)
        PROVE  ActOf(t, q) \notin {"none", "Autocomplete"}
    <3>1. CASE i \in DOMAIN acts
      BY <1>14, <1>15, <1>16, <2>2, <3>1 DEF ForLang
    <3>2. CASE i \notin DOMAIN acts
      BY <1>17, <1>18, <2>2, <3>2 DEF Matches
    <3> QED
      BY <3>1, <3>2
  <2> QED
    BY <1>2, <1>12, <2>1, <2>2 DEF Outstanding, ForLang
<1>22. AutoFirst(q)'
  <2>1. ASSUME NEW i \in DOMAIN acts', IsAutocomplete(acts'[i], q) PROVE ~LangBusy(q)'
    <3>1. CASE i \in DOMAIN acts
      BY <1>12, <1>13, <1>14, <1>15, <2>1, <3>1 DEF InAutocomplete
    <3>2. CASE i \notin DOMAIN acts
      BY <1>12, <1>17, <1>18, <2>1, <3>2
    <3> QED
      BY <3>1, <3>2
  <2>2. ASSUME \E i \in DOMAIN local' : IsComplete(local'[i], "auto", q) /\ local'[i].ok
        PROVE  ~LangBusy(q)'
    BY <1>12, <1>13, <2>2 DEF InAutocomplete, Consumes
  <2>3. ASSUME Stored(t, "auto", q) PROVE ~LangBusy(q)'
    BY <1>5, <1>12, <1>13, <2>3 DEF InAutocomplete, Consumes, Callers
  <2>4. ASSUME NEW i \in DOMAIN acts', NEW j \in DOMAIN acts',
               IsAutocomplete(acts'[i], q), IsForLang(acts'[j], q)
        PROVE  i < j
    <3>1. CASE i \in DOMAIN acts /\ j \in DOMAIN acts
      BY <1>14, <1>15, <2>4, <3>1 DEF RunInvariant, AutoFirst
    <3>2. CASE i \in DOMAIN acts /\ j \notin DOMAIN acts
      BY <1>14, <1>15, <3>2
    <3>3. CASE i \notin DOMAIN acts /\ j \in DOMAIN acts
      BY <1>14, <1>15, <1>17, <1>18, <2>4, <3>3 DEF ForLang
    <3>4. CASE i \notin DOMAIN acts /\ j \notin DOMAIN acts
      <4>1. i = j
        BY <1>17, <1>19, <2>4, <3>4
      <4> QED
        BY <1>17, <2>4, <4>1
    <3> QED
      BY <3>1, <3>2, <3>3, <3>4
  <2> QED
    BY <1>2, <2>1, <2>2, <2>3, <2>4 DEF AutoFirst, InAutocomplete
<1>23. AutoCounted(q)'
  <2>1. SUFFICES ASSUME Recorded'
                 PROVE  OneInAuto(q)' /\ (InAuto(q)' => ActOf(t, q) = "Autocomplete")
    BY <1>2 DEF AutoCounted
  <2>2. Recorded /\ Completes(u, t, q)
    BY <1>9, <1>c, <2>1 DEF Sends, Recorded
  <2>3. OneInAuto(q) /\ (AutoHeld(q) => ActOf(u, q) = "Autocomplete")
    BY <2>2 DEF RunInvariant, AutoCounted
  <2>4. /\ \A i \in DOMAIN t.out : IsAuto(t.out[i], q)
              => ActOf(u, q) = "none" /\ ActOf(t, q) = "Autocomplete"
        /\ \A i, j \in DOMAIN t.out : IsAuto(t.out[i], q) /\ IsAuto(t.out[j], q) => i = j
    BY <1>10, <1>14, <2>2 DEF Completes
  <2>5. ASSUME NEW i \in DOMAIN acts', i \notin DOMAIN acts, IsAuto(acts'[i], q)
        PROVE  ~AutoHeld(q) /\ ActOf(t, q) = "Autocomplete"
    BY <1>15, <2>3, <2>4, <2>5
  <2>6. ASSUME NEW i \in DOMAIN acts', NEW j \in DOMAIN acts', IsAuto(acts'[i], q), IsAuto(acts'[j], q)
        PROVE  i = j
    <3>1. CASE i \in DOMAIN acts /\ j \in DOMAIN acts
      BY <1>14, <1>15, <2>3, <2>6, <3>1 DEF OneInAuto
    <3>2. CASE i \notin DOMAIN acts /\ j \notin DOMAIN acts
      <4>1. i - Len(acts) = j - Len(acts) /\ i \in Nat /\ j \in Nat
        BY <1>15, <2>4, <2>6, <3>2
      <4> QED
        BY <1>14, <4>1
    <3>3. CASE i \in DOMAIN acts /\ j \notin DOMAIN acts
      BY <1>14, <1>15, <2>5, <2>6, <3>3 DEF AutoHeld, ForAuto
    <3>4. CASE i \notin DOMAIN acts /\ j \in DOMAIN acts
      BY <1>14, <1>15, <2>5, <2>6, <3>4 DEF AutoHeld, ForAuto
    <3> QED
      BY <3>1, <3>2, <3>3, <3>4
  <2>7. /\ AutoPosted(local, q)' => AutoPosted(local, q)
        /\ \A i, j \in DOMAIN local' :
              IsAutoPost(local'[i], q) /\ IsAutoPost(local'[j], q) => i = j
    BY <2>3, PostsLeft DEF Shapes
  <2>8. ASSUME NEW i \in DOMAIN acts', IsAuto(acts'[i], q)
        PROVE  /\ call'["auto"][q] = "idle" /\ ~AutoPosted(local, q)'
               /\ ActOf(t, q) = "Autocomplete"
    <3>1. CASE i \in DOMAIN acts
      <4>1. ForAuto(acts, q)
        BY <1>14, <1>15, <2>8, <3>1 DEF ForAuto
      <4> QED
        BY <1>16, <1>b, <2>3, <2>7, <4>1 DEF OneInAuto, AutoHeld
    <3>2. CASE i \notin DOMAIN acts
      BY <1>b, <2>5, <2>8, <3>2 DEF AutoHeld
    <3> QED
      BY <3>1, <3>2
  <2>9. OneInAuto(q)'
    BY <1>b, <2>3, <2>6, <2>7, <2>8 DEF OneInAuto, ForAuto
  <2>10. ASSUME InAuto(q)' PROVE ActOf(t, q) = "Autocomplete"
    <3>1. \/ \E i \in DOMAIN acts' : IsAuto(acts'[i], q)
          \/ call'["auto"][q] # "idle" \/ AutoPosted(local, q)'
      BY <2>10 DEF InAuto, IsAuto, AutoPosted, IsAutoPost
    <3>2. CASE call'["auto"][q] # "idle" \/ AutoPosted(local, q)'
      BY <1>16, <1>b, <2>3, <3>2 DEF AutoHeld
    <3> QED
      BY <2>8, <3>1, <3>2
  <2> QED
    BY <2>9, <2>10
<1> QED
  BY <1>11, <1>20, <1>21, <1>22, <1>23 DEF RunInvariant

\* The evictions that make room for waiting tasks answer nobody.
LEMMA StepKeeps ==
  ASSUME NEW q \in Runs, InOrder(q), NEW x, NEW o, NEW cost, NEW C, NEW K,
         Handled(St, x, q, C, K), StreamStep(x, o, cost), lang' = lang, ignore' = ignore,
         Consumes(q, C, K), Inputs(local)', Advances
  PROVE  InOrder(q)'
<1> DEFINE t == Reconcile(x, o)
<1>1. Publish(t, cost) /\ Live
  BY DEF StreamStep, Publish, Live
<1>2. Shapes /\ Answered(q) /\ RunInvariant(q)
  BY <1>1 DEF InOrder
<1>3. Shape(St, q) /\ Slots(St, q) /\ RepOf(St, q) = {} /\ St.out = <<>> /\ St.asserts = asserts
  BY <1>2, StartIs
<1>4. Quiet(x, t, q)
  BY ReconcileQuiet DEF Handled, Works
<1> HIDE DEF t
<1>5. Handled(St, t, q, C, K)
  BY <1>3, <1>4, HandledQuiet
<1>6. Held(q) \/ ForLang(acts, q) => ActOf(St, q) \notin {"none", "Autocomplete"}
  BY <1>2 DEF Held, Consumes, RunInvariant, Outstanding, LangBusy
<1>7. ASSUME Recorded, AutoHeld(q) PROVE ActOf(St, q) = "Autocomplete"
  <2>1. OneInAuto(q) /\ (InAuto(q) => ActOf(St, q) = "Autocomplete")
    BY <1>2, <1>7 DEF RunInvariant, AutoCounted
  <2>2. AutoPosted(local, q)' => AutoPosted(local, q)
    BY <1>2, <2>1, PostsLeft DEF Shapes
  <2> QED
    BY <1>7, <2>1, <2>2 DEF AutoHeld, InAuto, ForAuto, IsAuto, AutoPosted, IsAutoPost
<1> QED
  BY <1>1, <1>2, <1>3, <1>5, <1>6, <1>7, StreamKeeps

\* An input that answers nobody or moves one who waits, and is no completion.
LEMMA OtherStepKeeps ==
  ASSUME NEW q \in Runs, InOrder(q), NEW x, NEW o, NEW cost,
         Live => Quiet(St, x, q) \/ Moves(St, x, q),
         StreamStep(x, o, cost), lang' = lang, ignore' = ignore,
         \/ local' = local
         \/ /\ local # <<>> /\ local' = Tail(local)
            /\ \A c \in Callers : ~IsComplete(local[1], c, q)
  PROVE  InOrder(q)'
<1>1. Live /\ Shapes /\ RunInvariant(q)
  BY DEF StreamStep, Publish, Live, InOrder
<1>2. Shape(St, q) /\ Slots(St, q) /\ RepOf(St, q) = {}
  BY <1>1, StartIs
<1>3. Handled(St, x, q, {}, {})
  BY <1>1, <1>2, QuietHandled, MovesHandled
<1>4. Consumes(q, {}, {}) /\ Inputs(local)'
  <2>1. CASE local' = local
    BY <1>1, <2>1, ConsumesNothing DEF Shapes, Inputs, IsSequence
  <2>2. CASE /\ local # <<>> /\ local' = Tail(local)
             /\ \A c \in Callers : ~IsComplete(local[1], c, q)
    BY <1>1, <2>2, ConsumesOther DEF Shapes, Inputs
  <2> QED
    BY <2>1, <2>2
<1>5. Advances
  BY DEF Advances
<1> QED
  BY <1>3, <1>4, <1>5, StepKeeps

\* A completion of q finds its slots free, or is a failure and needs none.
LEMMA CompletionKeeps ==
  ASSUME NEW q \in Runs, InOrder(q), Completion
  PROVE  InOrder(q)'
<1> DEFINE m == local[1]
<1>1. PICK o \in Oracle : StreamStep(CompletionInput(St, m, o), o, Faulty(o))
  BY DEF Completion
<1> DEFINE x == CompletionInput(St, m, o)
<1>2. local # <<>> /\ m.t = "complete" /\ local' = Tail(local) /\ lang' = lang /\ ignore' = ignore
  BY DEF Completion, Local
<1>3. Live /\ Shapes /\ RunInvariant(q)
  BY <1>1 DEF StreamStep, Publish, Live, InOrder
<1>4. Shape(St, q) /\ Slots(St, q) /\ RepOf(St, q) = {}
  BY <1>3, StartIs
<1>5. /\ m.run # q => Quiet(St, x, q)
      /\ m.run = q /\ m.chan \in Callers => Takes(St, x, q, m.chan)
      /\ m.run = q /\ m.chan \in Callers /\ ~m.ok => Answers(St, x, q, m.chan)
  BY <1>4, CompletionIs
<1> HIDE DEF x
<1>6. CASE m.run # q
  <2>1. \A c \in Callers : ~IsComplete(m, c, q)
    BY <1>6 DEF IsComplete
  <2> QED
    BY <1>1, <1>2, <1>5, <1>6, <2>1, OtherStepKeeps DEF x
<1>7. CASE m.run = q
  <2> DEFINE c == m.chan
  <2>1. 1 \in DOMAIN local
    BY <1>2, <1>3, TailIs DEF Shapes, Inputs
  <2>2. c \in Callers
    BY <1>2, <1>3, <1>7, <2>1 DEF RunInvariant, Clean
  <2>3. IsComplete(m, c, q) /\ \A d \in Callers : d \in {c} <=> IsComplete(m, d, q)
    BY <1>2, <1>7 DEF IsComplete
  <2>4. call[c][q] = "sent" /\ ~Stored(St, c, q)
    BY <1>3, <2>1, <2>2, <2>3 DEF RunInvariant, Clean, Completing
  <2>5. ASSUME NEW K, K \subseteq {c}, "auto" \in K => m.ok, Handled(St, x, q, {c}, K)
        PROVE  InOrder(q)'
    <3>1. Consumes(q, {c}, K) /\ Inputs(local)'
      BY <1>2, <1>3, <2>3, <2>5, ConsumesFirst DEF Shapes, Inputs
    <3> QED
      BY <1>1, <1>2, <2>5, <3>1, StepKeeps DEF x, Advances
  <2>6. CASE ~m.ok
    BY <1>4, <1>5, <1>7, <2>2, <2>4, <2>5, <2>6, AnswersHandled
  <2>7. CASE m.ok
    <3>1. \A d \in Callers : ~Stored(St, d, q)
      <4>1. CASE c = "lang"
        <5>1. LangBusy(q)
          BY <2>4, <4>1 DEF LangBusy
        <5>2. ~Stored(St, "auto", q)
          BY <1>3, <5>1 DEF RunInvariant, AutoFirst, InAutocomplete
        <5> QED
          BY <2>4, <4>1, <5>2 DEF Callers
      <4>2. CASE c = "auto"
        <5>1. InAutocomplete(q)
          BY <2>1, <2>3, <2>7, <4>2 DEF InAutocomplete
        <5>2. call["lang"][q] = "idle"
          BY <1>3, <5>1 DEF RunInvariant, AutoFirst, LangBusy
        <5>3. ~Stored(St, "lang", q)
          BY <1>3, <5>2 DEF RunInvariant, Clean, Callers
        <5> QED
          BY <2>4, <4>2, <5>3 DEF Callers
      <4> QED
        BY <2>2, <4>1, <4>2 DEF Callers
    <3>2. PageOf(St, q) = <<>> /\ LaOf(St, q) = <<>>
      BY <1>4, <3>1, SlotKeeps DEF Slots, Stored
    <3>3. Handled(St, x, q, {c}, {c})
      BY <1>4, <1>5, <1>7, <2>2, <3>2, TakesHandled
    <3> QED
      BY <2>5, <2>7, <3>3
  <2> QED
    BY <2>6, <2>7
<1> QED
  BY <1>6, <1>7

\* post_activation of lang's completion of q finds nobody of q waiting: the
\* run can go.  That of an automatic one leaves lang's activation outstanding.
LEMMA PostActivationKeeps ==
  ASSUME NEW q \in Runs, InOrder(q), PostActivation
  PROVE  InOrder(q)'
<1> DEFINE m == local[1]
<1>1. PICK o \in Oracle : StreamStep(PostActivationInput(St, m, o), o, Faulty(o))
  BY DEF PostActivation
<1> DEFINE x == PostActivationInput(St, m, o)
           t == Reconcile(x, o)
<1>2. local # <<>> /\ m.t = "post" /\ local' = Tail(local) /\ lang' = lang /\ ignore' = ignore
  BY DEF PostActivation, Local
<1>3. Live /\ Shapes /\ RunInvariant(q) /\ Answered(q) /\ Publish(t, Faulty(o))
  BY <1>1 DEF StreamStep, Publish, Live, InOrder
<1>4. Shape(St, q) /\ Slots(St, q) /\ RepOf(St, q) = {} /\ St.out = <<>> /\ St.asserts = asserts
  BY <1>3, StartIs
<1>5. \A c \in Callers : ~IsComplete(m, c, q)
  BY <1>2 DEF IsComplete
<1>6. CASE m.run # q \/ ~Cached(St, q)
  <2>1. Quiet(St, x, q)
    BY <1>4, <1>6, PostActivationIs
  <2> HIDE DEF x
  <2> QED
    BY <1>1, <1>2, <1>5, <2>1, OtherStepKeeps DEF x
<1>7. CASE m.run = q /\ Cached(St, q)
  <2>1. PICK s, u : /\ Quiet(St, s, q) /\ s.asserts = St.asserts /\ s.out = St.out
                    /\ ActOf(s, q) = ActOf(St, q)
                    /\ Finishes(s, u, q, m) /\ Quiet(u, x, q)
    BY <1>4, <1>7, PostActivationIs
  <2> HIDE DEF x
  <2>2. Shape(u, q) /\ u.out = <<>> /\ RepOf(u, q) = {} /\ u.asserts = asserts
    BY <1>4, <2>1 DEF Finishes, Quiet, RepOf
  <2>3. Shape(x, q)
    BY <2>1, QuietShape
  <2>4. Quiet(x, t, q)
    BY <2>3, ReconcileQuiet
  <2> HIDE DEF t
  <2>5. Quiet(u, t, q)
    BY <2>1, <2>2, <2>4, QuietTrans
  <2>6. Consumes(q, {}, {}) /\ Inputs(local)'
    BY <1>2, <1>3, <1>5, ConsumesOther DEF Shapes, Inputs
  <2>7. 1 \in DOMAIN local
    BY <1>2, <1>3, TailIs DEF Shapes, Inputs
  <2>8. m.chan \in Callers
    BY <1>2, <1>3, <1>7, <2>7 DEF RunInvariant, Clean
  <2>9. PageOf(s, q) = PageOf(St, q) /\ LaOf(s, q) = LaOf(St, q)
    BY <2>1 DEF Quiet
  <2>10. /\ PageOf(u, q) = PageOf(St, q) /\ LaOf(u, q) = LaOf(St, q)
         /\ Held(q) \/ ForLang(acts, q) => ActOf(u, q) \notin {"none", "Autocomplete"}
    <3>1. CASE m.chan = "lang"
      <4>1. IsPost(m, q) /\ Posted(local, q)
        BY <1>2, <1>7, <2>7, <3>1 DEF IsPost, Posted
      <4>2. /\ LangBusy(q) /\ ~ForLang(acts, q) /\ lang[q] = "none" /\ call["lang"][q] = "idle"
        BY <1>3, <4>1 DEF RunInvariant, OneAtLang, LangBusy
      <4>3. \A d \in Callers : ~Stored(St, d, q)
        BY <1>3, <4>2 DEF RunInvariant, AutoFirst, InAutocomplete, Clean, Callers
      <4>4. PageOf(St, q) = <<>> /\ LaOf(St, q) = <<>>
        BY <1>4, <4>3, SlotKeeps DEF Slots, Stored
      <4>5. PageOf(u, q) = <<>> /\ LaOf(u, q) = <<>>
        BY <2>1, <2>9, <4>4 DEF Finishes, PageOf, LaOf
      <4>6. ~Posted(local, q)'
        <5>1. ASSUME NEW i \in DOMAIN local', IsPost(local'[i], q) PROVE FALSE
          <6>1. i + 1 \in DOMAIN local /\ i \in Nat /\ local'[i] = local[i + 1]
            BY <1>2, <1>3, <5>1, TailIs DEF Shapes, Inputs
          <6>2. i + 1 = 1
            BY <1>3, <2>7, <4>1, <5>1, <6>1 DEF RunInvariant, OneAtLang
          <6>3. i = 0 /\ IsSequence(local')
            BY <2>6, <6>1, <6>2 DEF Inputs, IsSequence
          <6> QED
            BY <6>3, SequenceIs, <5>1
        <5> QED
          BY <5>1 DEF Posted
      <4> QED
        BY <4>2, <4>4, <4>5, <4>6 DEF Held
    <3>2. CASE m.chan = "auto"
      <4>1. /\ PageOf(u, q) = PageOf(s, q) /\ LaOf(u, q) = LaOf(s, q)
            /\ ActOf(u, q) = IF ActOf(s, q) = "Autocomplete" THEN "none" ELSE ActOf(s, q)
        BY <2>1, <3>2 DEF Finishes
      <4>2. Held(q) \/ ForLang(acts, q) => ActOf(St, q) \notin {"none", "Autocomplete"}
        BY <1>3, <2>6 DEF Held, Consumes, RunInvariant, Outstanding, LangBusy
      <4> QED
        BY <2>1, <2>9, <4>1, <4>2
    <3> QED
      BY <2>8, <3>1, <3>2 DEF Callers
  <2>11. Slots(u, q)
    BY <1>4, <2>10 DEF Slots
  <2>12. Handled(u, t, q, {}, {})
    BY <2>2, <2>5, <2>11, QuietHandled
  <2>13. ASSUME Recorded PROVE ~AutoHeld(q) \/ ActOf(u, q) = "Autocomplete"
    <3>1. OneInAuto(q) /\ (InAuto(q) => ActOf(St, q) = "Autocomplete")
      BY <1>3, <2>13 DEF RunInvariant, AutoCounted
    <3>2. Advances /\ Inputs(local)
      BY <1>2, <1>3 DEF Advances, Shapes
    <3>3. CASE m.chan = "lang"
      <4>1. Posted(local, q)
        BY <1>2, <1>7, <2>7, <3>3 DEF IsPost, Posted
      <4>2. ~InAuto(q)
        BY <1>3, <3>1, <4>1 DEF RunInvariant, Outstanding, LangBusy
      <4>3. AutoPosted(local, q)' => AutoPosted(local, q)
        BY <3>1, <3>2, PostsLeft
      <4> QED
        BY <4>2, <4>3 DEF AutoHeld, InAuto, ForAuto, IsAuto, AutoPosted, IsAutoPost
    <3>4. CASE m.chan = "auto"
      <4>1. IsAutoPost(m, q) /\ AutoPosted(local, q)
        BY <1>2, <1>7, <2>7, <3>4 DEF IsAutoPost, AutoPosted
      <4>2. ~AutoPosted(local, q)'
        BY <1>2, <3>1, <3>2, <4>1, PostsLeft
      <4> QED
        BY <3>1, <4>1, <4>2 DEF AutoHeld, OneInAuto
    <3> QED
      BY <2>8, <3>3, <3>4 DEF Callers
  <2> QED
    BY <1>2, <1>3, <2>2, <2>6, <2>10, <2>12, <2>13, StreamKeeps DEF Advances
<1> QED
  BY <1>6, <1>7

\* The inputs that are no completions.
LEMMA EvictRequestKeeps ==
  ASSUME NEW q \in Runs, InOrder(q), EvictRequest
  PROVE  InOrder(q)'
<1> DEFINE r == local[1].run
<1>1. PICK o : StreamStep(RequestEviction(St, r, "hard", 0, o), o, Faulty(o))
  BY DEF EvictRequest
<1>2. /\ local # <<>> /\ local[1].t = "evict" /\ local' = Tail(local) /\ lang' = lang
      /\ ignore' = ignore
  BY DEF EvictRequest, Local
<1>3. \A c \in Callers : ~IsComplete(local[1], c, q)
  BY <1>2 DEF IsComplete
<1>4. ASSUME Live PROVE Quiet(St, RequestEviction(St, r, "hard", 0, o), q)
  BY <1>4, StartIs, EvictionQuiet DEF InOrder
<1> QED
  BY <1>1, <1>2, <1>3, <1>4, OtherStepKeeps

\* A local activity heartbeat's timeout.
LEMMA HeartbeatKeeps ==
  ASSUME NEW q \in Runs, InOrder(q), Heartbeat
  PROVE  InOrder(q)'
<1> DEFINE r == local[1].run
           k == Touch(St, r)
           x == HeartbeatTimeout(k, r, Calm)
<1>1. StreamStep(x, Calm, 0)
  BY DEF Heartbeat
<1>2. /\ local # <<>> /\ local[1].t = "hb" /\ local' = Tail(local) /\ lang' = lang
      /\ ignore' = ignore
  BY DEF Heartbeat, Local
<1>3. \A c \in Callers : ~IsComplete(local[1], c, q)
  BY <1>2 DEF IsComplete
<1>4. ASSUME Live PROVE Quiet(St, x, q) \/ Moves(St, x, q)
  <2>1. Shape(St, q) /\ Slots(St, q)
    BY <1>4, StartIs DEF InOrder
  <2>2. Quiet(St, k, q)
    BY <2>1, TouchQuiet
  <2> HIDE DEF k
  <2>3. Shape(k, q) /\ Slots(k, q)
    BY <2>1, <2>2, QuietShape DEF Slots, Quiet
  <2>4. Quiet(k, x, q) \/ Moves(k, x, q)
    BY <2>3, HeartbeatIs
  <2> HIDE DEF x
  <2> QED
    BY <2>1, <2>2, <2>4, QuietTrans, QuietMoves
<1> HIDE DEF x
<1> QED
  BY <1>1, <1>2, <1>3, <1>4, OtherStepKeeps

\* A local activity's resolution.
LEMMA LaResolvedKeeps ==
  ASSUME NEW q \in Runs, InOrder(q), LaResolved
  PROVE  InOrder(q)'
<1> DEFINE r == local[1].run
           k == Touch(St, r)
<1>1. PICK o : StreamStep(LocalResolution(k, r, o), o, Faulty(o))
  BY DEF LaResolved
<1> DEFINE x == LocalResolution(k, r, o)
<1>2. /\ local # <<>> /\ local[1].t = "la" /\ local' = Tail(local) /\ lang' = lang
      /\ ignore' = ignore
  BY DEF LaResolved, Local
<1>3. \A c \in Callers : ~IsComplete(local[1], c, q)
  BY <1>2 DEF IsComplete
<1>4. ASSUME Live PROVE Quiet(St, x, q) \/ Moves(St, x, q)
  <2>1. Shape(St, q) /\ Slots(St, q)
    BY <1>4, StartIs DEF InOrder
  <2>2. Quiet(St, k, q)
    BY <2>1, TouchQuiet
  <2> HIDE DEF k
  <2>3. Shape(k, q) /\ Slots(k, q)
    BY <2>1, <2>2, QuietShape DEF Slots, Quiet
  <2>4. Quiet(k, x, q) \/ Moves(k, x, q)
    BY <2>3, LocalResolutionIs
  <2> HIDE DEF x
  <2> QED
    BY <2>1, <2>2, <2>4, QuietTrans, QuietMoves
<1>5. StreamStep(x, o, Faulty(o))
  BY <1>1
<1> HIDE DEF x
<1> QED
  BY <1>2, <1>3, <1>4, <1>5, OtherStepKeeps

\* Tasks, failed polls and the inputs of a shutdown.
LEMMA NewWftKeeps ==
  ASSUME NEW q \in Runs, InOrder(q), NewWft \/ FailedPoll \/ Bump
  PROVE  InOrder(q)'
<1>1. ASSUME Live PROVE Shape(St, q) /\ Slots(St, q)
  BY <1>1, StartIs DEF InOrder
<1>2. CASE NewWft
  <2>1. PICK w, o : StreamStep(InstantiateOrUpdate(St, w, o), o, Faulty(o))
    BY <1>2 DEF NewWft
  <2>2. local' = local /\ lang' = lang /\ ignore' = ignore
    BY <1>2 DEF NewWft, SendsTask
  <2>3. Live => Quiet(St, InstantiateOrUpdate(St, w, o), q)
    BY <1>1, InstantiateQuiet
  <2> QED
    BY <2>1, <2>2, <2>3, OtherStepKeeps
<1>3. CASE FailedPoll
  <2>1. PICK r \in Runs, o \in Cancelling :
           /\ SendsTask(r, "task")
           /\ StreamStep(RequestEviction(St, r, "page", nextId, o), o, 1 + Faulty(o))
    BY <1>3 DEF FailedPoll
  <2> DEFINE x == RequestEviction(St, r, "page", nextId, o)
  <2>2. local' = local /\ lang' = lang /\ ignore' = ignore
    BY <2>1 DEF SendsTask
  <2>3. Live => Quiet(St, x, q) \/ Moves(St, x, q)
    BY <1>1, PageEvictionIs
  <2>4. StreamStep(x, o, 1 + Faulty(o))
    BY <2>1
  <2> HIDE DEF x
  <2> QED
    BY <2>2, <2>3, <2>4, OtherStepKeeps
<1>4. CASE Bump
  BY <1>1, <1>4, QuietRefl, OtherStepKeeps DEF Bump
<1> QED
  BY <1>2, <1>3, <1>4

\* The results of fetches.
LEMMA FetchKeeps ==
  ASSUME NEW q \in Runs, InOrder(q), NEW f \in fetch, FetchDone(f) \/ FetchFailed(f)
  PROVE  InOrder(q)'
<1> DEFINE s == [St EXCEPT !.fetch = @ \ {f}]
<1>1. local' = local /\ lang' = lang /\ ignore' = ignore
  BY DEF FetchDone, FetchFailed
<1>2. ASSUME Live PROVE /\ Shape(St, q) /\ Quiet(St, s, q) /\ Shape(s, q) /\ Slots(s, q)
  <2>1. Shape(St, q) /\ Slots(St, q)
    BY <1>2, StartIs DEF InOrder
  <2>2. /\ DOMAIN s = DOMAIN St /\ s.cache = St.cache /\ s.lru = St.lru /\ s.full = St.full
        /\ s.asserts = St.asserts /\ s.out = St.out /\ s.rep = St.rep
    BY DEF St
  <2> HIDE DEF s
  <2>3. Quiet(St, s, q)
    BY <2>1, <2>2, RestQuiet DEF Shape
  <2> QED
    BY <2>1, <2>3, QuietShape DEF Slots, Quiet
<1> HIDE DEF s
<1>3. ASSUME NEW x, NEW o, NEW cost, StreamStep(x, o, cost), Live => Quiet(s, x, q) \/ Moves(s, x, q)
      PROVE  InOrder(q)'
  <2>1. Live => Quiet(St, x, q) \/ Moves(St, x, q)
    BY <1>2, <1>3, QuietTrans, QuietMoves
  <2> QED
    BY <1>1, <1>3, <2>1, OtherStepKeeps
<1>4. CASE FetchFailed(f)
  <2>1. PICK o : StreamStep(RequestEviction(s, f.run, "page", 0, o), o, 1 + Faulty(o))
    BY <1>4 DEF FetchFailed, s
  <2> DEFINE x == RequestEviction(s, f.run, "page", 0, o)
  <2>2. Live => Quiet(s, x, q) \/ Moves(s, x, q)
    BY <1>2, PageEvictionIs
  <2>3. StreamStep(x, o, 1 + Faulty(o))
    BY <2>1
  <2> HIDE DEF x
  <2> QED
    BY <1>3, <2>2, <2>3
<1>5. CASE FetchDone(f)
  <2> DEFINE w == [f.wft EXCEPT !.full = TRUE]
             k == Touch(s, f.run)
  <2>1. PICK o : StreamStep(IF f.what = "full" THEN InstantiateOrUpdate(s, w, o)
                            ELSE IF Cached(s, f.run)
                            THEN EvictLru(FetchedPageCompletion(k, f.run, o), o)
                            ELSE Note(s, "run_missing"), o, Faulty(o))
    BY <1>5 DEF FetchDone, s
  <2> DEFINE y == FetchedPageCompletion(k, f.run, o)
  <2>2. CASE f.what = "full"
    BY <1>2, <1>3, <2>1, <2>2, InstantiateQuiet
  <2>3. CASE f.what # "full" /\ ~Cached(s, f.run)
    BY <1>2, <1>3, <2>1, <2>3, NoteQuiet
  <2>4. CASE f.what # "full" /\ Cached(s, f.run)
    <3>1. StreamStep(EvictLru(y, o), o, Faulty(o))
      BY <2>1, <2>4
    <3>2. ASSUME Live PROVE Quiet(s, EvictLru(y, o), q) \/ Moves(s, EvictLru(y, o), q)
      <4>1. Quiet(s, k, q) /\ k.cache = s.cache
        BY <1>2, <3>2, TouchQuiet
      <4> HIDE DEF k
      <4>2. Shape(k, q) /\ Slots(k, q) /\ (f.run = q => Cached(k, q))
        BY <1>2, <2>4, <3>2, <4>1, QuietShape DEF Slots, Quiet
      <4>3. Quiet(k, y, q) \/ Moves(k, y, q)
        BY <4>2, FetchedPageIs
      <4> HIDE DEF y
      <4>4. Quiet(s, y, q) \/ Moves(s, y, q)
        BY <1>2, <3>2, <4>1, <4>3, QuietTrans, QuietMoves
      <4>5. Shape(y, q)
        BY <4>4 DEF Quiet, Moves, Takes, Answers, Stores, Works
      <4>6. Quiet(y, EvictLru(y, o), q)
        BY <4>5, EvictLruQuiet
      <4> QED
        BY <1>2, <3>2, <4>4, <4>6, QuietTrans, MovesTrans
    <3> HIDE DEF y
    <3> QED
      BY <1>3, <3>1, <3>2
  <2> QED
    BY <2>2, <2>3, <2>4
<1> QED
  BY <1>4, <1>5

----------------------------------------------------------------------------
(* The poll loop, the callers, the server and the timers.                  *)

\* The inputs that are about the callers of q are where they were.
Mine(m, q) == m.t \in {"complete", "post"} /\ m.run = q
SameFor(q) ==
  /\ \A i \in DOMAIN local' : Mine(local'[i], q) => i \in DOMAIN local /\ local'[i] = local[i]
  /\ \A i \in DOMAIN local : Mine(local[i], q) => i \in DOMAIN local' /\ local'[i] = local[i]

\* Then q's completions and post_activations are the same.
LEMMA SameForIs ==
  ASSUME NEW q \in Runs, SameFor(q)
  PROVE  /\ \A c : Completing(local, c, q)' <=> Completing(local, c, q)
         /\ Posted(local, q)' <=> Posted(local, q)
         /\ AutoPosted(local, q)' <=> AutoPosted(local, q)
         /\ \A i \in DOMAIN local' : Mine(local'[i], q) => i \in DOMAIN local /\ local'[i] = local[i]
         /\ \A i, c : IsComplete(local'[i], c, q) \/ IsPost(local'[i], q) => Mine(local'[i], q)
         /\ \A i : IsAutoPost(local'[i], q) => Mine(local'[i], q)
<1>1. /\ \A m, c : IsComplete(m, c, q) \/ IsPost(m, q) => Mine(m, q)
      /\ \A m : IsAutoPost(m, q) => Mine(m, q)
  BY DEF IsComplete, IsPost, IsAutoPost, Mine
<1>2. \A c : Completing(local, c, q)' <=> Completing(local, c, q)
  BY <1>1 DEF SameFor, Completing
<1>3. Posted(local, q)' <=> Posted(local, q)
  BY <1>1 DEF SameFor, Posted
<1>4. AutoPosted(local, q)' <=> AutoPosted(local, q)
  BY <1>1 DEF SameFor, AutoPosted
<1> QED
  BY <1>1, <1>2, <1>3, <1>4 DEF SameFor

\* Something is added that is not about them.
LEMMA AppendSame ==
  ASSUME NEW q \in Runs, Inputs(local), NEW e, ~Mine(e, q), e.t = "complete" => "run" \in DOMAIN e,
         local' = Append(local, e)
  PROVE  SameFor(q) /\ Inputs(local)'
<1>1. /\ IsSequence(local')
      /\ \A i \in DOMAIN local : i \in DOMAIN local' /\ local'[i] = local[i]
      /\ \A i \in DOMAIN local' : \/ i \in DOMAIN local /\ local'[i] = local[i]
                                  \/ i = Len(local) + 1 /\ local'[i] = e
  BY AppendIs, SequenceIs DEF Inputs
<1>2. SameFor(q)
  BY <1>1 DEF SameFor
<1>3. Inputs(local')
  BY <1>1 DEF Inputs
<1> QED
  BY <1>2, <1>3 DEF Inputs, IsSequence

\* What the run keeps is seen in its cache entry alone.
LEMMA KeptIs ==
  ASSUME NEW q \in Runs, cache'[q] = cache[q]
  PROVE  /\ Cached(St, q)' <=> Cached(St, q)
         /\ ActOf(St, q)' = ActOf(St, q)
         /\ PageOf(St, q)' = PageOf(St, q) /\ LaOf(St, q)' = LaOf(St, q)
         /\ \A c : Stored(St, c, q)' <=> Stored(St, c, q)
         /\ \A c : Waits(c, q)' <=> Waits(c, q)
<1>1. Cached(St, q)' <=> Cached(St, q)
  BY DEF Cached, St
<1>2. ActOf(St, q)' = ActOf(St, q)
  BY <1>1 DEF ActOf, St
<1>3. PageOf(St, q)' = PageOf(St, q) /\ LaOf(St, q)' = LaOf(St, q)
  BY <1>1 DEF PageOf, LaOf, St
<1>4. \A c : Stored(St, c, q)' <=> Stored(St, c, q)
  BY <1>3 DEF Stored
<1>5. \A c : Waits(c, q)' <=> Waits(c, q)
  BY <1>1 DEF Waits
<1> QED
  BY <1>1, <1>2, <1>3, <1>4, <1>5

\* Somebody starts to wait only with a completion under way.
LEMMA AnsweredKept ==
  ASSUME NEW q \in Runs, Answered(q), cache'[q] = cache[q], done' = done,
         \A c \in Callers : call'[c][q] = "sent" =>
            \/ Completing(local, c, q)'
            \/ call[c][q] = "sent" /\ ~Completing(local, c, q)
  PROVE  Answered(q)'
BY KeptIs DEF Answered

\* A step that is not about q.  A caller that has its answer may leave.
LEMMA UntouchedKeeps ==
  ASSUME NEW q \in Runs, InOrder(q), Shapes', SameFor(q), cache'[q] = cache[q],
         lang'[q] = lang[q], done' = done, asserts \subseteq asserts', acts' = acts,
         ignore' = ignore,
         \A c \in Callers : \/ call'[c][q] = call[c][q]
                            \/ call'[c][q] = "idle" /\ (Live => call[c][q] # "sent")
  PROVE  InOrder(q)'
<1>1. /\ \A c : Completing(local, c, q)' <=> Completing(local, c, q)
      /\ Posted(local, q)' <=> Posted(local, q)
      /\ AutoPosted(local, q)' <=> AutoPosted(local, q)
      /\ \A i \in DOMAIN local' : Mine(local'[i], q) => i \in DOMAIN local /\ local'[i] = local[i]
      /\ \A i, c : IsComplete(local'[i], c, q) \/ IsPost(local'[i], q) => Mine(local'[i], q)
      /\ \A i : IsAutoPost(local'[i], q) => Mine(local'[i], q)
  BY SameForIs
<1>2. /\ Cached(St, q)' <=> Cached(St, q)
      /\ ActOf(St, q)' = ActOf(St, q)
      /\ PageOf(St, q)' = PageOf(St, q) /\ LaOf(St, q)' = LaOf(St, q)
      /\ \A c : Stored(St, c, q)' <=> Stored(St, c, q)
  BY KeptIs
<1>3. Answered(q)'
  <2>1. Answered(q)
    BY DEF InOrder
  <2> QED
    BY <1>1, <2>1, AnsweredKept
<1>a. (LangBusy(q)' => LangBusy(q)) /\ (ForLang(acts, q)' <=> ForLang(acts, q))
  BY <1>1 DEF LangBusy, ForLang, Callers
<1>b. /\ Recorded' => Recorded
      /\ call'["auto"][q] # "idle" => call["auto"][q] # "idle"
      /\ ForAuto(acts, q)' <=> ForAuto(acts, q)
  BY DEF Recorded, ForAuto, Callers
<1>c. InAuto(q)' => InAuto(q)
  BY <1>1, <1>b DEF InAuto, AutoPosted, IsAutoPost
<1>d. done' => Over(q)'
  BY <1>2, <1>a, <1>b, <1>c DEF InOrder, Over
<1>4. SUFFICES ASSUME Live' PROVE RunInvariant(q)'
  BY <1>3, <1>d DEF InOrder
<1>5. Live /\ RunInvariant(q)
  BY <1>4 DEF InOrder, Live
<1>6. Clean(q)'
  <2>1. (Cached(St, q) => IsRecord(cache[q]) /\ IsSlot(cache[q].page) /\ IsSlot(cache[q].laDat))'
    BY <1>2, <1>5 DEF RunInvariant, Clean, IsRecord, IsSlot
  <2>2. (PageOf(St, q) = <<>> \/ LaOf(St, q) = <<>>)'
    BY <1>2, <1>5 DEF RunInvariant, Clean
  <2>3. \A i \in DOMAIN local' : local'[i].t \in {"complete", "post"} /\ local'[i].run = q
                                   => local'[i].chan \in Callers
    BY <1>1, <1>5 DEF RunInvariant, Clean, Mine
  <2>4. ASSUME NEW c \in Callers
        PROVE  /\ Completing(local, c, q)' => call'[c][q] = "sent" /\ ~Stored(St, c, q)'
               /\ Stored(St, c, q)' => call'[c][q] = "sent"
               /\ \A i, j \in DOMAIN local' :
                     IsComplete(local'[i], c, q) /\ IsComplete(local'[j], c, q) => i = j
    <3>1. /\ Completing(local, c, q) => call[c][q] = "sent" /\ ~Stored(St, c, q)
          /\ Stored(St, c, q) => call[c][q] = "sent"
          /\ \A i, j \in DOMAIN local :
                IsComplete(local[i], c, q) /\ IsComplete(local[j], c, q) => i = j
      BY <1>5 DEF RunInvariant, Clean
    <3> QED
      BY <1>1, <1>2, <1>5, <3>1
  <2> QED
    BY <2>1, <2>2, <2>3, <2>4 DEF Clean
<1>7. LangBusy(q)' => LangBusy(q)
  BY <1>1 DEF LangBusy, Callers
<1>8. OneAtLang(q)'
  <2>1. \A i, j \in DOMAIN local' : IsPost(local'[i], q) /\ IsPost(local'[j], q) => i = j
    BY <1>1, <1>5 DEF RunInvariant, OneAtLang
  <2>2. call'["lang"][q] # "idle" => call["lang"][q] # "idle"
    BY DEF Callers
  <2>3. ForLang(acts, q)' <=> ForLang(acts, q)
    BY DEF ForLang
  <2> QED
    BY <1>1, <1>5, <2>1, <2>2, <2>3 DEF RunInvariant, OneAtLang
<1>9. Outstanding(q)'
  BY <1>2, <1>5, <1>7 DEF RunInvariant, Outstanding, ForLang
<1>10. AutoFirst(q)'
  <2>1. InAutocomplete(q)' => InAutocomplete(q)
    BY <1>1, <1>2 DEF InAutocomplete
  <2> QED
    BY <1>5, <1>7, <2>1 DEF RunInvariant, AutoFirst
<1>11. AutoCounted(q)'
  <2>1. ASSUME Recorded PROVE OneInAuto(q)'
    <3>1. OneInAuto(q)
      BY <1>5, <2>1 DEF RunInvariant, AutoCounted
    <3>2. \A i, j \in DOMAIN local' : IsAutoPost(local'[i], q) /\ IsAutoPost(local'[j], q) => i = j
      BY <1>1, <3>1 DEF OneInAuto
    <3> QED
      BY <1>1, <1>b, <3>1, <3>2 DEF OneInAuto
  <2> QED
    BY <1>2, <1>5, <1>b, <1>c, <2>1 DEF RunInvariant, AutoCounted
<1> QED
  BY <1>6, <1>8, <1>9, <1>10, <1>11 DEF RunInvariant

\* Local inputs that stay as they are.
LEMMA LocalSame ==
  ASSUME NEW q \in Runs, Inputs(local), local' = local
  PROVE  SameFor(q) /\ Inputs(local)'
BY DEF SameFor, Inputs, IsSequence

\* Nothing that has a shape changes but the local inputs, one call, what lang
\* has of one run and the first activation.
LEMMA ShapesKept ==
  ASSUME Shapes, Inputs(local)', cache' = cache, lru' = lru, full' = full,
         acts' = acts \/ (acts # <<>> /\ acts' = Tail(acts)),
         lang' = lang \/ \E r, v : lang' = [lang EXCEPT ![r] = v],
         \/ call' = call
         \/ \E c \in Callers : \E r, v : call' = [call EXCEPT ![c][r] = v]
  PROVE  Shapes'
<1>1. DOMAIN call' = Callers /\ \A c \in Callers : DOMAIN call'[c] = Runs
  BY DEF Shapes, Inputs
<1>2. IsSequence(acts') /\ IsSequence(lru)' /\ IsSequence(full)'
  BY TailIs DEF Shapes, IsSequence
<1>3. (\A i \in DOMAIN full : IsSequence(full[i]))'
  <2>1. full' = full /\ \A i \in DOMAIN full : IsSequence(full[i])
    BY DEF Shapes
  <2> QED
    BY ONLY <2>1 DEF IsSequence
<1>4. DOMAIN lang' = Runs /\ DOMAIN cache' = Runs
  BY DEF Shapes
<1>5. IsSequence(acts)'
  BY <1>2 DEF IsSequence
<1> QED
  BY <1>1, <1>2, <1>3, <1>4, <1>5 DEF Shapes

\* Timeouts, local activities, timers and the shutdown.
LEMMA SurroundingsKeep ==
  ASSUME NEW q \in Runs, InOrder(q),
         \/ \E r \in Runs : WftTimesOut(r) \/ LaFinishes(r) \/ TimerFires(r)
         \/ InitiateShutdown \/ UNCHANGED vars
  PROVE  InOrder(q)'
<1>1. /\ cache' = cache /\ lru' = lru /\ full' = full /\ acts' = acts /\ lang' = lang
      /\ call' = call /\ done' = done /\ asserts' = asserts /\ ignore' = ignore
      /\ \/ local' = local
         \/ \E r : local' = Append(local, [t |-> "la", run |-> r])
         \/ \E r : local' = Append(local, [t |-> "hb", run |-> r])
  BY DEF WftTimesOut, LaFinishes, TimerFires, InitiateShutdown, vars, stream, outside, server
<1>2. Shapes
  BY DEF InOrder
<1>3. SameFor(q) /\ Inputs(local)'
  <2>1. \A r : /\ [t |-> "la", run |-> r].t = "la" /\ ~Mine([t |-> "la", run |-> r], q)
              /\ [t |-> "hb", run |-> r].t = "hb" /\ ~Mine([t |-> "hb", run |-> r], q)
    BY DEF Mine
  <2>2. Inputs(local)
    BY <1>2 DEF Shapes
  <2>3. CASE local' = local
    BY <2>2, <2>3, LocalSame
  <2>4. CASE \E r : local' = Append(local, [t |-> "la", run |-> r])
    BY <2>1, <2>2, <2>4, AppendSame
  <2>5. CASE \E r : local' = Append(local, [t |-> "hb", run |-> r])
    BY <2>1, <2>2, <2>5, AppendSame
  <2> QED
    BY <1>1, <2>3, <2>4, <2>5
<1>4. Shapes'
  BY <1>1, <1>2, <1>3, ShapesKept
<1> QED
  BY <1>1, <1>3, <1>4, UntouchedKeeps

\* A caller whose answer was lost, or that waits for a stream that has ended.
LEMMA OrphanedKeeps ==
  ASSUME NEW q \in Runs, InOrder(q), NEW c \in Callers, NEW r \in Runs, Orphaned(c, r)
  PROVE  InOrder(q)'
<1>1. /\ cache' = cache /\ lru' = lru /\ full' = full /\ acts' = acts /\ lang' = lang
      /\ call' = [call EXCEPT ![c][r] = "idle"] /\ done' = done /\ asserts \subseteq asserts'
      /\ local' = local \/ local' = Append(local, [t |-> "evict", run |-> r])
      /\ call[c][r] = "Lost" \/ done
      /\ ignore' = ignore
  BY DEF Orphaned, outside
<1>2. Shapes
  BY DEF InOrder
<1>3. SameFor(q) /\ Inputs(local)'
  <2>1. ~Mine([t |-> "evict", run |-> r], q) /\ [t |-> "evict", run |-> r].t # "complete"
    BY DEF Mine
  <2> QED
    BY <1>1, <1>2, <2>1, LocalSame, AppendSame DEF Shapes
<1>4. Shapes'
  BY <1>1, <1>2, <1>3, ShapesKept
<1>5. \A d \in Callers : \/ call'[d][q] = call[d][q]
                         \/ call'[d][q] = "idle" /\ (Live => call[d][q] # "sent")
  BY <1>1, <1>2 DEF Shapes, Inputs, Live
<1> QED
  BY <1>1, <1>3, <1>4, <1>5, UntouchedKeeps

\* The poll of another run's automatic completion is dropped.
LEMMA PollDroppedKeeps ==
  ASSUME NEW q \in Runs, InOrder(q), NEW r \in Runs, PollDropped(r), r # q
  PROVE  InOrder(q)'
<1>1. Shapes /\ DOMAIN cache = Runs
  BY DEF InOrder, Shapes, Inputs
<1>2. /\ lru' = lru /\ full' = full /\ acts' = acts /\ lang' = lang /\ done' = done
      /\ asserts' = asserts /\ call' = [call EXCEPT !["auto"][r] = "idle"] /\ ignore' = ignore
  BY DEF PollDropped, outside
<1>3. cache'[q] = cache[q] /\ DOMAIN cache' = Runs
  BY <1>1 DEF PollDropped
<1>4. SameFor(q) /\ Inputs(local)'
  <2>1. /\ local' = [i \in DOMAIN local |->
                       IF local[i].t = "complete" /\ local[i].run = r /\ local[i].chan = "auto"
                       THEN [local[i] EXCEPT !.chan = "gone"] ELSE local[i]]
    BY DEF PollDropped
  <2>2. DOMAIN local' = DOMAIN local /\ local' = [i \in DOMAIN local' |-> local'[i]]
    BY <2>1
  <2>3. IsSequence(local')
    BY <1>1, <2>2, MappedIs DEF Shapes, Inputs
  <2>4. ASSUME NEW i \in DOMAIN local
        PROVE  /\ Mine(local[i], q) => local'[i] = local[i]
               /\ Mine(local'[i], q) => local'[i] = local[i]
               /\ local'[i].t = "complete" => "run" \in DOMAIN local'[i]
    <3> DEFINE m == local[i]
    <3>1. CASE m.t = "complete" /\ m.run = r /\ m.chan = "auto"
      <4>1. "run" \in DOMAIN m /\ local'[i] = [m EXCEPT !.chan = "gone"]
        BY <1>1, <2>1, <3>1 DEF Shapes, Inputs
      <4>2. DOMAIN local'[i] = DOMAIN m /\ local'[i].run = r
        BY <3>1, <4>1
      <4> QED
        BY <3>1, <4>1, <4>2 DEF Mine
    <3>2. CASE ~(m.t = "complete" /\ m.run = r /\ m.chan = "auto")
      BY <1>1, <2>1, <3>2 DEF Shapes, Inputs
    <3> QED
      BY <3>1, <3>2
  <2>5. SameFor(q)
    BY <2>2, <2>4 DEF SameFor
  <2>6. Inputs(local')
    BY <2>2, <2>3, <2>4 DEF Inputs
  <2> QED
    BY <2>5, <2>6 DEF Inputs, IsSequence
<1>5. Shapes'
  BY <1>1, <1>2, <1>3, <1>4 DEF Shapes, Inputs, IsSequence, Callers
<1>6. \A c \in Callers : call'[c][q] = call[c][q]
  BY <1>1, <1>2 DEF Shapes, Inputs, Callers
<1> QED
  BY <1>2, <1>3, <1>4, <1>5, <1>6, UntouchedKeeps

\* Of the inputs that are added one, e, is about a caller of q.
Adds(q, e) ==
  \E p \in DOMAIN local' \ DOMAIN local :
     /\ local'[p] = e
     /\ \A i \in DOMAIN local : i \in DOMAIN local' /\ local'[i] = local[i]
     /\ \A i \in DOMAIN local' : \/ i \in DOMAIN local /\ local'[i] = local[i]
                                 \/ i = p \/ ~Mine(local'[i], q)

\* Then q's completions and post_activations are those before and e.
LEMMA AddsIs ==
  ASSUME NEW q \in Runs, NEW e, e.t \in {"complete", "post"}, e.run = q, Adds(q, e)
  PROVE  /\ \A c : Completing(local, c, q)' <=> Completing(local, c, q) \/ IsComplete(e, c, q)
         /\ Posted(local, q)' <=> Posted(local, q) \/ IsPost(e, q)
         /\ AutoPosted(local, q)' <=> AutoPosted(local, q) \/ IsAutoPost(e, q)
         /\ \E p : \A i \in DOMAIN local' :
               Mine(local'[i], q) => \/ i \in DOMAIN local /\ local'[i] = local[i]
                                     \/ i = p /\ local'[i] = e
         /\ \A m, c : IsComplete(m, c, q) \/ IsPost(m, q) => Mine(m, q)
         /\ \A m : IsAutoPost(m, q) => Mine(m, q)
<1>1. PICK p \in DOMAIN local' \ DOMAIN local :
        /\ local'[p] = e
        /\ \A i \in DOMAIN local : i \in DOMAIN local' /\ local'[i] = local[i]
        /\ \A i \in DOMAIN local' : \/ i \in DOMAIN local /\ local'[i] = local[i]
                                    \/ i = p \/ ~Mine(local'[i], q)
  BY DEF Adds
<1>2. \A m, c : IsComplete(m, c, q) \/ IsPost(m, q) => Mine(m, q)
  BY DEF IsComplete, IsPost, Mine
<1>3. \A c : Completing(local, c, q)' <=> Completing(local, c, q) \/ IsComplete(e, c, q)
  BY <1>1, <1>2 DEF Completing
<1>4. Posted(local, q)' <=> Posted(local, q) \/ IsPost(e, q)
  BY <1>1, <1>2 DEF Posted
<1>5. \A m : IsAutoPost(m, q) => Mine(m, q)
  BY DEF IsAutoPost, Mine
<1>6. AutoPosted(local, q)' <=> AutoPosted(local, q) \/ IsAutoPost(e, q)
  BY <1>1, <1>5 DEF AutoPosted
<1> QED
  BY <1>1, <1>2, <1>3, <1>4, <1>5, <1>6

\* What the poll loop has of q stays or gets less.
LEMMA AutoKept ==
  ASSUME NEW q \in Runs, AutoCounted(q), cache'[q] = cache[q], asserts' = asserts, acts' = acts,
         AutoPosted(local, q)' => AutoPosted(local, q), call'["auto"][q] = call["auto"][q],
         \A i, j \in DOMAIN local' : IsAutoPost(local'[i], q) /\ IsAutoPost(local'[j], q) => i = j
  PROVE  AutoCounted(q)' /\ (InAuto(q)' => InAuto(q))
<1>1. ActOf(St, q)' = ActOf(St, q)
  BY KeptIs
<1>2. (ForAuto(acts, q)' <=> ForAuto(acts, q)) /\ (Recorded' <=> Recorded)
  BY DEF ForAuto, Recorded
<1>3. InAuto(q)' => InAuto(q)
  BY DEF InAuto, AutoPosted, IsAutoPost
<1>4. OneInAuto(q) => OneInAuto(q)'
  BY <1>2 DEF OneInAuto
<1> QED
  BY <1>1, <1>2, <1>3, <1>4 DEF AutoCounted

\* What a list added to the inputs makes of them.
LEMMA ConcatAdds ==
  ASSUME NEW q \in Runs, Inputs(local), NEW x, IsSequence(x), local' = local \o x,
         \A i \in DOMAIN x : x[i].t = "complete" => "run" \in DOMAIN x[i]
  PROVE  /\ Inputs(local)'
         /\ (\A i \in DOMAIN x : ~Mine(x[i], q)) => SameFor(q)
         /\ \A k \in DOMAIN x : (\A i \in DOMAIN x : i # k => ~Mine(x[i], q)) => Adds(q, x[k])
<1>1. /\ IsSequence(local') /\ DOMAIN local' = 1 .. (Len(local) + Len(x))
      /\ \A i \in DOMAIN local : local'[i] = local[i]
      /\ \A i \in DOMAIN x : local'[Len(local) + i] = x[i]
      /\ \A i \in DOMAIN local' :
            \/ i \in DOMAIN local /\ local'[i] = local[i]
            \/ i > Len(local) /\ i - Len(local) \in DOMAIN x /\ local'[i] = x[i - Len(local)]
  BY ConcatIs DEF Inputs
<1>2. /\ Len(local) \in Nat /\ DOMAIN local = 1 .. Len(local)
      /\ Len(x) \in Nat /\ DOMAIN x = 1 .. Len(x)
  BY SequenceIs DEF Inputs
<1>3. Inputs(local')
  BY <1>1 DEF Inputs
<1>4. \A i \in DOMAIN local : i \in DOMAIN local' /\ local'[i] = local[i]
  BY <1>1, <1>2
<1>5. (\A i \in DOMAIN x : ~Mine(x[i], q)) => SameFor(q)
  BY <1>1, <1>4 DEF SameFor
<1>6. ASSUME NEW k \in DOMAIN x, \A i \in DOMAIN x : i # k => ~Mine(x[i], q)
      PROVE  Adds(q, x[k])
  <2> DEFINE p == Len(local) + k
  <2>1. p \in DOMAIN local' /\ p \notin DOMAIN local /\ local'[p] = x[k]
    BY <1>1, <1>2
  <2>2. ASSUME NEW i \in DOMAIN local', i \notin DOMAIN local, i # p
        PROVE  ~Mine(local'[i], q)
    <3>1. i - Len(local) \in DOMAIN x /\ i - Len(local) # k /\ local'[i] = x[i - Len(local)]
      BY <1>1, <1>2, <2>2
    <3> QED
      BY <1>6, <3>1
  <2>3. \A i \in DOMAIN local' : \/ i \in DOMAIN local /\ local'[i] = local[i]
                                 \/ i = p \/ ~Mine(local'[i], q)
    BY <1>4, <2>2
  <2> HIDE DEF p
  <2> QED
    BY <1>4, <2>1, <2>3 DEF Adds
<1> QED
  BY <1>3, <1>5, <1>6 DEF Inputs, IsSequence

\* One input at the end.
LEMMA AppendAdds ==
  ASSUME NEW q \in Runs, Inputs(local), NEW e, e.t = "complete" => "run" \in DOMAIN e,
         local' = Append(local, e)
  PROVE  Inputs(local)' /\ Adds(q, e)
<1>1. local' = local \o <<e>>
  BY DEF Inputs, IsSequence
<1> DEFINE x == <<e>>
<1>2. IsSequence(x) /\ DOMAIN x = {1} /\ x[1] = e
  BY ShortSequences
<1>3. local' = local \o x
  BY <1>1
<1> HIDE DEF x
<1> QED
  BY <1>2, <1>3, ConcatAdds

\* The slots and inputs of q after a caller c that did not wait sent e.
LEMMA CleanKept ==
  ASSUME NEW q \in Runs, Clean(q), cache'[q] = cache[q], NEW c \in Callers, NEW e,
         e.t \in {"complete", "post"}, e.run = q, e.chan = c, Adds(q, e), call[c][q] # "sent",
         e.t = "complete" => call'[c][q] = "sent",
         \A d \in Callers : d # c => call'[d][q] = call[d][q]
  PROVE  Clean(q)'
<1>1. /\ \A d : Completing(local, d, q)' <=> Completing(local, d, q) \/ IsComplete(e, d, q)
      /\ \A m, d : IsComplete(m, d, q) \/ IsPost(m, q) => Mine(m, q)
  BY AddsIs
<1>p. PICK p : \A i \in DOMAIN local' :
        Mine(local'[i], q) => \/ i \in DOMAIN local /\ local'[i] = local[i]
                              \/ i = p /\ local'[i] = e
  BY AddsIs
<1>2. /\ Cached(St, q)' <=> Cached(St, q)
      /\ PageOf(St, q)' = PageOf(St, q) /\ LaOf(St, q)' = LaOf(St, q)
      /\ \A d : Stored(St, d, q)' <=> Stored(St, d, q)
  BY KeptIs
<1>3. (Cached(St, q) => IsRecord(cache[q]) /\ IsSlot(cache[q].page) /\ IsSlot(cache[q].laDat))'
  BY <1>2 DEF Clean, IsRecord, IsSlot
<1>4. (PageOf(St, q) = <<>> \/ LaOf(St, q) = <<>>)'
  BY <1>2 DEF Clean
<1>5. \A i \in DOMAIN local' : local'[i].t \in {"complete", "post"} /\ local'[i].run = q
                                 => local'[i].chan \in Callers
  BY <1>p DEF Clean, Mine
<1>6. ASSUME NEW d \in Callers
      PROVE  /\ Completing(local, d, q)' => call'[d][q] = "sent" /\ ~Stored(St, d, q)'
             /\ Stored(St, d, q)' => call'[d][q] = "sent"
             /\ \A i, j \in DOMAIN local' :
                   IsComplete(local'[i], d, q) /\ IsComplete(local'[j], d, q) => i = j
  <2>1. /\ Completing(local, d, q) => call[d][q] = "sent" /\ ~Stored(St, d, q)
        /\ Stored(St, d, q) => call[d][q] = "sent"
        /\ \A i, j \in DOMAIN local :
              IsComplete(local[i], d, q) /\ IsComplete(local[j], d, q) => i = j
    BY DEF Clean
  <2>2. CASE d # c
    BY <1>1, <1>p, <1>2, <2>1, <2>2 DEF IsComplete
  <2>3. CASE d = c
    <3>1. ~Completing(local, c, q) /\ ~Stored(St, c, q)
      BY <2>1, <2>3
    <3>2. \A i \in DOMAIN local' : IsComplete(local'[i], c, q) => i = p
      BY <1>1, <1>p, <3>1 DEF Completing
    <3> QED
      BY <1>1, <1>2, <2>3, <3>1, <3>2 DEF IsComplete
  <2> QED
    BY <2>2, <2>3
<1> QED
  BY <1>3, <1>4, <1>5, <1>6 DEF Clean

\* Lang completes its activation.
LEMMA LangCompletesKeeps ==
  ASSUME NEW q \in Runs, InOrder(q), NEW r \in Runs, LangCompletes(r)
  PROVE  InOrder(q)'
<1>1. PICK ok \in BOOLEAN :
         local' = IF done THEN local
                  ELSE Append(local, [t |-> "complete", run |-> r, chan |-> "lang", ok |-> ok,
                              resp |-> IF lang[r] \in {"legacy", "queries"} THEN lang[r] ELSE "none",
                              nd |-> FALSE])
  BY DEF LangCompletes
<1> DEFINE e == [t |-> "complete", run |-> r, chan |-> "lang", ok |-> ok,
                 resp |-> IF lang[r] \in {"legacy", "queries"} THEN lang[r] ELSE "none",
                 nd |-> FALSE]
<1>2. /\ cache' = cache /\ lru' = lru /\ full' = full /\ acts' = acts /\ done' = done
      /\ asserts' = asserts /\ ignore' = ignore
      /\ lang' = [lang EXCEPT ![r] = "none"] /\ lang[r] # "none"
      /\ call' = [call EXCEPT !["lang"][r] = IF done THEN "idle" ELSE "sent"]
      /\ local' = IF done THEN local ELSE Append(local, e)
  BY <1>1 DEF LangCompletes, stream
<1>3. e.t = "complete" /\ e.run = r /\ e.chan = "lang" /\ "run" \in DOMAIN e
  OBVIOUS
<1> HIDE DEF e
<1>4. Shapes /\ Answered(q)
  BY DEF InOrder
<1>5. /\ r # q => /\ lang'[q] = lang[q]
                  /\ \A c \in Callers : call'[c][q] = call[c][q]
      /\ r = q => /\ lang'[q] = "none" /\ call'["lang"][q] = IF done THEN "idle" ELSE "sent"
                  /\ call'["auto"][q] = call["auto"][q]
  BY <1>2, <1>4 DEF Shapes, Callers
<1>6. "lang" \in Callers
  BY DEF Callers
<1>7. CASE r # q
  <2>1. SameFor(q) /\ Inputs(local)'
    <3>1. ~Mine(e, q)
      BY <1>3, <1>7 DEF Mine
    <3> QED
      BY <1>2, <1>3, <1>4, <3>1, LocalSame, AppendSame DEF Shapes
  <2>2. Shapes'
    BY <1>2, <1>4, <1>6, <2>1, ShapesKept
  <2> QED
    BY <1>2, <1>5, <1>7, <2>1, <2>2, UntouchedKeeps
<1>8. CASE r = q /\ done
  <2>1. Inputs(local)'
    BY <1>2, <1>4, <1>8, LocalSame DEF Shapes
  <2>2. Shapes'
    BY <1>2, <1>4, <1>6, <2>1, ShapesKept
  <2>3. LangBusy(q) /\ Over(q)
    BY <1>2, <1>8 DEF LangBusy, InOrder
  <2>4. (InAuto(q)' => InAuto(q)) /\ (Recorded' <=> Recorded) /\ ActOf(St, q)' = ActOf(St, q)
    BY <1>2, <1>5, <1>8, KeptIs DEF InAuto, Recorded
  <2>5. Over(q)'
    BY <1>2, <2>3, <2>4 DEF Over
  <2> QED
    BY <1>2, <1>8, <2>2, <2>5 DEF InOrder, Answered, Live
<1>9. CASE r = q /\ ~done
  <2>1. local' = Append(local, e) /\ Inputs(local)
    BY <1>2, <1>4, <1>9 DEF Shapes
  <2>a. Inputs(local)' /\ Adds(q, e)
    BY <1>3, <1>9, <2>1, AppendAdds
  <2>2. /\ \A c : Completing(local, c, q)' <=> Completing(local, c, q) \/ IsComplete(e, c, q)
        /\ Posted(local, q)' <=> Posted(local, q) \/ IsPost(e, q)
        /\ AutoPosted(local, q)' <=> AutoPosted(local, q) \/ IsAutoPost(e, q)
        /\ \E p : \A i \in DOMAIN local' :
              Mine(local'[i], q) => \/ i \in DOMAIN local /\ local'[i] = local[i]
                                    \/ i = p /\ local'[i] = e
        /\ \A m, c : IsComplete(m, c, q) \/ IsPost(m, q) => Mine(m, q)
        /\ \A m : IsAutoPost(m, q) => Mine(m, q)
    BY <1>3, <1>9, <2>a, AddsIs
  <2>3. Shapes'
    BY <1>2, <1>4, <1>6, <2>a, ShapesKept
  <2>4. IsComplete(e, "lang", q) /\ ~IsPost(e, q) /\ ~IsComplete(e, "auto", q) /\ ~IsAutoPost(e, q)
    BY <1>3, <1>9 DEF IsComplete, IsPost, IsAutoPost
  <2>5. Answered(q)'
    BY <1>2, <1>4, <1>5, <1>9, <2>2, <2>4, AnsweredKept DEF Callers
  <2>6. ASSUME Live' PROVE RunInvariant(q)'
    <3>1. Live /\ RunInvariant(q)
      BY <1>2, <2>6 DEF InOrder, Live
    <3>2. /\ call["lang"][q] = "idle" /\ ~Posted(local, q) /\ ~ForLang(acts, q) /\ LangBusy(q)
      BY <1>2, <1>9, <3>1 DEF RunInvariant, OneAtLang, LangBusy
    <3>3. Clean(q)'
      BY <1>2, <1>3, <1>5, <1>6, <1>9, <2>a, <3>1, <3>2, CleanKept DEF RunInvariant, Callers
    <3>4. OneAtLang(q)'
      BY <1>2, <1>5, <1>9, <2>2, <2>4, <3>1, <3>2 DEF RunInvariant, OneAtLang, ForLang, Posted
    <3>5. Outstanding(q)'
      BY <1>2, <3>1, <3>2, KeptIs DEF RunInvariant, Outstanding
    <3>6. AutoFirst(q)'
      <4>1. InAutocomplete(q)' => InAutocomplete(q)
        BY <1>2, <2>2, <2>4, KeptIs DEF InAutocomplete
      <4> QED
        BY <1>2, <3>1, <3>2, <4>1 DEF RunInvariant, AutoFirst
    <3>7. AutoCounted(q)'
      <4>1. ASSUME Recorded
            PROVE  \A i, j \in DOMAIN local' :
                      IsAutoPost(local'[i], q) /\ IsAutoPost(local'[j], q) => i = j
        BY <2>2, <2>4, <3>1, <4>1 DEF RunInvariant, AutoCounted, OneInAuto
      <4>2. CASE Recorded
        BY <1>2, <1>5, <1>9, <2>2, <2>4, <3>1, <4>1, <4>2, AutoKept DEF RunInvariant
      <4>3. CASE ~Recorded
        BY <1>2, <4>3 DEF AutoCounted, Recorded
      <4> QED
        BY <4>2, <4>3
    <3> QED
      BY <3>3, <3>4, <3>5, <3>6, <3>7 DEF RunInvariant
  <2> QED
    BY <1>2, <1>9, <2>3, <2>5, <2>6 DEF InOrder
<1> QED
  BY <1>7, <1>8, <1>9

\* A caller that has its answer reports and sends post_activation, after a
\* request to evict the run when the report failed.
LEMMA ReportKeeps ==
  ASSUME NEW q \in Runs, InOrder(q), NEW c \in Callers, NEW r \in Runs, Report(c, r)
  PROVE  InOrder(q)'
<1>1. /\ cache' = cache /\ lru' = lru /\ full' = full /\ acts' = acts /\ lang' = lang
      /\ call' = [call EXCEPT ![c][r] = "idle"] /\ done' = done /\ asserts' = asserts
      /\ ignore' = ignore /\ call[c][r] \notin {"idle", "sent"}
  BY DEF Report, stream
<1>2. \E x : /\ local' = local \o x /\ IsSequence(x)
             /\ \A i \in DOMAIN x : x[i].t \in {"evict", "post"} /\ x[i].run = r
             /\ \A i \in DOMAIN x : x[i].t = "post" => x[i].chan = c
             /\ \A i, j \in DOMAIN x : x[i].t = "post" /\ x[j].t = "post" => i = j
             /\ done => DOMAIN x = {}
  <2> DEFINE out == call[c][r]
             sent == out \in {"Success", "Beat", "Fail"}
             status == IF sent \/ out = "Query" THEN "Reported"
                       ELSE IF out = "Drop" THEN "DropWft" ELSE "NotReported"
             post(w) == [t |-> "post", run |-> r, chan |-> c, wft |-> w, status |-> status]
             v == [t |-> "evict", run |-> r]
             new == [id |-> nextId, run |-> r, kind |-> "task", full |-> FALSE, att |-> 1]
  <2>1. \/ local' = local \o <<>>
        \/ ~done /\ local' = local \o <<post(NoTask)>>
        \/ ~done /\ local' = local \o <<v, post(NoTask)>>
        \/ ~done /\ local' = Append(local, post(new))
    BY DEF Report
  <2>2. \A w : post(w).t = "post" /\ post(w).run = r /\ post(w).chan = c
    OBVIOUS
  <2>3. v.t = "evict" /\ v.run = r
    OBVIOUS
  <2> HIDE DEF post, v, new
  <2>4. CASE local' = local \o <<>>
    <3>1. IsSequence(<<>>) /\ DOMAIN <<>> = {}
      BY ShortSequences
    <3> QED
      BY <2>4, <3>1
  <2>5. ASSUME NEW w, ~done, local' = local \o <<post(w)>>
        PROVE  \E x : /\ local' = local \o x /\ IsSequence(x)
                      /\ \A i \in DOMAIN x : x[i].t \in {"evict", "post"} /\ x[i].run = r
                      /\ \A i \in DOMAIN x : x[i].t = "post" => x[i].chan = c
                      /\ \A i, j \in DOMAIN x : x[i].t = "post" /\ x[j].t = "post" => i = j
                      /\ done => DOMAIN x = {}
    <3> DEFINE x == <<post(w)>>
    <3>1. IsSequence(x) /\ DOMAIN x = {1} /\ x[1] = post(w)
      BY ShortSequences
    <3>2. local' = local \o x
      BY <2>5
    <3> HIDE DEF x
    <3> QED
      BY <2>2, <2>5, <3>1, <3>2
  <2>6. CASE ~done /\ local' = local \o <<v, post(NoTask)>>
    <3> DEFINE x == <<v, post(NoTask)>>
    <3>1. x \in Seq({v, post(NoTask)}) /\ DOMAIN x = {1, 2} /\ x[1] = v /\ x[2] = post(NoTask)
      OBVIOUS
    <3>2. IsSequence(x)
      BY <3>1, IsOne
    <3>3. local' = local \o x
      BY <2>6
    <3> HIDE DEF x
    <3>4. x[1].t = "evict" /\ x[1].run = r /\ x[2].t = "post" /\ x[2].run = r /\ x[2].chan = c
      BY <2>2, <2>3, <3>1
    <3>5. /\ \A i \in DOMAIN x : x[i].t \in {"evict", "post"} /\ x[i].run = r
          /\ \A i \in DOMAIN x : x[i].t = "post" => x[i].chan = c
          /\ \A i, j \in DOMAIN x : x[i].t = "post" /\ x[j].t = "post" => i = j
      BY <3>1, <3>4
    <3> QED
      BY <2>6, <3>2, <3>3, <3>5
  <2>7. CASE ~done /\ local' = Append(local, post(new))
    <3>1. IsSequence(local)
      BY DEF InOrder, Shapes, Inputs
    <3>2. local' = local \o <<post(new)>>
      BY <2>7, <3>1 DEF IsSequence
    <3> QED
      BY <2>5, <2>7, <3>2
  <2> QED
    BY <2>1, <2>4, <2>5, <2>6, <2>7
<1>3. PICK x : /\ local' = local \o x /\ IsSequence(x)
               /\ \A i \in DOMAIN x : x[i].t \in {"evict", "post"} /\ x[i].run = r
               /\ \A i \in DOMAIN x : x[i].t = "post" => x[i].chan = c
               /\ \A i, j \in DOMAIN x : x[i].t = "post" /\ x[j].t = "post" => i = j
               /\ done => DOMAIN x = {}
  BY <1>2
<1>4. Shapes /\ Answered(q) /\ Inputs(local)
  BY DEF InOrder, Shapes
<1>5. /\ Inputs(local)'
      /\ (\A i \in DOMAIN x : ~Mine(x[i], q)) => SameFor(q)
      /\ \A k \in DOMAIN x : (\A i \in DOMAIN x : i # k => ~Mine(x[i], q)) => Adds(q, x[k])
  BY <1>3, <1>4, ConcatAdds
<1>6. Shapes'
  BY <1>1, <1>4, <1>5, ShapesKept
<1>7. /\ \A d \in Callers : call'[d][q] = IF d = c /\ r = q THEN "idle" ELSE call[d][q]
  BY <1>1, <1>4 DEF Shapes
<1>8. CASE \A i \in DOMAIN x : ~Mine(x[i], q)
  BY <1>1, <1>5, <1>6, <1>7, <1>8, UntouchedKeeps
<1>9. CASE \E i \in DOMAIN x : Mine(x[i], q)
  <2>1. PICK k \in DOMAIN x : Mine(x[k], q)
    BY <1>9
  <2> DEFINE e == x[k]
  <2>2. e.t = "post" /\ e.run = q /\ r = q /\ e.chan = c
    BY <1>3, <2>1 DEF Mine
  <2>3. Adds(q, e)
    BY <1>3, <1>5, <2>1, <2>2 DEF Mine
  <2> HIDE DEF e
  <2>4. /\ \A d : Completing(local, d, q)' <=> Completing(local, d, q) \/ IsComplete(e, d, q)
        /\ Posted(local, q)' <=> Posted(local, q) \/ IsPost(e, q)
        /\ AutoPosted(local, q)' <=> AutoPosted(local, q) \/ IsAutoPost(e, q)
        /\ \E p : \A i \in DOMAIN local' :
              Mine(local'[i], q) => \/ i \in DOMAIN local /\ local'[i] = local[i]
                                    \/ i = p /\ local'[i] = e
        /\ \A m, d : IsComplete(m, d, q) \/ IsPost(m, q) => Mine(m, q)
        /\ \A m : IsAutoPost(m, q) => Mine(m, q)
    BY <2>2, <2>3, AddsIs
  <2>5. \A d : ~IsComplete(e, d, q)
    BY <2>2 DEF IsComplete
  <2>6. (IsPost(e, q) <=> c = "lang") /\ (IsAutoPost(e, q) <=> c = "auto")
    BY <2>2 DEF IsPost, IsAutoPost
  <2>7. Answered(q)'
    BY <1>1, <1>4, <1>7, <2>2, <2>4, <2>5, AnsweredKept
  <2>8. ASSUME Live' PROVE RunInvariant(q)'
    <3>1. Live /\ RunInvariant(q)
      BY <1>1, <2>8 DEF InOrder, Live
    <3>2. call[c][q] \notin {"idle", "sent"}
      BY <1>1, <2>2
    <3>3. Clean(q)'
      <4>1. e.t \in {"complete", "post"} /\ e.t # "complete"
        BY <2>2
      <4>2. \A d \in Callers : d # c => call'[d][q] = call[d][q]
        BY <1>7
      <4> QED
        BY <1>1, <2>2, <2>3, <3>1, <3>2, <4>1, <4>2, CleanKept DEF RunInvariant
    <3>4. c = "lang" => /\ lang[q] = "none" /\ ~Posted(local, q) /\ ~ForLang(acts, q) /\ LangBusy(q)
      BY <3>1, <3>2 DEF RunInvariant, OneAtLang, LangBusy
    <3>5. LangBusy(q)' => LangBusy(q)
      BY <1>1, <1>7, <2>4, <2>6, <3>4 DEF LangBusy, Callers
    <3>6. OneAtLang(q)'
      <4>1. \A i, j \in DOMAIN local' : IsPost(local'[i], q) /\ IsPost(local'[j], q) => i = j
        <5>1. PICK p : \A i \in DOMAIN local' :
                Mine(local'[i], q) => \/ i \in DOMAIN local /\ local'[i] = local[i]
                                      \/ i = p /\ local'[i] = e
          BY <2>4
        <5>2. CASE c = "lang"
          BY <2>4, <3>4, <5>1, <5>2 DEF Posted
        <5>3. CASE c # "lang"
          BY <2>4, <2>6, <3>1, <5>1, <5>3 DEF RunInvariant, OneAtLang
        <5> QED
          BY <5>2, <5>3
      <4>2. ForLang(acts, q)' <=> ForLang(acts, q)
        BY <1>1 DEF ForLang
      <4>3. CASE c = "lang"
        BY <1>1, <1>7, <2>2, <3>1, <3>4, <4>1, <4>2, <4>3 DEF RunInvariant, OneAtLang
      <4>4. CASE c # "lang"
        BY <1>1, <1>7, <2>4, <2>6, <3>1, <4>1, <4>2, <4>4 DEF RunInvariant, OneAtLang, Callers
      <4> QED
        BY <4>3, <4>4
    <3>7. Outstanding(q)'
      BY <1>1, <3>1, <3>5, KeptIs DEF RunInvariant, Outstanding, ForLang
    <3>8. AutoFirst(q)'
      <4>1. InAutocomplete(q)' => InAutocomplete(q)
        BY <1>1, <2>4, <2>5, KeptIs DEF InAutocomplete
      <4> QED
        BY <1>1, <3>1, <3>5, <4>1 DEF RunInvariant, AutoFirst
    <3>9. AutoCounted(q)'
      <4>1. CASE ~Recorded
        BY <1>1, <4>1 DEF AutoCounted, Recorded
      <4>2. CASE Recorded
        <5>1. OneInAuto(q) /\ (InAuto(q) => ActOf(St, q) = "Autocomplete")
          BY <3>1, <4>2 DEF RunInvariant, AutoCounted
        <5>2. PICK p : \A i \in DOMAIN local' :
                Mine(local'[i], q) => \/ i \in DOMAIN local /\ local'[i] = local[i]
                                      \/ i = p /\ local'[i] = e
          BY <2>4
        <5>3. CASE c = "auto"
          <6>1. /\ ~ForAuto(acts, q) /\ ~AutoPosted(local, q) /\ InAuto(q)
                /\ call'["auto"][q] = "idle"
            BY <1>7, <2>2, <3>2, <5>1, <5>3 DEF OneInAuto, InAuto
          <6>2. \A i \in DOMAIN local' : IsAutoPost(local'[i], q) => i = p
            BY <2>4, <5>2, <6>1 DEF AutoPosted
          <6>3. ~ForAuto(acts, q)' /\ ActOf(St, q)' = "Autocomplete"
            BY <1>1, <5>1, <6>1, KeptIs DEF ForAuto
          <6>4. OneInAuto(q)'
            BY <6>1, <6>2, <6>3 DEF OneInAuto, ForAuto
          <6> QED
            BY <6>3, <6>4 DEF AutoCounted
        <5>4. CASE c # "auto"
          <6>1. \A i, j \in DOMAIN local' :
                   IsAutoPost(local'[i], q) /\ IsAutoPost(local'[j], q) => i = j
            BY <2>4, <2>6, <5>1, <5>2, <5>4 DEF OneInAuto
          <6>2. call'["auto"][q] = call["auto"][q]
            BY <1>7, <5>4 DEF Callers
          <6> QED
            BY <1>1, <2>4, <2>6, <3>1, <5>4, <6>1, <6>2, AutoKept DEF RunInvariant
        <5> QED
          BY <5>3, <5>4
      <4> QED
        BY <4>1, <4>2
    <3> QED
      BY <3>3, <3>6, <3>7, <3>8, <3>9 DEF RunInvariant
  <2>9. ~done'
    BY <1>1, <1>3, <2>1
  <2> QED
    BY <1>6, <2>7, <2>8, <2>9 DEF InOrder
<1> QED
  BY <1>8, <1>9

\* The poll loop takes the first activation: an automatic one it completes,
\* any other it hands to lang.
LEMMA PollKeeps ==
  ASSUME NEW q \in Runs, InOrder(q), Poll
  PROVE  InOrder(q)'
<1> DEFINE a == acts[1]
           e == [t |-> "complete", run |-> a.run, chan |-> "auto",
                 ok |-> a.kind = "autocomplete", resp |-> "none", nd |-> a.kind = "autofail_nd"]
<1>1. /\ cache' = cache /\ lru' = lru /\ full' = full /\ done' = done /\ asserts' = asserts
      /\ ignore' = ignore
      /\ acts # <<>> /\ acts' = Tail(acts)
      /\ \A r \in Runs : call["auto"][r] = "idle"
      /\ \/ /\ a.kind \in Automatic /\ call' = [call EXCEPT !["auto"][a.run] = "sent"]
            /\ local' = Append(local, e) /\ lang' = lang
         \/ /\ a.kind \notin Automatic /\ lang' = [lang EXCEPT ![a.run] = a.kind]
            /\ call' = call /\ local' = local
  BY DEF Poll, AutoBusy, stream, outside
<1>2. /\ e.t = "complete" /\ e.run = a.run /\ e.chan = "auto" /\ "run" \in DOMAIN e
      /\ e.ok <=> a.kind = "autocomplete"
  OBVIOUS
<1> HIDE DEF e
<1>3. Shapes /\ Answered(q) /\ Inputs(local) /\ IsSequence(acts)
  BY DEF InOrder, Shapes
<1>4. call["auto"][q] = "idle" /\ "auto" \in Callers
  BY <1>1 DEF Callers
<1>5. /\ 1 \in DOMAIN acts
      /\ \A i \in DOMAIN acts' : i + 1 \in DOMAIN acts /\ i \in Nat /\ acts'[i] = acts[i + 1]
  BY <1>1, <1>3, TailIs
<1>6. Live' => Live /\ RunInvariant(q)
  BY <1>1 DEF Live, InOrder
<1>7. ASSUME RunInvariant(q)
      PROVE  /\ \A i, j \in DOMAIN acts' : IsForLang(acts'[i], q) /\ IsForLang(acts'[j], q) => i = j
             /\ ForLang(acts, q)' => ForLang(acts, q)
             /\ \A i \in DOMAIN acts' : IsAutocomplete(acts'[i], q)
                                          => \E j \in DOMAIN acts : IsAutocomplete(acts[j], q)
             /\ \A i, j \in DOMAIN acts' :
                   IsAutocomplete(acts'[i], q) /\ IsForLang(acts'[j], q) => i < j
  <2>1. /\ \A i, j \in DOMAIN acts : IsForLang(acts[i], q) /\ IsForLang(acts[j], q) => i = j
        /\ \A i, j \in DOMAIN acts : IsAutocomplete(acts[i], q) /\ IsForLang(acts[j], q) => i < j
    BY <1>7 DEF RunInvariant, OneAtLang, AutoFirst
  <2>2. \A i, j \in DOMAIN acts' : (i + 1 = j + 1 => i = j) /\ (i + 1 < j + 1 => i < j)
    BY <1>5
  <2>3. ForLang(acts, q)' => ForLang(acts, q)
    BY <1>5 DEF ForLang
  <2> QED
    BY <1>5, <2>1, <2>2, <2>3
<1>a. /\ ForLang(acts, q)' => ForLang(acts, q)
      /\ ForAuto(acts, q)' => ForAuto(acts, q)
      /\ OneInAuto(q) =>
           /\ \A i, j \in DOMAIN acts' : IsAuto(acts'[i], q) /\ IsAuto(acts'[j], q) => i = j
           /\ IsAuto(a, q) => ~ForAuto(acts, q)'
  <2>1. ForLang(acts, q)' => ForLang(acts, q)
    BY <1>5 DEF ForLang
  <2>2. ForAuto(acts, q)' => ForAuto(acts, q)
    BY <1>5 DEF ForAuto
  <2>3. \A i \in DOMAIN acts' : i + 1 # 1 /\ \A j \in DOMAIN acts' : i + 1 = j + 1 => i = j
    BY <1>1, <1>3, <1>5, TailIs, SequenceIs
  <2>4. ASSUME OneInAuto(q), IsAuto(a, q), NEW i \in DOMAIN acts', IsAuto(acts'[i], q) PROVE FALSE
    BY <1>5, <2>3, <2>4 DEF OneInAuto
  <2>5. ASSUME OneInAuto(q), NEW i \in DOMAIN acts', NEW j \in DOMAIN acts',
               IsAuto(acts'[i], q), IsAuto(acts'[j], q)
        PROVE  i = j
    BY <1>5, <2>3, <2>5 DEF OneInAuto
  <2> QED
    BY <2>1, <2>2, <2>4, <2>5 DEF ForAuto
<1>b. /\ ActOf(St, q)' = ActOf(St, q) /\ (Recorded' <=> Recorded) /\ (done' => Over(q))
  BY <1>1, KeptIs DEF Recorded, InOrder
<1>8. CASE a.kind \in Automatic /\ a.run = q
  <2>a. IsAuto(a, q)
    BY <1>8 DEF IsAuto
  <2>b. ForAuto(acts, q) /\ InAuto(q)
    BY <1>5, <1>8 DEF ForAuto, InAuto, IsAuto
  <2>1. /\ call' = [call EXCEPT !["auto"][q] = "sent"] /\ local' = Append(local, e) /\ lang' = lang
    BY <1>1, <1>8
  <2>2. call'["auto"][q] = "sent" /\ \A c \in Callers : c # "auto" => call'[c][q] = call[c][q]
    BY <1>3, <2>1 DEF Shapes, Callers
  <2>3. Inputs(local)' /\ Adds(q, e)
    BY <1>2, <1>3, <2>1, AppendAdds
  <2>4. /\ \A c : Completing(local, c, q)' <=> Completing(local, c, q) \/ IsComplete(e, c, q)
        /\ Posted(local, q)' <=> Posted(local, q) \/ IsPost(e, q)
        /\ AutoPosted(local, q)' <=> AutoPosted(local, q) \/ IsAutoPost(e, q)
        /\ \E p : \A i \in DOMAIN local' :
              Mine(local'[i], q) => \/ i \in DOMAIN local /\ local'[i] = local[i]
                                    \/ i = p /\ local'[i] = e
        /\ \A m, c : IsComplete(m, c, q) \/ IsPost(m, q) => Mine(m, q)
        /\ \A m : IsAutoPost(m, q) => Mine(m, q)
    BY <1>2, <1>8, <2>3, AddsIs
  <2>5. IsComplete(e, "auto", q) /\ ~IsPost(e, q) /\ ~IsAutoPost(e, q)
    BY <1>2, <1>8 DEF IsComplete, IsPost, IsAutoPost
  <2>6. Shapes'
    BY <1>1, <1>3, <1>4, <2>1, <2>3, ShapesKept
  <2>7. Answered(q)'
    BY <1>1, <1>3, <2>2, <2>4, <2>5, AnsweredKept
  <2>8. ASSUME Live' PROVE RunInvariant(q)'
    <3>1. RunInvariant(q)
      BY <1>6, <2>8
    <3>2. Clean(q)'
      BY <1>1, <1>2, <1>4, <1>8, <2>2, <2>3, <3>1, CleanKept DEF RunInvariant
    <3>3. LangBusy(q)' <=> LangBusy(q)
      BY <2>1, <2>2, <2>4, <2>5 DEF LangBusy, Callers
    <3>4. OneAtLang(q)'
      <4>1. \A i, j \in DOMAIN local' : IsPost(local'[i], q) /\ IsPost(local'[j], q) => i = j
        BY <2>4, <2>5, <3>1 DEF RunInvariant, OneAtLang
      <4>2. call'["lang"][q] = call["lang"][q]
        BY <2>2 DEF Callers
      <4> QED
        BY <1>7, <2>1, <2>4, <2>5, <3>1, <4>1, <4>2 DEF RunInvariant, OneAtLang
    <3>5. Outstanding(q)'
      BY <1>1, <1>7, <3>1, <3>3, KeptIs DEF RunInvariant, Outstanding
    <3>6. AutoFirst(q)'
      <4>1. InAutocomplete(q)' => InAutocomplete(q)
        <5>1. ASSUME NEW i \in DOMAIN local', IsComplete(local'[i], "auto", q), local'[i].ok
              PROVE  InAutocomplete(q)
          <6>1. CASE local'[i] = e
            <7>1. IsAutocomplete(a, q)
              BY <1>2, <1>8, <5>1, <6>1 DEF IsAutocomplete
            <7> QED
              BY <1>5, <7>1 DEF InAutocomplete
          <6>2. CASE i \in DOMAIN local /\ local'[i] = local[i]
            BY <5>1, <6>2 DEF InAutocomplete
          <6> QED
            BY <2>4, <5>1, <6>1, <6>2
        <5>2. Stored(St, "auto", q)' => InAutocomplete(q)
          BY <1>1, KeptIs DEF InAutocomplete
        <5>3. (\E i \in DOMAIN acts' : IsAutocomplete(acts'[i], q)) => InAutocomplete(q)
          BY <1>7, <3>1 DEF InAutocomplete
        <5> QED
          BY <5>1, <5>2, <5>3 DEF InAutocomplete
      <4> QED
        BY <1>7, <3>1, <3>3, <4>1 DEF RunInvariant, AutoFirst
    <3>7. ASSUME Recorded PROVE OneInAuto(q)' /\ ActOf(St, q) = "Autocomplete"
      <4>1. OneInAuto(q) /\ ForAuto(acts, q) /\ ActOf(St, q) = "Autocomplete"
        BY <2>a, <2>b, <3>1, <3>7 DEF RunInvariant, AutoCounted
      <4>2. ~ForAuto(acts, q)' /\ ~AutoPosted(local, q)'
        BY <1>a, <2>4, <2>5, <2>a, <4>1 DEF OneInAuto
      <4> QED
        BY <4>1, <4>2 DEF OneInAuto, ForAuto, AutoPosted
    <3>8. AutoCounted(q)'
      BY <1>b, <3>7 DEF AutoCounted
    <3> QED
      BY <3>2, <3>4, <3>5, <3>6, <3>8 DEF RunInvariant
  <2>9. ASSUME done' PROVE Over(q)'
    <3>1. LangBusy(q)' <=> LangBusy(q)
      BY <2>1, <2>2, <2>4, <2>5 DEF LangBusy, Callers
    <3> QED
      BY <1>1, <1>a, <1>b, <2>9, <2>b, <3>1 DEF Over
  <2> QED
    BY <2>6, <2>7, <2>8, <2>9 DEF InOrder
<1>9. CASE ~(a.kind \in Automatic /\ a.run = q)
  <2>1. SameFor(q) /\ Inputs(local)'
    <3>1. CASE local' = local
      BY <1>3, <3>1, LocalSame
    <3>2. CASE local' = Append(local, e) /\ a.run # q
      <4>1. ~Mine(e, q)
        BY <1>2, <3>2 DEF Mine
      <4> QED
        BY <1>2, <1>3, <3>2, <4>1, AppendSame
    <3> QED
      BY <1>1, <1>9, <3>1, <3>2
  <2>2. Shapes'
    BY <1>1, <1>3, <1>4, <2>1, ShapesKept
  <2>3. /\ \A c \in Callers : call'[c][q] = call[c][q]
        /\ lang'[q] = IF IsForLang(a, q) THEN a.kind ELSE lang[q]
    BY <1>1, <1>3, <1>9 DEF Shapes, IsForLang, Callers
  <2>4. /\ \A c : Completing(local, c, q)' <=> Completing(local, c, q)
        /\ Posted(local, q)' <=> Posted(local, q)
        /\ AutoPosted(local, q)' <=> AutoPosted(local, q)
        /\ \A i \in DOMAIN local' : Mine(local'[i], q) => i \in DOMAIN local /\ local'[i] = local[i]
        /\ \A i, c : IsComplete(local'[i], c, q) \/ IsPost(local'[i], q) => Mine(local'[i], q)
        /\ \A i : IsAutoPost(local'[i], q) => Mine(local'[i], q)
    BY <2>1, SameForIs
  <2>5. Answered(q)'
    BY <1>1, <1>3, <2>3, <2>4, AnsweredKept
  <2>6. InAuto(q)' => InAuto(q)
    <3>1. InAuto(q)' => ForAuto(acts, q)' \/ call'["auto"][q] # "idle" \/ AutoPosted(local, q)'
      BY DEF InAuto, ForAuto, IsAuto, AutoPosted, IsAutoPost
    <3>2. ForAuto(acts, q) \/ call["auto"][q] # "idle" \/ AutoPosted(local, q) => InAuto(q)
      BY DEF InAuto, ForAuto, IsAuto, AutoPosted, IsAutoPost
    <3> QED
      BY <1>4, <1>a, <2>3, <2>4, <3>1, <3>2
  <2>7. ASSUME done' PROVE Over(q)'
    <3>1. CASE IsForLang(a, q)
      <4>1. ForLang(acts, q)
        BY <1>5, <3>1 DEF ForLang
      <4> QED
        BY <1>1, <1>b, <2>6, <2>7, <4>1 DEF Over
    <3>2. CASE ~IsForLang(a, q)
      <4>1. LangBusy(q)' <=> LangBusy(q)
        BY <2>3, <2>4, <3>2 DEF LangBusy, Callers
      <4> QED
        BY <1>1, <1>a, <1>b, <2>6, <2>7, <4>1 DEF Over
    <3> QED
      BY <3>1, <3>2
  <2>8. ASSUME Live' PROVE RunInvariant(q)'
    <3>1. RunInvariant(q)
      BY <1>6, <2>8
    <3>2. /\ Cached(St, q)' <=> Cached(St, q)
          /\ ActOf(St, q)' = ActOf(St, q)
          /\ PageOf(St, q)' = PageOf(St, q) /\ LaOf(St, q)' = LaOf(St, q)
          /\ \A c : Stored(St, c, q)' <=> Stored(St, c, q)
      BY <1>1, KeptIs
    <3>3. Clean(q)'
      <4>1. (Cached(St, q) => IsRecord(cache[q]) /\ IsSlot(cache[q].page) /\ IsSlot(cache[q].laDat))'
        BY <1>1, <3>1, <3>2 DEF RunInvariant, Clean, IsRecord, IsSlot
      <4>2. (PageOf(St, q) = <<>> \/ LaOf(St, q) = <<>>)'
        BY <3>1, <3>2 DEF RunInvariant, Clean
      <4>3. \A i \in DOMAIN local' : local'[i].t \in {"complete", "post"} /\ local'[i].run = q
                                       => local'[i].chan \in Callers
        BY <2>4, <3>1 DEF RunInvariant, Clean, Mine
      <4>4. ASSUME NEW c \in Callers
            PROVE  /\ Completing(local, c, q)' => call'[c][q] = "sent" /\ ~Stored(St, c, q)'
                   /\ Stored(St, c, q)' => call'[c][q] = "sent"
                   /\ \A i, j \in DOMAIN local' :
                         IsComplete(local'[i], c, q) /\ IsComplete(local'[j], c, q) => i = j
        BY <2>3, <2>4, <3>1, <3>2 DEF RunInvariant, Clean
      <4> QED
        BY <4>1, <4>2, <4>3, <4>4 DEF Clean
    <3>4. \A i, j \in DOMAIN local' : IsPost(local'[i], q) /\ IsPost(local'[j], q) => i = j
      BY <2>4, <3>1 DEF RunInvariant, OneAtLang
    <3>5. call'["lang"][q] = call["lang"][q]
      BY <2>3 DEF Callers
    <3>6. InAutocomplete(q)' => InAutocomplete(q)
      BY <1>7, <2>4, <3>1, <3>2 DEF InAutocomplete
    <3>a. AutoCounted(q)'
      <4>1. ASSUME Recorded PROVE OneInAuto(q)'
        <5>1. OneInAuto(q)
          BY <3>1, <4>1 DEF RunInvariant, AutoCounted
        <5>2. \A i, j \in DOMAIN local' :
                 IsAutoPost(local'[i], q) /\ IsAutoPost(local'[j], q) => i = j
          BY <2>4, <5>1 DEF OneInAuto
        <5> QED
          BY <1>4, <1>a, <2>3, <2>4, <5>1, <5>2 DEF OneInAuto
      <4> QED
        BY <1>b, <2>6, <3>1, <4>1 DEF RunInvariant, AutoCounted
    <3>7. CASE ~IsForLang(a, q)
      <4>1. LangBusy(q)' <=> LangBusy(q)
        BY <2>3, <2>4, <3>5, <3>7 DEF LangBusy
      <4>2. OneAtLang(q)'
        BY <1>7, <2>3, <2>4, <3>1, <3>4, <3>5, <3>7 DEF RunInvariant, OneAtLang
      <4>3. Outstanding(q)'
        BY <1>7, <3>1, <3>2, <4>1 DEF RunInvariant, Outstanding
      <4>4. AutoFirst(q)'
        BY <1>7, <3>1, <3>6, <4>1 DEF RunInvariant, AutoFirst
      <4> QED
        BY <3>3, <3>a, <4>2, <4>3, <4>4 DEF RunInvariant
    <3>8. CASE IsForLang(a, q)
      <4>1. ForLang(acts, q)
        BY <1>5, <3>8 DEF ForLang
      <4>2. /\ lang[q] = "none" /\ call["lang"][q] = "idle" /\ ~Posted(local, q)
            /\ ActOf(St, q) \notin {"none", "Autocomplete"}
        BY <3>1, <4>1 DEF RunInvariant, OneAtLang, Outstanding
      <4>3. ~ForLang(acts, q)'
        <5>1. ASSUME NEW i \in DOMAIN acts', IsForLang(acts'[i], q) PROVE FALSE
          <6>1. i + 1 = 1 /\ i \in Nat
            BY <1>5, <3>1, <3>8, <5>1 DEF RunInvariant, OneAtLang
          <6>2. i = 0 /\ IsSequence(acts')
            BY <1>1, <1>3, <6>1, TailIs
          <6> QED
            BY <5>1, <6>2, SequenceIs
        <5> QED
          BY <5>1 DEF ForLang
      <4>4. ~InAutocomplete(q)'
        <5>1. ASSUME NEW i \in DOMAIN acts', IsAutocomplete(acts'[i], q) PROVE FALSE
          <6>1. i + 1 < 1 /\ i \in Nat
            BY <1>5, <3>1, <3>8, <5>1 DEF RunInvariant, AutoFirst
          <6> QED
            BY <6>1
        <5>2. ~Completing(local, "auto", q) /\ ~Stored(St, "auto", q)
          BY <1>4, <3>1 DEF RunInvariant, Clean
        <5> QED
          BY <2>4, <3>2, <5>1, <5>2 DEF InAutocomplete, Completing
      <4>5. OneAtLang(q)'
        BY <1>7, <2>4, <3>1, <3>4, <3>5, <4>2, <4>3 DEF RunInvariant, OneAtLang
      <4>6. Outstanding(q)'
        BY <3>2, <4>2 DEF Outstanding
      <4>7. AutoFirst(q)'
        BY <1>7, <3>1, <4>4 DEF AutoFirst
      <4> QED
        BY <3>3, <3>a, <4>5, <4>6, <4>7 DEF RunInvariant
    <3> QED
      BY <3>7, <3>8
  <2> QED
    BY <2>2, <2>5, <2>8, <2>7 DEF InOrder
<1> QED
  BY <1>8, <1>9

----------------------------------------------------------------------------
(* The theorems.                                                           *)

\* Nothing is under way when the stream starts.
LEMMA InitInOrder ==
  ASSUME Init, NEW q \in Runs
  PROVE  InOrder(q)
<1>1. /\ local = <<>> /\ acts = <<>> /\ lru = <<>> /\ full = <<>>
      /\ cache = [r \in Runs |-> NoRun] /\ lang = [r \in Runs |-> "none"]
      /\ call = [c \in Callers |-> [r \in Runs |-> "idle"]] /\ ~done
  BY DEF Init
<1>2. IsSequence(<<>>) /\ DOMAIN <<>> = {}
  BY ShortSequences
<1>3. Shapes
  BY <1>1, <1>2 DEF Shapes, Inputs
<1>4. ~Cached(St, q)
  BY <1>1 DEF Cached, St, NoRun
<1>5. PageOf(St, q) = <<>> /\ LaOf(St, q) = <<>> /\ \A c : ~Stored(St, c, q)
  BY <1>4 DEF PageOf, LaOf, Stored, Keeps
<1>6. \A c \in Callers : call[c][q] = "idle"
  BY <1>1
<1>7. /\ lang[q] = "none" /\ call["lang"][q] = "idle"
  BY <1>1, <1>6 DEF Callers
<1>8. DOMAIN local = {} /\ DOMAIN acts = {}
  BY <1>1, <1>2
<1>9. Clean(q)
  BY <1>4, <1>5, <1>6, <1>8 DEF Clean, Completing
<1>10. OneAtLang(q) /\ Outstanding(q) /\ AutoFirst(q)
  BY <1>7, <1>8 DEF OneAtLang, Outstanding, AutoFirst, LangBusy, ForLang, Posted
<1>11. call["auto"][q] = "idle"
  BY <1>6 DEF Callers
<1>12. AutoCounted(q)
  BY <1>8, <1>11 DEF AutoCounted, OneInAuto, InAuto, ForAuto, AutoPosted
<1> QED
  BY <1>1, <1>3, <1>6, <1>9, <1>10, <1>12 DEF InOrder, Answered, RunInvariant

\* A poll that was dropped stays so.
LEMMA DroppedGrows ==
  ASSUME [Next]_vars
  PROVE  dropped \subseteq dropped'
<1>1. CASE StreamNext
  <2>1. \A s, o, cost : StreamStep(s, o, cost) => dropped' = dropped
    BY DEF StreamStep, Publish
  <2>2. CASE Completion \/ PostActivation \/ EvictRequest
    BY <2>1, <2>2 DEF Completion, PostActivation, EvictRequest
  <2>3. CASE Heartbeat \/ LaResolved \/ Bump
    BY <2>1, <2>3 DEF Heartbeat, LaResolved, Bump
  <2>4. CASE NewWft \/ FailedPoll
    BY <2>1, <2>4 DEF NewWft, FailedPoll
  <2>5. CASE \E f \in fetch : FetchDone(f) \/ FetchFailed(f)
    BY <2>1, <2>5 DEF FetchDone, FetchFailed
  <2> QED
    BY <1>1, <2>2, <2>3, <2>4, <2>5 DEF StreamNext
<1>2. CASE Poll \/ InitiateShutdown \/ Ended \/ UNCHANGED vars
  BY <1>2 DEF Poll, InitiateShutdown, Ended, stream, vars
<1>3. CASE \E r \in Runs : \/ PollDropped(r) \/ WftTimesOut(r) \/ LangCompletes(r)
                           \/ LaFinishes(r) \/ TimerFires(r)
  BY <1>3 DEF PollDropped, WftTimesOut, LangCompletes, LaFinishes, TimerFires, stream
<1>4. CASE \E c \in Callers, r \in Runs : Report(c, r) \/ Orphaned(c, r)
  BY <1>4 DEF Report, Orphaned, stream
<1> QED
  BY <1>1, <1>2, <1>3, <1>4 DEF Next

\* A poll that is dropped now is of a run that counts as dropped from now on.
LEMMA PollDroppedCounts ==
  ASSUME NEW r \in Runs, PollDropped(r)
  PROVE  r \in dropped'
BY DEF PollDropped

\* Every step keeps the run in order, unless it is one that drops its poll.
LEMMA NextInOrder ==
  ASSUME NEW q \in Runs, InOrder(q), [Next]_vars, q \notin dropped'
  PROVE  InOrder(q)'
<1>1. CASE Completion
  BY <1>1, CompletionKeeps
<1>2. CASE PostActivation
  BY <1>2, PostActivationKeeps
<1>3. CASE EvictRequest
  BY <1>3, EvictRequestKeeps
<1>4. CASE Heartbeat
  BY <1>4, HeartbeatKeeps
<1>5. CASE LaResolved
  BY <1>5, LaResolvedKeeps
<1>6. CASE Bump \/ NewWft \/ FailedPoll
  BY <1>6, NewWftKeeps
<1>7. CASE \E f \in fetch : FetchDone(f) \/ FetchFailed(f)
  BY <1>7, FetchKeeps
<1>8. CASE Poll
  BY <1>8, PollKeeps
<1>9. ASSUME NEW r \in Runs, PollDropped(r) PROVE InOrder(q)'
  BY <1>9, PollDroppedKeeps, PollDroppedCounts
<1>10. ASSUME NEW r \in Runs, LangCompletes(r) PROVE InOrder(q)'
  BY <1>10, LangCompletesKeeps
<1>11. CASE \/ \E r \in Runs : WftTimesOut(r) \/ LaFinishes(r) \/ TimerFires(r)
            \/ InitiateShutdown \/ UNCHANGED vars
  BY <1>11, SurroundingsKeep
<1>12. ASSUME NEW c \in Callers, NEW r \in Runs, Report(c, r) PROVE InOrder(q)'
  BY <1>12, ReportKeeps
<1>13. ASSUME NEW c \in Callers, NEW r \in Runs, Orphaned(c, r) PROVE InOrder(q)'
  BY <1>13, OrphanedKeeps
<1>14. Ended => UNCHANGED vars
  BY DEF Ended
<1> QED
  BY <1>1, <1>2, <1>3, <1>4, <1>5, <1>6, <1>7, <1>8, <1>9, <1>10, <1>11, <1>12, <1>13, <1>14
     DEF Next, StreamNext

\* The inductive invariant: the completions of every run whose polls were not
\* dropped are in one place each, lang has one activation of it at most, and
\* an automatic completion never waits in the run beside one of lang.
THEOREM InvariantHolds == Spec => []Invariant
<1>1. Init => Invariant
  BY InitInOrder DEF Invariant
<1>2. Invariant /\ [Next]_vars => Invariant'
  <2>1. SUFFICES ASSUME Invariant, [Next]_vars, NEW q \in Runs, q \notin dropped'
                 PROVE  InOrder(q)'
    BY DEF Invariant
  <2>2. InOrder(q)
    BY <2>1, DroppedGrows DEF Invariant
  <2> QED
    BY <2>1, <2>2, NextInOrder
<1> QED
  BY <1>1, <1>2, PTL DEF Spec

\* A call that was sent is on its way to the stream or kept by the run.
LEMMA InvariantAnswers ==
  ASSUME Invariant
  PROVE  CallerWillBeAnswered
<1>1. SUFFICES ASSUME NEW c \in Callers, NEW r \in Runs, call[c][r] = "sent", ~done, r \notin dropped
               PROVE  Completing(local, c, r) \/ Waits(c, r)
  BY DEF CallerWillBeAnswered, Completing, IsComplete, Waits
<1> QED
  BY <1>1 DEF Invariant, InOrder, Answered

\* Whatever tasks, completions, fetches, local activities and timers come in,
\* and in whatever order, a caller of activation_completed that waits for the
\* outcome gets it: its completion is still on the way to the stream, or the
\* run keeps its channel, until the stream ends (run_cache.rs, managed_run.rs:
\* no handler overwrites or forgets a reply channel, and no run is removed
\* from the cache that keeps one).
THEOREM CallersAnswered == Spec => []CallerWillBeAnswered
BY InvariantHolds, InvariantAnswers, PTL

\* A set of positions of which no two differ has one member at most.
LEMMA AtMostOne ==
  ASSUME NEW S, \A i, j \in S : i = j
  PROVE  Cardinality(S) \in {0, 1} /\ (Cardinality(S) = 1 => \E i : i \in S)
<1>1. CASE S = {}
  BY <1>1, FS_EmptySet
<1>2. CASE S # {}
  <2>1. PICK x : x \in S
    BY <1>2
  <2>2. S = {x}
    BY <2>1
  <2> QED
    BY <2>2, FS_Singleton
<1> QED
  BY <1>1, <1>2

\* Between two post_activations of lang's completions of a run the stream sends
\* lang one activation of it at most: lang, the channel to it, its completion
\* call and its post_activation together never hold two, as long as the stream
\* runs and no poll of the run was dropped.
THEOREM OneActivationAtLang ==
  Spec => [](~done /\ "two_activations" \notin asserts => \A r \in Runs \ dropped : AtLang(r) <= 1)
<1>1. ASSUME Invariant, ~done, "two_activations" \notin asserts, NEW r \in Runs \ dropped
      PROVE  AtLang(r) <= 1
  <2> DEFINE A == {i \in DOMAIN acts : acts[i].run = r /\ acts[i].kind \notin Automatic}
             P == {i \in DOMAIN local : local[i].t = "post" /\ local[i].run = r
                                          /\ local[i].chan = "lang"}
  <2>1. OneAtLang(r)
    BY <1>1 DEF Invariant, InOrder, Live, RunInvariant
  <2>2. (\A i, j \in A : i = j) /\ (\A i, j \in P : i = j)
    BY <2>1 DEF OneAtLang, IsForLang, IsPost
  <2>3. /\ (\E i : i \in A) => ForLang(acts, r)
        /\ (\E i : i \in P) => Posted(local, r)
    BY DEF ForLang, Posted, IsForLang, IsPost
  <2>4. AtLang(r) = Cardinality(A) + (IF lang[r] # "none" THEN 1 ELSE 0)
                      + (IF call["lang"][r] # "idle" THEN 1 ELSE 0) + Cardinality(P)
    BY DEF AtLang
  <2> HIDE DEF A, P
  <2>5. /\ Cardinality(A) \in {0, 1} /\ (Cardinality(A) = 1 => ForLang(acts, r))
        /\ Cardinality(P) \in {0, 1} /\ (Cardinality(P) = 1 => Posted(local, r))
    BY <2>2, <2>3, AtMostOne
  <2> QED
    BY <2>1, <2>4, <2>5 DEF OneAtLang
<1>2. Invariant =>
        (~done /\ "two_activations" \notin asserts => \A r \in Runs \ dropped : AtLang(r) <= 1)
  BY <1>1
<1> QED
  BY <1>2, InvariantHolds, PTL

\* Nobody has an activation of r when nobody has any part of it.
LEMMA NoneAtLang ==
  ASSUME NEW r \in Runs, ~LangBusy(r), ~ForLang(acts, r)
  PROVE  AtLang(r) = 0
<1> DEFINE A == {i \in DOMAIN acts : acts[i].run = r /\ acts[i].kind \notin Automatic}
           P == {i \in DOMAIN local : local[i].t = "post" /\ local[i].run = r
                                        /\ local[i].chan = "lang"}
<1>1. A = {} /\ P = {}
  BY DEF LangBusy, ForLang, Posted, IsForLang, IsPost
<1>2. AtLang(r) = Cardinality(A) + (IF lang[r] # "none" THEN 1 ELSE 0)
                    + (IF call["lang"][r] # "idle" THEN 1 ELSE 0) + Cardinality(P)
  BY DEF AtLang
<1> HIDE DEF A, P
<1> QED
  BY <1>1, <1>2, FS_EmptySet DEF LangBusy

\* A run that is over when the stream ends is what ShutdownWaits asks for.
LEMMA InvariantWaits ==
  ASSUME Invariant
  PROVE  ShutdownWaits
<1>1. SUFFICES ASSUME done, asserts \cap Trouble = {}, NEW r \in Runs \ dropped
               PROVE  /\ ~InAuto(r)
                      /\ AtLang(r) = 0 \/ (ignore /\ cache[r].act = "Eviction")
  BY DEF ShutdownWaits
<1>2. Over(r) /\ Recorded
  BY <1>1 DEF Invariant, InOrder, Recorded, Trouble
<1>3. ActOf(St, r) = "Eviction" => cache[r].act = "Eviction"
  BY DEF ActOf, St
<1> QED
  BY <1>1, <1>2, <1>3, NoneAtLang DEF Over

\* The stream ends on shutdown only when nobody outside works for it
\* (shutdown_done in workflow_stream.rs, has_any_pending_work in
\* managed_run.rs): in whatever order completions, reports, evictions and new
\* tasks come in around the shutdown, lang has no activation, no completion
\* call and no post_activation of a run left, but for evictions that are to be
\* ignored, and the poll loop has none that it completes by itself.
THEOREM StreamWaitsForAll == Spec => []ShutdownWaits
BY InvariantHolds, InvariantWaits, PTL

----------------------------------------------------------------------------
(* Types, and the bound of the cache.                                      *)

\* A slot for one completion, of a caller that may have gone away.
IsKept(x) ==
  x = <<>> \/ (DOMAIN x = {1} /\ "chan" \in DOMAIN x[1] /\ x[1].chan \in Chans)

\* The tasks that wait in a run for the one it works on.
IsBuffer(b) == b \in [wft : Tasks \cup {NoTask}, q : Seq(Tasks), qb : Seq(Tasks)]

IsManaged(h) ==
  /\ IsRecord(h) /\ h.run = "cached"
  /\ h.wft \in [id : 0 .. MaxTasks, att : 1 .. 2, q : {"none", "queries", "legacy"}]
  /\ h.act \in {"none", "Normal", "LegacyQuery", "Eviction", "Autocomplete"}
  /\ h.evict \in [why : {"none", "soft", "hard", "page", "unspec"}, tt : Nat]
  /\ h.las \in 0 .. MaxLAs /\ h.la \in {"none", "wait", "hb"}
  /\ h.la = "wait" <=> h.laDat # <<>>
  /\ IsKept(h.laDat) /\ IsKept(h.page) /\ IsBuffer(h.buf)

\* The LRU order lists the runs of a set, once each, and not more than the
\* cache has room for.
IsLru(x, R) ==
  /\ IsSequence(x) /\ LruSize \in Nat /\ Len(x) <= LruSize /\ Range(x) = R
  /\ \A i, j \in DOMAIN x : x[i] = x[j] => i = j

IsBacklog(x) == IsSequence(x) /\ \A i \in DOMAIN x : x[i] \in Seq(Tasks) /\ x[i] # <<>>

IsFetch(f) ==
  /\ f.run \in Runs /\ f.wft \in Tasks \cup {NoTask}
  /\ f.what = "page" <=> f.wft = NoTask

AreActs(x) ==
  IsSequence(x) /\ \A i \in DOMAIN x : x[i].kind \in LangActs \cup Automatic /\ x[i].run \in Runs

AreReplies(R) == \A x \in R : x.chan \in Chans /\ x.outcome \in Outcomes \cup {"Lost"}

Typed(s) ==
  /\ DOMAIN s = DOMAIN St /\ DOMAIN s.cache = Runs
  /\ \A r \in Runs : s.cache[r] = NoRun \/ IsManaged(s.cache[r])
  /\ IsLru(s.lru, CachedRuns(s))
  /\ IsBacklog(s.full) /\ (\A f \in s.fetch : IsFetch(f)) /\ s.timer \in [Runs -> BOOLEAN]
  /\ AreActs(s.out) /\ AreReplies(s.rep)

\* A cached run is one.
LEMMA CachedIs ==
  ASSUME NEW s, Typed(s), NEW r \in Runs
  PROVE  Cached(s, r) <=> IsManaged(s.cache[r])
BY DEF Typed, Cached, IsManaged, NoRun

\* A cached run after another that is cached.
LEMMA SetTyped ==
  ASSUME NEW s, Typed(s), NEW r \in Runs, Cached(s, r), NEW h, IsManaged(h)
  PROVE  /\ Typed(Set(s, r, h)) /\ Cached(Set(s, r, h), r) /\ Set(s, r, h).cache[r] = h
         /\ Set(s, r, h).out = s.out
<1> DEFINE t == Set(s, r, h)
<1>1. /\ DOMAIN t = DOMAIN St /\ DOMAIN t.cache = Runs
      /\ \A q \in Runs : t.cache[q] = IF r = q THEN h ELSE s.cache[q]
      /\ t.lru = s.lru /\ t.full = s.full /\ t.fetch = s.fetch /\ t.timer = s.timer
      /\ t.out = s.out /\ t.rep = s.rep
  BY DEF Set, Typed, St
<1> HIDE DEF t
<1>2. \A q \in Runs : Cached(t, q) <=> Cached(s, q)
  BY <1>1 DEF Cached, IsManaged
<1>3. CachedRuns(t) = CachedRuns(s)
  BY <1>2 DEF CachedRuns
<1>4. Typed(t)
  BY <1>1, <1>3 DEF Typed
<1> QED
  BY <1>1, <1>2, <1>4 DEF t

\* The cache as it is, the rest of its type.
LEMMA RestTyped ==
  ASSUME NEW s, Typed(s), NEW t, DOMAIN t = DOMAIN St, t.cache = s.cache, t.lru = s.lru,
         IsBacklog(t.full), \A f \in t.fetch : IsFetch(f), t.timer \in [Runs -> BOOLEAN],
         AreActs(t.out), AreReplies(t.rep)
  PROVE  Typed(t) /\ \A r \in Runs : Cached(t, r) <=> Cached(s, r)
<1>1. CachedRuns(t) = CachedRuns(s)
  BY DEF CachedRuns, Cached
<1> QED
  BY <1>1 DEF Typed, Cached

\* An assertion that fails is noted, and that is all.
LEMMA NoteTyped ==
  ASSUME NEW s, Typed(s), NEW a
  PROVE  /\ Typed(Note(s, a)) /\ Note(s, a).cache = s.cache /\ Note(s, a).out = s.out
         /\ \A r \in Runs : Cached(Note(s, a), r) <=> Cached(s, r)
<1> DEFINE t == Note(s, a)
<1>1. /\ DOMAIN t = DOMAIN St /\ t.cache = s.cache /\ t.lru = s.lru /\ t.full = s.full
      /\ t.fetch = s.fetch /\ t.timer = s.timer /\ t.out = s.out /\ t.rep = s.rep
  BY DEF Note, Typed, St
<1> HIDE DEF t
<1>2. Typed(t) /\ \A r \in Runs : Cached(t, r) <=> Cached(s, r)
  BY <1>1, RestTyped DEF Typed
<1> QED
  BY <1>1, <1>2 DEF t

\* What goes out is one of a run of the worker.
LEMMA SentTyped ==
  ASSUME NEW s, Typed(s), NEW r \in Runs, NEW a \in LangActs \cup Automatic
  PROVE  LET t == [s EXCEPT !.out = Append(@, [run |-> r, kind |-> a])]
         IN  Typed(t) /\ t.cache = s.cache
<1> DEFINE e == [run |-> r, kind |-> a]
           t == [s EXCEPT !.out = Append(@, e)]
<1>1. /\ DOMAIN t = DOMAIN St /\ t.cache = s.cache /\ t.lru = s.lru /\ t.full = s.full
      /\ t.fetch = s.fetch /\ t.timer = s.timer /\ t.out = Append(s.out, e) /\ t.rep = s.rep
  BY DEF Typed, St
<1>2. AreActs(Append(s.out, e))
  <2>1. IsSequence(s.out)
    BY DEF Typed, AreActs
  <2>2. e.run = r /\ e.kind = a
    OBVIOUS
  <2> HIDE DEF e
  <2> QED
    BY <2>1, <2>2, AppendIs DEF Typed, AreActs
<1> HIDE DEF t, e
<1>3. Typed(t)
  BY <1>1, <1>2, RestTyped DEF Typed
<1> QED
  BY <1>1, <1>3 DEF t, e

\* insert_outstanding_activation.
LEMMA InsertTyped ==
  ASSUME NEW s, Typed(s), NEW r \in Runs, Cached(s, r), NEW a \in LangActs \cup Automatic
  PROVE  Typed(Insert(s, r, a)) /\ Cached(Insert(s, r, a), r)
<1> DEFINE h == s.cache[r]
           g == [h EXCEPT !.act = OutstandingKind(a)]
           u == Set(s, r, g)
           t == [u EXCEPT !.out = Append(@, [run |-> r, kind |-> a])]
<1>1. IsManaged(g)
  <2>1. IsManaged(h)
    BY CachedIs
  <2>2. OutstandingKind(a) \in {"none", "Normal", "LegacyQuery", "Eviction", "Autocomplete"}
    BY DEF OutstandingKind, LangActs, Automatic
  <2> QED
    BY <2>1, <2>2 DEF IsManaged, IsRecord, NewRun
<1>2. Typed(u) /\ Cached(u, r)
  BY <1>1, SetTyped
<1> HIDE DEF u
<1>3. Typed(t) /\ t.cache = u.cache
  BY <1>2, SentTyped
<1>4. Insert(s, r, a) \in {t, Note(t, "two_activations")}
  BY DEF Insert, t, u
<1> HIDE DEF t
<1>5. Cached(t, r)
  BY <1>2, <1>3 DEF Cached
<1> QED
  BY <1>3, <1>4, <1>5, NoteTyped

\* What a handler chooses to send; queries only when the task has some.
IsChoice(a, h) ==
  /\ a \in {"none", "broken", "jobs", "readyq", "evict", "autocomplete", "autofail"}
  /\ a = "readyq" => h.wft.q # "none"

\* _check_more_activations.
LEMMA CheckMoreTyped ==
  ASSUME NEW h, IsManaged(h), NEW o
  PROVE  IsManaged(AfterCheckMore(h, o)) /\ IsChoice(CheckMore(h, o), AfterCheckMore(h, o))
<1>1. IsManaged(CancelLAs(h, o))
  <2>1. CASE h.evict.why # "none" /\ h.las > 0 /\ o.cancelled
    <3> DEFINE g == [h EXCEPT !.las = @ - 1, !.jobs = TRUE]
    <3>1. CancelLAs(h, o) = g
      BY <2>1 DEF CancelLAs
    <3>2. h.las - 1 \in 0 .. MaxLAs
      BY <2>1, WorkflowRunsAssumption DEF IsManaged
    <3>3. IsManaged(g)
      BY <3>2 DEF IsManaged, IsRecord, NewRun
    <3> QED
      BY <3>1, <3>3
  <2>2. CASE ~(h.evict.why # "none" /\ h.las > 0 /\ o.cancelled)
    BY <2>2 DEF CancelLAs
  <2> QED
    BY <2>1, <2>2
<1> DEFINE g == CancelLAs(h, o)
<1>2. IsManaged([g EXCEPT !.jobs = FALSE]) /\ [g EXCEPT !.jobs = FALSE].wft = g.wft
  <2> HIDE DEF g
  <2>1. IsManaged(g)
    BY <1>1 DEF g
  <2> QED
    BY <2>1 DEF IsManaged, IsRecord, NewRun
<1>b. IsManaged([h EXCEPT !.broken = TRUE])
  BY DEF IsManaged, IsRecord, NewRun
<1>3. AfterCheckMore(h, o) \in {h, g, [g EXCEPT !.jobs = FALSE], [h EXCEPT !.broken = TRUE]}
  BY DEF AfterCheckMore
<1>4. CheckMore(h, o) \in {"none", "broken", "jobs", "readyq", "evict"}
  BY DEF CheckMore
<1>5. CheckMore(h, o) = "readyq" => g.wft.q # "none" /\ AfterCheckMore(h, o) = g
  BY DEF CheckMore, AfterCheckMore
<1> QED
  BY <1>1, <1>2, <1>b, <1>3, <1>4, <1>5 DEF IsChoice

\* The first part of update_to_acts: what goes out is an activation.
LEMMA SettleTyped ==
  ASSUME NEW s, Typed(s), NEW r \in Runs, Cached(s, r), NEW a, IsChoice(a, s.cache[r]), NEW o
  PROVE  LET t == Settle(s, r, a, o)
         IN  /\ Typed(t.s) /\ Cached(t.s, r)
             /\ t.act \in {"none", "broken"} \cup LangActs \cup Automatic
<1> DEFINE h == s.cache[r]
           check == a = "none" /\ MorePendingWork(h)
           g == IF check THEN AfterCheckMore(h, o) ELSE h
           c == IF check THEN CheckMore(h, o) ELSE a
           b == Chosen(g, c)
           k == IF b \in {"queries", "legacy"} THEN [g EXCEPT !.wft.q = "none"] ELSE g
<1>1. IsManaged(h)
  BY CachedIs
<1>2. IsManaged(g) /\ IsChoice(c, g)
  BY <1>1, CheckMoreTyped
<1>3. Settle(s, r, a, o) = [act |-> b, s |-> Set(s, r, k)]
  BY DEF Settle
<1> HIDE DEF g, c
<1>4. b \in {"none", "broken"} \cup LangActs \cup Automatic
  BY <1>2 DEF Chosen, IsChoice, LangActs, Automatic, IsManaged
<1>5. IsManaged(k)
  <2>1. IsManaged([g EXCEPT !.wft.q = "none"])
    BY <1>2 DEF IsManaged, IsRecord, NewRun
  <2> QED
    BY <1>2, <2>1
<1> HIDE DEF b, k
<1>6. Typed(Set(s, r, k)) /\ Cached(Set(s, r, k), r)
  BY <1>5, SetTyped
<1> QED
  BY <1>3, <1>4, <1>6

\* An AutoFail goes out.
LEMMA AutoFailTyped ==
  ASSUME NEW s, Typed(s), NEW r \in Runs, Cached(s, r), NEW nd
  PROVE  Typed(AutoFail(s, r, nd)) /\ Cached(AutoFail(s, r, nd), r)
<1> DEFINE n == Note(s, "unrecorded_autofail")
           a == IF nd THEN "autofail_nd" ELSE "autofail"
           t == [n EXCEPT !.out = Append(@, [run |-> r, kind |-> a])]
<1>1. Typed(n) /\ Cached(n, r)
  BY NoteTyped
<1>2. a \in LangActs \cup Automatic
  BY DEF Automatic
<1> HIDE DEF n, a
<1>3. Typed(t) /\ t.cache = n.cache
  BY <1>1, <1>2, SentTyped
<1>4. AutoFail(s, r, nd) = t
  BY DEF AutoFail, n, a
<1> HIDE DEF t
<1> QED
  BY <1>1, <1>3, <1>4 DEF Cached

\* The rest of it.
LEMMA EmitTyped ==
  ASSUME NEW t, NEW r \in Runs, Typed(t.s), Cached(t.s, r),
         t.act \in {"none", "broken"} \cup LangActs \cup Automatic
  PROVE  Typed(Emit(t, r)) /\ Cached(Emit(t, r), r)
BY InsertTyped, AutoFailTyped DEF Emit

\* Why a run is evicted.
Whys == {"soft", "hard", "page", "unspec"}

\* An eviction is requested.
LEMMA EvictBasicTyped ==
  ASSUME NEW s, Typed(s), NEW r \in Runs, Cached(s, r), NEW why \in Whys, NEW tt \in Nat, NEW o
  PROVE  Typed(EvictBasic(s, r, why, tt, o)) /\ Cached(EvictBasic(s, r, why, tt, o), r)
<1> DEFINE h == s.cache[r]
           g == IF why # "soft" /\ ~PendingWorkIsLegacyQuery(h)
                THEN [h EXCEPT !.wft.q = "none"] ELSE h
           x == [why |-> why, tt |-> tt]
           e == [g EXCEPT !.evict = x]
           k == [h EXCEPT !.evict = x]
<1>1. IsManaged(h)
  BY CachedIs
<1>2. x \in [why : {"none", "soft", "hard", "page", "unspec"}, tt : Nat]
  BY DEF Whys
<1>3. IsManaged([h EXCEPT !.wft.q = "none"])
  BY <1>1 DEF IsManaged, IsRecord, NewRun
<1>4. IsManaged(g)
  BY <1>1, <1>3
<1> HIDE DEF x, h
<1>5. IsManaged(k)
  BY <1>1, <1>2 DEF IsManaged, IsRecord, NewRun
<1>6. IsManaged(e)
  <2> HIDE DEF g
  <2> QED
    BY <1>4, <1>2 DEF IsManaged, IsRecord, NewRun
<1>7. Typed(Set(s, r, k)) /\ Cached(Set(s, r, k), r)
  BY <1>5, SetTyped
<1>8. Typed(Evicting(s, r, e, o)) /\ Cached(Evicting(s, r, e, o), r)
  <2> DEFINE u == Set(s, r, AfterCheckMore(e, o))
             t == Settle(u, r, CheckMore(e, o), o)
  <2> HIDE DEF e
  <2>1. IsManaged(AfterCheckMore(e, o)) /\ IsChoice(CheckMore(e, o), AfterCheckMore(e, o))
    BY <1>6, CheckMoreTyped
  <2>2. Typed(u) /\ Cached(u, r) /\ u.cache[r] = AfterCheckMore(e, o)
    BY <2>1, SetTyped
  <2> HIDE DEF u
  <2>3. Typed(t.s) /\ Cached(t.s, r) /\ t.act \in {"none", "broken"} \cup LangActs \cup Automatic
    BY <2>1, <2>2, SettleTyped
  <2> HIDE DEF t
  <2>4. Typed(Emit(t, r)) /\ Cached(Emit(t, r), r)
    BY <2>3, EmitTyped
  <2> QED
    BY <2>4 DEF Evicting, t, u
<1>9. EvictBasic(s, r, why, tt, o) \in {Evicting(s, r, e, o), Set(s, r, k)}
  BY DEF EvictBasic, h, x
<1> HIDE DEF e, k
<1> QED
  BY <1>7, <1>8, <1>9

\* An answer to a caller.
LEMMA AnswerTyped ==
  ASSUME NEW s, Typed(s), NEW x, x.chan \in Chans, x.outcome \in Outcomes \cup {"Lost"}
  PROVE  LET t == [s EXCEPT !.rep = @ \cup {x}]
         IN  Typed(t) /\ t.cache = s.cache
<1> DEFINE t == [s EXCEPT !.rep = @ \cup {x}]
<1>1. /\ DOMAIN t = DOMAIN St /\ t.cache = s.cache /\ t.lru = s.lru /\ t.full = s.full
      /\ t.fetch = s.fetch /\ t.timer = s.timer /\ t.out = s.out /\ t.rep = s.rep \cup {x}
  BY DEF Typed, St
<1>2. AreReplies(s.rep \cup {x})
  BY DEF Typed, AreReplies
<1> HIDE DEF t
<1>3. Typed(t)
  BY <1>1, <1>2, RestTyped DEF Typed
<1> QED
  BY <1>1, <1>3 DEF t

\* What was sent is taken back.
LEMMA UnsentTyped ==
  ASSUME NEW s, Typed(s), NEW out, AreActs(out)
  PROVE  Typed([s EXCEPT !.out = out]) /\ [s EXCEPT !.out = out].cache = s.cache
<1> DEFINE t == [s EXCEPT !.out = out]
<1>1. /\ DOMAIN t = DOMAIN St /\ t.cache = s.cache /\ t.lru = s.lru /\ t.full = s.full
      /\ t.fetch = s.fetch /\ t.timer = s.timer /\ t.out = out /\ t.rep = s.rep
  BY DEF Typed, St
<1> HIDE DEF t
<1>2. Typed(t)
  BY <1>1, RestTyped DEF Typed
<1> QED
  BY <1>1, <1>2 DEF t

\* reply_to_complete.
LEMMA ReplyTyped ==
  ASSUME NEW s, Typed(s), NEW r \in Runs, Cached(s, r), NEW chan \in Chans,
         NEW outcome \in Outcomes, NEW o
  PROVE  Typed(Reply(s, r, chan, outcome, o)) /\ Cached(Reply(s, r, chan, outcome, o), r)
<1> DEFINE e == EvictBasic(s, r, "hard", 0, o)
           t == [e EXCEPT !.out = s.out]
           x == [chan |-> chan, run |-> r, outcome |-> outcome]
           u == [s EXCEPT !.rep = @ \cup {x}]
<1>1. Typed(e) /\ Cached(e, r)
  BY EvictBasicTyped DEF Whys
<1>2. Typed(t) /\ t.cache = e.cache
  <2> HIDE DEF e
  <2> QED
    BY <1>1, UnsentTyped DEF Typed
<1>3. Typed(u) /\ u.cache = s.cache
  BY AnswerTyped
<1>4. Reply(s, r, chan, outcome, o) \in {t, u}
  BY DEF Reply
<1> HIDE DEF t, u
<1> QED
  BY <1>1, <1>2, <1>3, <1>4 DEF Cached

\* The task of a run is failed.
LEMMA FailTaskTyped ==
  ASSUME NEW e, Typed(e), NEW out, AreActs(out), NEW r \in Runs, Cached(e, r), NEW h, NEW quiet,
         NEW nd, NEW chan \in Chans, NEW o
  PROVE  LET t == FailTask(e, out, r, h, quiet, nd, chan, o) IN Typed(t) /\ Cached(t, r)
<1> DEFINE k == [e.cache[r] EXCEPT !.fin = TRUE]
           A == IF e.cache[r].act = "Eviction" THEN {"commands_on_eviction"} ELSE {}
           u == [e EXCEPT !.out = out, !.cache[r].fin = TRUE, !.asserts = @ \cup A]
           forced == FailOnND /\ nd /\ h.wft.att <= 1 /\ ~PendingWorkIsLegacyQuery(e.cache[r])
           v == IF forced THEN u ELSE e
           c == IF forced THEN ForcedOutcome(e.cache[r]) ELSE FailedOutcome(e, r, h, quiet)
<1>1. Typed(u) /\ Cached(u, r)
  <2>1. IsManaged(k)
    BY CachedIs DEF IsManaged, IsRecord, NewRun
  <2>2. Typed(Set(e, r, k)) /\ Cached(Set(e, r, k), r)
    BY <2>1, SetTyped
  <2>3. /\ DOMAIN u = DOMAIN St /\ u.cache = Set(e, r, k).cache
        /\ u.lru = Set(e, r, k).lru /\ u.full = Set(e, r, k).full
        /\ u.fetch = Set(e, r, k).fetch /\ u.timer = Set(e, r, k).timer /\ u.out = out
        /\ u.rep = Set(e, r, k).rep
    BY DEF Set, Typed, St
  <2> HIDE DEF u, k
  <2>4. Typed(u) /\ \A q \in Runs : Cached(u, q) <=> Cached(Set(e, r, k), q)
    BY <2>2, <2>3, RestTyped DEF Typed
  <2> QED
    BY <2>2, <2>4
<1>2. c \in Outcomes
  BY DEF ForcedOutcome, FailedOutcome, Outcomes
<1>3. FailTask(e, out, r, h, quiet, nd, chan, o) = Reply(v, r, chan, c, o)
  BY DEF FailTask
<1> HIDE DEF u, c
<1>4. Typed(v) /\ Cached(v, r)
  BY <1>1
<1> HIDE DEF v
<1> QED
  BY <1>2, <1>3, <1>4, ReplyTyped

\* A completion that is a failure.
LEMMA FailedCompletionTyped ==
  ASSUME NEW s, Typed(s), NEW r \in Runs, Cached(s, r), NEW why \in Whys, NEW auto, NEW nd,
         NEW chan \in Chans, NEW o
  PROVE  LET t == FailedCompletion(s, r, why, auto, nd, chan, o) IN Typed(t) /\ Cached(t, r)
<1> DEFINE h == s.cache[r]
           quiet == PendingWorkIsLegacyQuery(h) /\ auto /\ why \in {"unspec", "page"}
           n == Note(s, "fail_without_wft")
           e == IF quiet THEN s ELSE EvictBasic(s, r, why, 0, o)
           t == FailTask(e, s.out, r, h, quiet, nd, chan, o)
           u == Reply(n, r, chan, "Nothing", o)
<1>1. Typed(u) /\ Cached(u, r)
  <2>1. Typed(n) /\ Cached(n, r)
    BY NoteTyped
  <2> HIDE DEF n
  <2> QED
    BY <2>1, ReplyTyped DEF Outcomes
<1>2. Typed(t) /\ Cached(t, r)
  <2>1. Typed(e) /\ Cached(e, r)
    BY EvictBasicTyped
  <2>2. AreActs(s.out)
    BY DEF Typed
  <2> HIDE DEF e, quiet, h
  <2> QED
    BY <2>1, <2>2, FailTaskTyped
<1>3. FailedCompletion(s, r, why, auto, nd, chan, o) \in {t, u}
  BY DEF FailedCompletion
<1> HIDE DEF t, u
<1> QED
  BY <1>1, <1>2, <1>3

\* The error branch of update_to_acts.
LEMMA UpdateErrTyped ==
  ASSUME NEW s, Typed(s), NEW r \in Runs, Cached(s, r), NEW dat, IsKept(dat), NEW o
  PROVE  Typed(UpdateErr(s, r, dat, o)) /\ Cached(UpdateErr(s, r, dat, o), r)
<1> DEFINE b == [s EXCEPT !.cache[r].broken = TRUE]
           u == FailedCompletion(b, r, "hard", TRUE, o.nd, dat[1].chan, o)
           t == AutoFail(b, r, o.nd)
<1>1. Typed(b) /\ Cached(b, r)
  <2> DEFINE h == [s.cache[r] EXCEPT !.broken = TRUE]
  <2>1. IsManaged(h)
    BY CachedIs DEF IsManaged, IsRecord, NewRun
  <2>2. b = Set(s, r, h)
    BY DEF Set, Typed
  <2> HIDE DEF b, h
  <2> QED
    BY <2>1, <2>2, SetTyped
<1>2. UpdateErr(s, r, dat, o) = IF dat # <<>> THEN u ELSE t
  BY DEF UpdateErr
<1> HIDE DEF b
<1>5. Typed(t) /\ Cached(t, r)
  BY <1>1, AutoFailTyped
<1>6. dat # <<>> => Typed(u) /\ Cached(u, r)
  BY <1>1, FailedCompletionTyped DEF IsKept, Whys
<1> HIDE DEF t, u
<1> QED
  BY <1>2, <1>5, <1>6

\* incoming_wft.
LEMMA IncomingWftTyped ==
  ASSUME NEW s, Typed(s), NEW r \in Runs, Cached(s, r), NEW w \in Tasks, NEW created, NEW o
  PROVE  LET t == IncomingWft(s, r, w, created, o) IN Typed(t) /\ Cached(t, r)
<1> DEFINE h == s.cache[r]
           A == IF h.wft.id # 0 THEN {"wft_overwritten"} ELSE {}
           t == [s EXCEPT !.cache[r].wft = Wft(w), !.asserts = @ \cup A]
           jobs == h.jobs \/ created \/ (w.kind # "query" /\ o.jobs)
           j == [t EXCEPT !.cache[r].jobs = FALSE,
                          !.cache[r].term = @ \/ (created /\ w.kind = "query" /\ o.term)]
           m == [t EXCEPT !.timer[r] = TRUE]
           expired == w.kind = "query" /\ ~created /\ o.expired
           waits == ~expired /\ ~jobs /\ h.las > 0
           act == IF expired THEN "autofail" ELSE IF jobs THEN "jobs"
                  ELSE IF waits THEN "none" ELSE "autocomplete"
           v == IF act = "jobs" THEN j ELSE IF waits THEN m ELSE t
           e == UpdateErr(t, r, <<>>, o)
           n == Note(t, "task_while_waiting_on_las")
           x == Settle(v, r, act, o)
<1>1. Typed(t) /\ Cached(t, r)
  <2> DEFINE k == [h EXCEPT !.wft = Wft(w)]
  <2>1. Wft(w) \in [id : 0 .. MaxTasks, att : 1 .. 2, q : {"none", "queries", "legacy"}]
    <3>1. /\ w.id \in 1 .. MaxTasks /\ w.att \in 1 .. 2
      BY DEF Tasks
    <3>2. w.id \in 0 .. MaxTasks
      BY <3>1, WorkflowRunsAssumption
    <3> QED
      BY <3>1, <3>2 DEF Wft
  <2>2. IsManaged(k)
    BY <2>1, CachedIs DEF IsManaged, IsRecord, NewRun
  <2>3. Typed(Set(s, r, k)) /\ Cached(Set(s, r, k), r)
    BY <2>2, SetTyped
  <2>4. /\ DOMAIN t = DOMAIN St /\ t.cache = Set(s, r, k).cache
        /\ t.lru = Set(s, r, k).lru /\ t.full = Set(s, r, k).full
        /\ t.fetch = Set(s, r, k).fetch /\ t.timer = Set(s, r, k).timer
        /\ t.out = Set(s, r, k).out /\ t.rep = Set(s, r, k).rep
    BY DEF Set, Typed, St
  <2> HIDE DEF t, k
  <2>5. Typed(t) /\ \A q \in Runs : Cached(t, q) <=> Cached(Set(s, r, k), q)
    BY <2>3, <2>4, RestTyped DEF Typed
  <2> QED
    BY <2>3, <2>5
<1>2. IncomingWft(s, r, w, created, o) \in {e, n, Emit(x, r)}
  BY DEF IncomingWft
<1> HIDE DEF t
<1>3. Typed(j) /\ Cached(j, r)
  <2> DEFINE k == [t.cache[r] EXCEPT !.jobs = FALSE,
                                     !.term = @ \/ (created /\ w.kind = "query" /\ o.term)]
  <2>1. IsManaged(k)
    BY <1>1, CachedIs DEF IsManaged, IsRecord, NewRun
  <2>2. j = Set(t, r, k)
    BY <1>1 DEF Set, Typed
  <2> HIDE DEF j, k
  <2> QED
    BY <1>1, <2>1, <2>2, SetTyped
<1>4. Typed(m) /\ Cached(m, r)
  <2>1. /\ DOMAIN m = DOMAIN St /\ m.cache = t.cache /\ m.lru = t.lru /\ m.full = t.full
        /\ m.fetch = t.fetch /\ m.out = t.out /\ m.rep = t.rep
        /\ m.timer = [t.timer EXCEPT ![r] = TRUE]
    BY <1>1 DEF Typed, St
  <2>2. m.timer \in [Runs -> BOOLEAN]
    BY <1>1, <2>1 DEF Typed
  <2> HIDE DEF m
  <2> QED
    BY <1>1, <2>1, <2>2, RestTyped DEF Typed
<1>5. Typed(v) /\ Cached(v, r)
  <2> HIDE DEF j, m, act, waits
  <2> QED
    BY <1>1, <1>3, <1>4
<1>6. IsChoice(act, v.cache[r])
  BY DEF IsChoice
<1> HIDE DEF v, act
<1>7. Typed(x.s) /\ Cached(x.s, r) /\ x.act \in {"none", "broken"} \cup LangActs \cup Automatic
  BY <1>5, <1>6, SettleTyped
<1> HIDE DEF x
<1>8. Typed(Emit(x, r)) /\ Cached(Emit(x, r), r)
  BY <1>7, EmitTyped
<1>9. Typed(e) /\ Cached(e, r)
  BY <1>1, UpdateErrTyped DEF IsKept
<1>10. Typed(n) /\ Cached(n, r)
  BY <1>1, NoteTyped
<1> HIDE DEF e, n
<1> QED
  BY <1>2, <1>8, <1>9, <1>10

\* The buffer of a run holds tasks, and gives one back when it has one.
LEMMA BufferTyped ==
  ASSUME NEW b, IsBuffer(b)
  PROVE  /\ IsBuffer(DropNextWft(b)) /\ NextWft(b) \in Tasks \cup {NoTask}
         /\ HasTasks(b) => NextWft(b) \in Tasks
         /\ \A w \in Tasks : IsBuffer(Buffer(b, w))
<1> DEFINE Q == Seq(Tasks)
<1>1. b.wft \in Tasks \cup {NoTask} /\ b.q \in Q /\ b.qb \in Q
  BY DEF IsBuffer
<1>2. /\ b.q # <<>> => Head(b.q) \in Tasks /\ Tail(b.q) \in Q
      /\ b.qb # <<>> => Head(b.qb) \in Tasks /\ Tail(b.qb) \in Q
      /\ \A w \in Tasks : Append(b.q, w) \in Q /\ Append(b.qb, w) \in Q
      /\ <<>> \in Q
  BY <1>1
<1> HIDE DEF Q
<1>3. IsBuffer(DropNextWft(b))
  BY <1>1, <1>2 DEF IsBuffer, DropNextWft, Q
<1>4. NextWft(b) \in Tasks \cup {NoTask} /\ (HasTasks(b) => NextWft(b) \in Tasks)
  BY <1>1, <1>2 DEF NextWft, HasTasks
<1>5. ASSUME NEW w \in Tasks PROVE IsBuffer(Buffer(b, w))
  BY <1>1, <1>2 DEF IsBuffer, Buffer, Q
<1> QED
  BY <1>3, <1>4, <1>5

\* With nothing left to do the run takes a buffered task.
LEMMA TakeBufferedTyped ==
  ASSUME NEW t, NEW r \in Runs, Typed(t.s), Cached(t.s, r),
         t.act \in {"none", "broken"} \cup LangActs \cup Automatic, NEW o
  PROVE  Typed(TakeBuffered(t, r, o)) /\ Cached(TakeBuffered(t, r, o), r)
<1> DEFINE h == t.s.cache[r]
           k == [h EXCEPT !.buf = DropNextWft(@)]
           u == Set(t.s, r, k)
           x == IncomingWft(u, r, NextWft(h.buf), FALSE, o)
<1>1. IsManaged(h)
  BY CachedIs
<1>2. IsManaged(k)
  <2>1. IsBuffer(DropNextWft(h.buf))
    BY <1>1, BufferTyped DEF IsManaged
  <2> HIDE DEF h
  <2> QED
    BY <1>1, <2>1 DEF IsManaged, IsRecord, NewRun
<1>3. Typed(u) /\ Cached(u, r)
  BY <1>2, SetTyped
<1> HIDE DEF u
<1>4. HasTasks(h.buf) => Typed(x) /\ Cached(x, r)
  BY <1>1, <1>3, BufferTyped, IncomingWftTyped DEF IsManaged
<1>5. Typed(Emit(t, r)) /\ Cached(Emit(t, r), r)
  BY EmitTyped
<1>6. \/ TakeBuffered(t, r, o) = Emit(t, r)
      \/ HasTasks(h.buf) /\ TakeBuffered(t, r, o) = x
  BY DEF TakeBuffered, u
<1> HIDE DEF x
<1> QED
  BY <1>4, <1>5, <1>6

\* update_to_acts.
LEMMA UpdateToActsTyped ==
  ASSUME NEW s, Typed(s), NEW r \in Runs, Cached(s, r), NEW a, IsChoice(a, s.cache[r]), NEW o
  PROVE  Typed(UpdateToActs(s, r, a, o)) /\ Cached(UpdateToActs(s, r, a, o), r)
<1> DEFINE t == Settle(s, r, a, o)
<1>1. Typed(t.s) /\ Cached(t.s, r) /\ t.act \in {"none", "broken"} \cup LangActs \cup Automatic
  BY SettleTyped
<1> HIDE DEF t
<1>2. Typed(TakeBuffered(t, r, o)) /\ Cached(TakeBuffered(t, r, o), r)
  BY <1>1, TakeBufferedTyped
<1> QED
  BY <1>2 DEF UpdateToActs, t

\* check_more_activations.
LEMMA CheckMoreActivationsTyped ==
  ASSUME NEW s, Typed(s), NEW r \in Runs, Cached(s, r), NEW o
  PROVE  Typed(CheckMoreActivations(s, r, o)) /\ Cached(CheckMoreActivations(s, r, o), r)
<1> DEFINE h == s.cache[r]
           u == Set(s, r, AfterCheckMore(h, o))
<1>1. IsManaged(AfterCheckMore(h, o)) /\ IsChoice(CheckMore(h, o), AfterCheckMore(h, o))
  BY CachedIs, CheckMoreTyped
<1>2. Typed(u) /\ Cached(u, r) /\ u.cache[r] = AfterCheckMore(h, o)
  BY <1>1, SetTyped
<1> HIDE DEF u
<1>3. LET t == UpdateToActs(u, r, CheckMore(h, o), o) IN Typed(t) /\ Cached(t, r)
  BY <1>1, <1>2, UpdateToActsTyped
<1> QED
  BY <1>3 DEF CheckMoreActivations, u

\* The LRU order without one of its runs.
LEMMA WithoutLru ==
  ASSUME NEW x, NEW R, IsLru(x, R), NEW e \in R
  PROVE  /\ IsLru(Without(x, e), R \ {e}) /\ Len(Without(x, e)) = Len(x) - 1
<1> DEFINE k == CHOOSE i \in DOMAIN x : x[i] = e
           y == SubSeq(x, 1, k - 1)
           z == SubSeq(x, k + 1, Len(x))
           w == Without(x, e)
<1>1. IsSequence(x) /\ Len(x) \in Nat /\ DOMAIN x = 1 .. Len(x)
  BY SequenceIs DEF IsLru
<1>2. k \in 1 .. Len(x) /\ x[k] = e
  <2>1. \E i \in DOMAIN x : x[i] = e
    BY DEF IsLru, Range
  <2> QED
    BY <1>1, <2>1
<1> HIDE DEF k
<1>3. w = y \o z
  BY DEF Without, RemoveAt, k
<1>4. /\ IsSequence(y) /\ DOMAIN y = 1 .. (k - 1) /\ Len(y) = k - 1
      /\ \A i \in 1 .. (k - 1) : y[i] = x[i]
      /\ IsSequence(z) /\ DOMAIN z = 1 .. (Len(x) - k) /\ Len(z) = Len(x) - k
      /\ \A i \in 1 .. (Len(x) - k) : z[i] = x[k + i]
  <2> DEFINE T == {x[i] : i \in DOMAIN x}
  <2>1. x \in Seq(T)
    BY <1>1 DEF IsSequence
  <2> HIDE DEF T
  <2>2. \A i \in 1 .. Len(x) : x[i] \in T
    BY <2>1
  <2>3. /\ y \in Seq(T) /\ Len(y) = k - 1
        /\ \A i \in 1 .. (k - 1) : y[i] = x[i]
    BY <1>1, <1>2, <2>2, SubSeqProperties
  <2>4. /\ z \in Seq(T) /\ Len(z) = Len(x) - k
        /\ \A i \in 1 .. (Len(x) - k) : z[i] = x[k + i]
    <3> DEFINE m == k + 1
               n == Len(x)
    <3>1. m \in Int /\ n \in Int /\ \A i \in m .. n : x[i] \in T
      BY <1>1, <1>2, <2>2
    <3>2. m <= n \/ n - m + 1 = 0
      <4>1. k \in Int /\ n \in Int /\ k <= n
        BY <1>1, <1>2
      <4> HIDE DEF n
      <4> QED
        BY <4>1
    <3>3. n - m + 1 = Len(x) - k /\ \A i \in 1 .. (Len(x) - k) : m + i - 1 = k + i
      BY <1>1, <1>2
    <3> HIDE DEF m, n
    <3>4. /\ SubSeq(x, m, n) \in Seq(T) /\ Len(SubSeq(x, m, n)) = IF m <= n THEN n - m + 1 ELSE 0
          /\ \A i \in 1 .. n - m + 1 : SubSeq(x, m, n)[i] = x[m + i - 1]
      BY <3>1, SubSeqProperties
    <3>5. z = SubSeq(x, m, n)
      BY DEF m, n
    <3> HIDE DEF z
    <3> QED
      BY <3>2, <3>3, <3>4, <3>5
  <2> HIDE DEF y, z
  <2> QED
    BY <2>3, <2>4, IsOne
<1> HIDE DEF y, z, w
<1>5. /\ IsSequence(w) /\ Len(w) = Len(x) - 1 /\ DOMAIN w = 1 .. (Len(x) - 1)
      /\ \A i \in 1 .. (Len(x) - 1) : w[i] = IF i < k THEN x[i] ELSE x[i + 1]
  <2>1. IsSequence(w) /\ Len(w) = Len(x) - 1 /\ DOMAIN w = 1 .. (Len(x) - 1)
    <3>1. IsSequence(w) /\ Len(w) = Len(y) + Len(z) /\ DOMAIN w = 1 .. (Len(y) + Len(z))
      BY <1>3, <1>4, ConcatIs
    <3>2. Len(y) + Len(z) = Len(x) - 1
      BY <1>1, <1>2, <1>4
    <3> QED
      BY <3>1, <3>2
  <2>2. \A i \in DOMAIN w : \/ i \in DOMAIN y /\ w[i] = y[i]
                            \/ i > Len(y) /\ i - Len(y) \in DOMAIN z /\ w[i] = z[i - Len(y)]
    BY <1>3, <1>4, ConcatIs
  <2>3. ASSUME NEW i \in 1 .. (Len(x) - 1) PROVE w[i] = IF i < k THEN x[i] ELSE x[i + 1]
    <3>1. CASE i \in DOMAIN y /\ w[i] = y[i]
      BY <1>2, <1>4, <3>1
    <3>2. CASE i > Len(y) /\ i - Len(y) \in DOMAIN z /\ w[i] = z[i - Len(y)]
      <4>1. ~(i < k) /\ i - (k - 1) \in 1 .. (Len(x) - k) /\ k + (i - (k - 1)) = i + 1
        BY <1>1, <1>2, <1>4, <3>2
      <4>2. z[i - (k - 1)] = x[i + 1]
        BY <1>4, <4>1
      <4> QED
        BY <1>4, <3>2, <4>1, <4>2
    <3> QED
      BY <2>1, <2>2, <3>1, <3>2
  <2> QED
    BY <2>1, <2>3
<1>6. \A i, j \in DOMAIN x : x[i] = x[j] => i = j
  BY DEF IsLru
<1>7. \A i, j \in DOMAIN w : w[i] = w[j] => i = j
  <2>1. SUFFICES ASSUME NEW i \in DOMAIN w, NEW j \in DOMAIN w, w[i] = w[j] PROVE i = j
    OBVIOUS
  <2> DEFINE f(n) == IF n < k THEN n ELSE n + 1
  <2>2. f(i) \in DOMAIN x /\ f(j) \in DOMAIN x /\ w[i] = x[f(i)] /\ w[j] = x[f(j)]
    BY <1>1, <1>2, <1>5
  <2>3. f(i) = f(j)
    BY <1>6, <2>1, <2>2
  <2> QED
    BY <1>1, <1>2, <1>5, <2>3
<1>8. Range(w) = R \ {e}
  <2>1. ASSUME NEW i \in DOMAIN w PROVE w[i] \in R \ {e}
    <3> DEFINE n == IF i < k THEN i ELSE i + 1
    <3>1. n \in DOMAIN x /\ n # k /\ w[i] = x[n]
      BY <1>1, <1>2, <1>5
    <3> HIDE DEF n
    <3> QED
      BY <1>1, <1>2, <1>6, <3>1 DEF IsLru, Range
  <2>2. ASSUME NEW q \in R \ {e} PROVE \E i \in DOMAIN w : w[i] = q
    <3>1. PICK n \in DOMAIN x : x[n] = q
      BY DEF IsLru, Range
    <3>2. n # k
      BY <1>2, <3>1
    <3> DEFINE i == IF n < k THEN n ELSE n - 1
    <3>3. i \in DOMAIN w /\ w[i] = x[n]
      BY <1>1, <1>2, <1>5, <3>2
    <3> QED
      BY <3>1, <3>3
  <2> QED
    BY <2>1, <2>2 DEF Range
<1>9. Len(w) <= LruSize
  <2>1. LruSize \in Nat /\ Len(x) <= LruSize
    BY DEF IsLru
  <2> QED
    BY <1>1, <1>5, <2>1
<1> QED
  BY <1>5, <1>7, <1>8, <1>9 DEF IsLru, w

\* One more member at the end of a list without repetitions.
LEMMA AppendOrder ==
  ASSUME NEW x, IsSequence(x), \A i, j \in DOMAIN x : x[i] = x[j] => i = j,
         NEW e, e \notin Range(x)
  PROVE  /\ IsSequence(Append(x, e)) /\ Len(Append(x, e)) = Len(x) + 1
         /\ Range(Append(x, e)) = Range(x) \cup {e}
         /\ \A i, j \in DOMAIN Append(x, e) : Append(x, e)[i] = Append(x, e)[j] => i = j
<1> DEFINE y == Append(x, e)
<1>1. Len(x) \in Nat /\ DOMAIN x = 1 .. Len(x)
  BY SequenceIs
<1>2. /\ IsSequence(y) /\ Len(y) = Len(x) + 1 /\ DOMAIN y = 1 .. (Len(x) + 1)
      /\ \A i \in DOMAIN x : y[i] = x[i]
      /\ y[Len(x) + 1] = e
      /\ \A i \in DOMAIN y : \/ i \in DOMAIN x /\ y[i] = x[i]
                             \/ i = Len(x) + 1 /\ y[i] = e
  BY AppendIs
<1> HIDE DEF y
<1>3. \A i \in DOMAIN x : x[i] \in Range(x) /\ x[i] # e
  BY DEF Range
<1>4. \A i, j \in DOMAIN y : y[i] = y[j] => i = j
  <2>1. SUFFICES ASSUME NEW i \in DOMAIN y, NEW j \in DOMAIN y, y[i] = y[j] PROVE i = j
    OBVIOUS
  <2>2. i \in DOMAIN x <=> j \in DOMAIN x
    BY <1>2, <1>3, <2>1
  <2>3. CASE i \in DOMAIN x
    BY <1>2, <2>1, <2>2, <2>3
  <2>4. CASE i \notin DOMAIN x
    BY <1>2, <2>2, <2>4
  <2> QED
    BY <2>3, <2>4
<1>5. Range(y) = Range(x) \cup {e}
  <2>1. \A i \in DOMAIN y : y[i] \in Range(x) \cup {e}
    BY <1>2, <1>3
  <2>2. ASSUME NEW q \in Range(x) PROVE \E i \in DOMAIN y : y[i] = q
    <3>1. PICK i \in DOMAIN x : x[i] = q
      BY DEF Range
    <3>2. i \in DOMAIN y /\ y[i] = q
      BY <1>1, <1>2, <3>1
    <3> QED
      BY <3>2
  <2>3. Len(x) + 1 \in DOMAIN y /\ y[Len(x) + 1] = e
    BY <1>1, <1>2
  <2> QED
    BY <2>1, <2>2, <2>3 DEF Range
<1> QED
  BY <1>2, <1>4, <1>5 DEF y

\* One more run at the end of the LRU order.
LEMMA AppendLru ==
  ASSUME NEW x, NEW R, IsLru(x, R), NEW e, e \notin R, Len(x) # LruSize
  PROVE  IsLru(Append(x, e), R \cup {e})
<1>1. /\ IsSequence(Append(x, e)) /\ Len(Append(x, e)) = Len(x) + 1
      /\ Range(Append(x, e)) = R \cup {e}
      /\ \A i, j \in DOMAIN Append(x, e) : Append(x, e)[i] = Append(x, e)[j] => i = j
  BY AppendOrder DEF IsLru
<1>2. LruSize \in Nat /\ Len(x) \in Nat /\ Len(x) <= LruSize
  BY SequenceIs DEF IsLru
<1>3. Len(x) + 1 <= LruSize
  BY <1>2
<1> QED
  BY <1>1, <1>2, <1>3 DEF IsLru

\* A run that is used moves to the end of the LRU order.
LEMMA TouchTyped ==
  ASSUME NEW s, Typed(s), NEW r
  PROVE  /\ Typed(Touch(s, r)) /\ Touch(s, r).cache = s.cache
         /\ \A q \in Runs : Cached(Touch(s, r), q) <=> Cached(s, q)
         /\ Touch(s, r).fetch = s.fetch
<1> DEFINE t == Touch(s, r)
           R == CachedRuns(s)
<1>1. /\ DOMAIN t = DOMAIN St /\ t.cache = s.cache /\ t.full = s.full /\ t.fetch = s.fetch
      /\ t.timer = s.timer /\ t.out = s.out /\ t.rep = s.rep
  BY DEF Touch, Typed, St
<1>2. IsLru(t.lru, R)
  <2>1. IsLru(s.lru, R)
    BY DEF Typed
  <2>2. CASE r \in Range(s.lru)
    <3> DEFINE w == Without(s.lru, r)
    <3>1. t.lru = Append(w, r)
      BY <2>2 DEF Touch, Typed, St
    <3>2. r \in R /\ Len(s.lru) \in Nat /\ LruSize \in Nat /\ Len(s.lru) <= LruSize
      BY <2>1, <2>2, SequenceIs DEF IsLru
    <3>3. IsLru(w, R \ {r}) /\ Len(w) = Len(s.lru) - 1
      BY <2>1, <3>2, WithoutLru
    <3> HIDE DEF w, R
    <3>4. Len(w) # LruSize
      BY <3>2, <3>3
    <3>5. IsLru(Append(w, r), (R \ {r}) \cup {r})
      BY <3>3, <3>4, AppendLru
    <3>6. (R \ {r}) \cup {r} = R
      BY <3>2
    <3> QED
      BY <3>1, <3>5, <3>6
  <2>3. CASE r \notin Range(s.lru)
    BY <2>1, <2>3 DEF Touch
  <2> QED
    BY <2>2, <2>3
<1> HIDE DEF t
<1>3. CachedRuns(t) = R
  BY <1>1 DEF CachedRuns, Cached
<1>4. Typed(t)
  BY <1>1, <1>2, <1>3 DEF Typed
<1>5. \A q \in Runs : Cached(t, q) <=> Cached(s, q)
  BY <1>1 DEF Cached
<1> QED
  BY <1>1, <1>4, <1>5 DEF t

\* request_eviction of a run that may not be cached.
LEMMA EvictionTyped ==
  ASSUME NEW s, Typed(s), NEW r \in Runs, NEW why \in Whys, NEW tt \in Nat, NEW o
  PROVE  Typed(RequestEviction(s, r, why, tt, o))
<1> DEFINE h == s.cache[r]
           k == [h EXCEPT !.page = <<>>]
           t == Touch(Set(s, r, k), r)
           n == Note(t, "foreign_fetch_failure")
           own == ~\E f \in s.fetch : f.what = "page" /\ f.run = r
           v == IF own THEN t ELSE n
           x == FailedCompletion(v, r, "page", TRUE, FALSE, h.page[1].chan, o)
           y == EvictBasic(Touch(s, r), r, why, tt, o)
<1>1. SUFFICES ASSUME Cached(s, r) PROVE Typed(RequestEviction(s, r, why, tt, o))
  BY DEF RequestEviction
<1>2. IsManaged(h)
  BY <1>1, CachedIs
<1>3. IsManaged(k)
  <2> HIDE DEF h
  <2> QED
    BY <1>2 DEF IsManaged, IsRecord, NewRun, IsKept
<1>4. RequestEviction(s, r, why, tt, o) = IF h.page # <<>> /\ why = "page" THEN x ELSE y
  BY <1>1 DEF RequestEviction
<1>5. Typed(t) /\ Cached(t, r)
  BY <1>1, <1>3, SetTyped, TouchTyped
<1> HIDE DEF t
<1>6. Typed(v) /\ Cached(v, r)
  BY <1>5, NoteTyped
<1> HIDE DEF v
<1>7. ASSUME h.page # <<>> PROVE Typed(x)
  <2>1. h.page[1].chan \in Chans
    BY <1>2, <1>7 DEF IsManaged, IsKept
  <2> HIDE DEF h
  <2> QED
    BY <1>6, <2>1, FailedCompletionTyped DEF Whys
<1>8. Typed(y)
  BY <1>1, TouchTyped, EvictBasicTyped
<1> HIDE DEF x, y
<1> QED
  BY <1>4, <1>7, <1>8

\* The least recently used run goes when nothing is to be cached.
LEMMA EvictLruTyped ==
  ASSUME NEW s, Typed(s), NEW o
  PROVE  Typed(EvictLru(s, o))
<1>1. CASE cap = 0 /\ s.lru # <<>>
  <2>1. IsLru(s.lru, CachedRuns(s)) /\ IsSequence(s.lru)
    BY DEF Typed, IsLru
  <2>2. Head(s.lru) = s.lru[1] /\ 1 \in DOMAIN s.lru
    BY <1>1, <2>1, TailIs
  <2>3. Head(s.lru) \in Runs
    BY <2>1, <2>2 DEF IsLru, Range, CachedRuns
  <2> QED
    BY <1>1, <2>3, EvictionTyped DEF EvictLru, Whys
<1>2. CASE ~(cap = 0 /\ s.lru # <<>>)
  BY <1>2 DEF EvictLru
<1> QED
  BY <1>1, <1>2

\* What a completion comes to.
LEMMA PreparedIs ==
  ASSUME NEW h, NEW d, NEW beat
  PROVE  PrepareCompleteResp(h, d, beat) \in Outcomes
BY DEF PrepareCompleteResp, Outcomes

\* A caller that waits is answered.
LEMMA FulfillTyped ==
  ASSUME NEW s, Typed(s), NEW r, NEW dat, IsKept(dat), NEW outcome \in Outcomes
  PROVE  /\ Typed(Fulfill(s, r, dat, outcome)) /\ Fulfill(s, r, dat, outcome).cache = s.cache
<1> DEFINE x == [chan |-> dat[1].chan, run |-> r, outcome |-> outcome]
           t == [s EXCEPT !.rep = @ \cup {x}]
<1>1. Fulfill(s, r, dat, outcome) = IF dat = <<>> THEN s ELSE t
  BY DEF Fulfill
<1>2. ASSUME dat # <<>> PROVE Typed(t) /\ t.cache = s.cache
  <2>1. x.chan \in Chans /\ x.outcome \in Outcomes
    BY <1>2 DEF IsKept
  <2> HIDE DEF x
  <2> QED
    BY <2>1, AnswerTyped
<1> HIDE DEF t
<1> QED
  BY <1>1, <1>2

\* A completion that its caller waits for is one to keep.
LEMMA OneKept ==
  ASSUME NEW d, "chan" \in DOMAIN d, d.chan \in Chans
  PROVE  IsKept(<<d>>)
BY DEF IsKept

\* The timer of a run is set or stopped.
LEMMA TimerTyped ==
  ASSUME NEW s, Typed(s), NEW r \in Runs, NEW b \in BOOLEAN
  PROVE  LET t == [s EXCEPT !.timer[r] = b] IN Typed(t) /\ t.cache = s.cache
<1> DEFINE t == [s EXCEPT !.timer[r] = b]
<1>1. /\ DOMAIN t = DOMAIN St /\ t.cache = s.cache /\ t.lru = s.lru /\ t.full = s.full
      /\ t.fetch = s.fetch /\ t.out = s.out /\ t.rep = s.rep
      /\ t.timer = [s.timer EXCEPT ![r] = b]
  BY DEF Typed, St
<1>2. t.timer \in [Runs -> BOOLEAN]
  BY <1>1 DEF Typed
<1> HIDE DEF t
<1>3. Typed(t)
  BY <1>1, <1>2, RestTyped DEF Typed
<1> QED
  BY <1>1, <1>3 DEF t

\* A run with nothing to send is looked at again.
LEMMA NoneIsChoice ==
  ASSUME NEW h
  PROVE  IsChoice("none", h)
BY DEF IsChoice

\* A completion is handed to the machines of its run.
LEMMA ProcessCompletionTyped ==
  ASSUME NEW s, Typed(s), NEW r \in Runs, Cached(s, r), NEW d, "chan" \in DOMAIN d,
         d.chan \in Chans, NEW o, o.las \in 0 .. MaxLAs
  PROVE  Typed(ProcessCompletion(s, r, d, o))
<1> DEFINE h == s.cache[r]
           fin == h.fin \/ o.fin
           new == IF h.wft.q = "legacy" THEN 0 ELSE o.las
           las == IF fin THEN 0 ELSE IF new > h.las THEN new ELSE h.las
           g == [h EXCEPT !.jobs = @ \/ o.jobs, !.fin = fin, !.las = las]
           k == [g EXCEPT !.la = "wait", !.laDat = <<d>>]
           w == [Set(s, r, k) EXCEPT !.timer[r] = TRUE]
           now == IF d.wasEvict THEN h ELSE g
           c == PrepareCompleteResp(now, d, FALSE)
           a == Fulfill(Set(s, r, now), r, <<d>>, c)
           v == IF d.wasEvict \/ las = 0 THEN a ELSE w
           x == UpdateErr(s, r, <<d>>, o)
           y == UpdateToActs(v, r, "none", o)
<1>1. IsManaged(h)
  BY CachedIs
<1>2. las \in 0 .. MaxLAs
  <2>1. h.las \in 0 .. MaxLAs /\ 0 \in 0 .. MaxLAs
    BY <1>1, WorkflowRunsAssumption DEF IsManaged
  <2> QED
    BY <2>1
<1>3. ProcessCompletion(s, r, d, o) \in {x, y}
  BY DEF ProcessCompletion
<1> HIDE DEF las, h
<1>4. IsManaged(g)
  BY <1>1, <1>2 DEF IsManaged, IsRecord, NewRun
<1>5. IsManaged(k)
  <2>1. IsKept(<<d>>) /\ <<d>> # <<>>
    BY OneKept
  <2> HIDE DEF g
  <2> QED
    BY <1>4, <2>1 DEF IsManaged, IsRecord, NewRun
<1> HIDE DEF g, k
<1>6. Typed(w) /\ Cached(w, r)
  <2>1. Typed(Set(s, r, k)) /\ Cached(Set(s, r, k), r)
    BY <1>5, SetTyped
  <2> DEFINE u == Set(s, r, k)
  <2> HIDE DEF u
  <2>2. Typed([u EXCEPT !.timer[r] = TRUE]) /\ [u EXCEPT !.timer[r] = TRUE].cache = u.cache
    BY <2>1, TimerTyped DEF u
  <2> QED
    BY <2>1, <2>2 DEF Cached, u
<1>7. Typed(a) /\ Cached(a, r)
  <2>1. IsManaged(now)
    BY <1>1, <1>4
  <2>2. Typed(Set(s, r, now)) /\ Cached(Set(s, r, now), r)
    BY <2>1, SetTyped
  <2>3. IsKept(<<d>>) /\ c \in Outcomes
    BY OneKept, PreparedIs
  <2> DEFINE u == Set(s, r, now)
  <2> HIDE DEF u, c
  <2>4. Typed(Fulfill(u, r, <<d>>, c)) /\ Fulfill(u, r, <<d>>, c).cache = u.cache
    BY <2>2, <2>3, FulfillTyped DEF u
  <2> QED
    BY <2>2, <2>4 DEF Cached, u
<1> HIDE DEF w, a
<1>8. Typed(v) /\ Cached(v, r)
  BY <1>6, <1>7
<1> HIDE DEF v
<1>9. Typed(y)
  BY <1>8, NoneIsChoice, UpdateToActsTyped
<1>10. Typed(x)
  BY OneKept, UpdateErrTyped
<1> HIDE DEF x, y
<1> QED
  BY <1>3, <1>9, <1>10

\* A completion that is a success.
LEMMA SuccessfulCompletionTyped ==
  ASSUME NEW s, Typed(s), NEW r \in Runs, Cached(s, r), NEW chan \in Chans, NEW resp,
         NEW o, o.las \in 0 .. MaxLAs
  PROVE  Typed(SuccessfulCompletion(s, r, chan, resp, o))
<1> DEFINE h == s.cache[r]
           wasEvict == h.act = "Eviction"
           d == [chan |-> chan, wasEvict |-> wasEvict, resp |-> resp,
                 hadQuery |-> h.wft.q # "none"]
           u == IF wasEvict THEN s ELSE Note(s, "complete_without_wft")
           e == [u EXCEPT !.cache[r].evict.tt = 0]
           v == IF h.wft.id = 0 THEN e ELSE s
           c == IF h.wft.id # 0 THEN "Query" ELSE IF h.evict.tt # 0 THEN "Fail" ELSE "Nothing"
           x == Reply(v, r, chan, c, o)
           f == [what |-> "page", run |-> r, wft |-> NoTask]
           p == [s EXCEPT !.cache[r].page = <<d>>, !.fetch = @ \cup {f}]
           y == ProcessCompletion(s, r, d, o)
<1>1. SuccessfulCompletion(s, r, chan, resp, o) \in {x, p, y}
  BY DEF SuccessfulCompletion
<1>2. "chan" \in DOMAIN d /\ d.chan \in Chans
  OBVIOUS
<1>3. Typed(u) /\ Cached(u, r)
  BY NoteTyped
<1> HIDE DEF d, u
<1>4. Typed(e) /\ Cached(e, r)
  <2> DEFINE k == [u.cache[r] EXCEPT !.evict.tt = 0]
  <2>1. IsManaged(k)
    BY <1>3, CachedIs DEF IsManaged, IsRecord, NewRun
  <2>2. e = Set(u, r, k)
    BY <1>3 DEF Set, Typed
  <2> HIDE DEF e, k
  <2> QED
    BY <1>3, <2>1, <2>2, SetTyped
<1> HIDE DEF e
<1>5. Typed(v) /\ Cached(v, r) /\ c \in Outcomes
  BY <1>4 DEF Outcomes
<1> HIDE DEF v, c
<1>6. Typed(x)
  BY <1>5, ReplyTyped
<1>7. Typed(p)
  <2> DEFINE k == [h EXCEPT !.page = <<d>>]
  <2>1. IsManaged(h) /\ IsKept(<<d>>)
    BY <1>2, CachedIs, OneKept
  <2>2. IsManaged(k)
    <3> HIDE DEF h
    <3> QED
      BY <2>1 DEF IsManaged, IsRecord, NewRun
  <2>3. Typed(Set(s, r, k))
    BY <2>2, SetTyped
  <2>4. /\ DOMAIN p = DOMAIN St /\ p.cache = Set(s, r, k).cache
        /\ p.lru = Set(s, r, k).lru /\ p.full = Set(s, r, k).full
        /\ p.fetch = s.fetch \cup {f} /\ p.timer = Set(s, r, k).timer
        /\ p.out = Set(s, r, k).out /\ p.rep = Set(s, r, k).rep
    BY DEF Set, Typed, St
  <2>5. \A z \in s.fetch \cup {f} : IsFetch(z)
    <3>1. IsFetch(f)
      BY DEF IsFetch
    <3> HIDE DEF f
    <3> QED
      BY <3>1 DEF Typed
  <2> HIDE DEF p, k
  <2> QED
    BY <2>3, <2>4, <2>5, RestTyped DEF Typed
<1>8. Typed(y)
  BY <1>2, ProcessCompletionTyped
<1> HIDE DEF x, p, y
<1> QED
  BY <1>1, <1>6, <1>7, <1>8

\* The page that a completion waited for has come.
LEMMA FetchedPageTyped ==
  ASSUME NEW s, Typed(s), NEW r \in Runs, Cached(s, r), NEW o, o.las \in 0 .. MaxLAs
  PROVE  Typed(FetchedPageCompletion(s, r, o))
<1> DEFINE h == s.cache[r]
           k == [h EXCEPT !.page = <<>>]
           u == Set(s, r, k)
           n == Note(s, "page_for_nobody")
<1>1. IsManaged(h)
  BY CachedIs
<1>2. IsManaged(k)
  <2> HIDE DEF h
  <2> QED
    BY <1>1 DEF IsManaged, IsRecord, NewRun, IsKept
<1>3. Typed(u) /\ Cached(u, r)
  BY <1>2, SetTyped
<1>4. Typed(n) /\ Cached(n, r)
  BY NoteTyped
<1>5. FetchedPageCompletion(s, r, o) =
        IF h.page # <<>> THEN ProcessCompletion(u, r, h.page[1], o) ELSE UpdateErr(n, r, <<>>, o)
  BY DEF FetchedPageCompletion
<1> HIDE DEF u, n
<1>6. ASSUME h.page # <<>> PROVE Typed(ProcessCompletion(u, r, h.page[1], o))
  <2>1. "chan" \in DOMAIN h.page[1] /\ h.page[1].chan \in Chans
    BY <1>1, <1>6 DEF IsManaged, IsKept
  <2> QED
    BY <1>3, <2>1, ProcessCompletionTyped
<1>7. Typed(UpdateErr(n, r, <<>>, o))
  BY <1>4, UpdateErrTyped DEF IsKept
<1> QED
  BY <1>5, <1>6, <1>7

\* An input that is a completion, of a run that may not be cached.
IsCompletion(m) == m.run \in Runs /\ m.chan \in Chans

LEMMA CompletionTyped ==
  ASSUME NEW s, Typed(s), NEW m, IsCompletion(m), NEW o, o.las \in 0 .. MaxLAs
  PROVE  Typed(CompletionInput(s, m, o))
<1> DEFINE t == Touch(s, m.run)
           why == IF m.chan # "lang" THEN "unspec" ELSE "hard"
           n == Note(s, "run_missing")
           e == [chan |-> m.chan, run |-> m.run, outcome |-> "Lost"]
           x == [n EXCEPT !.rep = @ \cup {e}]
           y == SuccessfulCompletion(t, m.run, m.chan, m.resp, o)
           z == FailedCompletion(t, m.run, why, m.chan # "lang", m.nd, m.chan, o)
<1>1. CompletionInput(s, m, o) = IF ~Cached(s, m.run) THEN x ELSE EvictLru(IF m.ok THEN y ELSE z, o)
  BY DEF CompletionInput
<1>2. Typed(x)
  <2>1. Typed(n)
    BY NoteTyped
  <2>2. e.chan \in Chans /\ e.outcome \in Outcomes \cup {"Lost"}
    BY DEF IsCompletion
  <2> HIDE DEF n, e
  <2> QED
    BY <2>1, <2>2, AnswerTyped
<1>3. ASSUME Cached(s, m.run) PROVE Typed(y) /\ Typed(z)
  <2>1. Typed(t) /\ Cached(t, m.run) /\ m.run \in Runs /\ m.chan \in Chans /\ why \in Whys
    BY <1>3, TouchTyped DEF IsCompletion, Whys
  <2> HIDE DEF t, why
  <2> QED
    BY <2>1, SuccessfulCompletionTyped, FailedCompletionTyped
<1> HIDE DEF x, y, z
<1> QED
  BY <1>1, <1>2, <1>3, EvictLruTyped

\* A local activity of a run has resolved.
LEMMA LocalResolutionTyped ==
  ASSUME NEW s, Typed(s), NEW r \in Runs, NEW o
  PROVE  Typed(LocalResolution(s, r, o))
<1> DEFINE h == s.cache[r]
           g == [h EXCEPT !.las = IF @ > 0 THEN @ - 1 ELSE 0, !.jobs = TRUE]
           over == g.las = 0 /\ h.la # "none"
           k == [g EXCEPT !.la = "none", !.laDat = <<>>]
           e == [Set(s, r, k) EXCEPT !.timer[r] = FALSE]
           c == PrepareCompleteResp(g, h.laDat[1], FALSE)
           f == Fulfill(e, r, h.laDat, c)
           v == IF ~over THEN Set(s, r, g) ELSE IF h.laDat = <<>> THEN e ELSE f
           x == UpdateErr(s, r, <<>>, o)
           y == UpdateToActs(v, r, "none", o)
<1>1. SUFFICES ASSUME Cached(s, r) PROVE Typed(LocalResolution(s, r, o))
  BY DEF LocalResolution
<1>2. IsManaged(h)
  BY <1>1, CachedIs
<1>3. LocalResolution(s, r, o) \in {x, y}
  BY <1>1 DEF LocalResolution
<1> HIDE DEF h
<1>4. IsManaged(g)
  <2>1. (IF h.las > 0 THEN h.las - 1 ELSE 0) \in 0 .. MaxLAs
    BY <1>2, WorkflowRunsAssumption DEF IsManaged
  <2> QED
    BY <1>2, <2>1 DEF IsManaged, IsRecord, NewRun
<1> HIDE DEF g
<1>5. IsManaged(k)
  BY <1>4 DEF IsManaged, IsRecord, NewRun, IsKept
<1>6. Typed(e) /\ Cached(e, r)
  <2> DEFINE u == Set(s, r, k)
  <2>1. Typed(u) /\ Cached(u, r)
    BY <1>1, <1>5, SetTyped
  <2> HIDE DEF u
  <2>2. Typed([u EXCEPT !.timer[r] = FALSE]) /\ [u EXCEPT !.timer[r] = FALSE].cache = u.cache
    BY <2>1, TimerTyped
  <2> QED
    BY <2>1, <2>2 DEF Cached, u
<1> HIDE DEF e
<1>7. Typed(f) /\ Cached(f, r)
  <2>1. IsKept(h.laDat) /\ c \in Outcomes
    BY <1>2, PreparedIs DEF IsManaged
  <2> HIDE DEF c
  <2>2. Typed(f) /\ f.cache = e.cache
    BY <1>6, <2>1, FulfillTyped
  <2> QED
    BY <1>6, <2>2 DEF Cached
<1> HIDE DEF f
<1>8. Typed(v) /\ Cached(v, r)
  BY <1>1, <1>4, <1>6, <1>7, SetTyped
<1> HIDE DEF v
<1>9. Typed(y)
  BY <1>8, NoneIsChoice, UpdateToActsTyped
<1>10. Typed(x)
  BY <1>1, UpdateErrTyped DEF IsKept
<1> HIDE DEF x, y
<1> QED
  BY <1>3, <1>9, <1>10

\* The heartbeat timeout of a run has fired.
LEMMA HeartbeatTyped ==
  ASSUME NEW s, Typed(s), NEW r \in Runs, NEW o
  PROVE  Typed(HeartbeatTimeout(s, r, o))
<1> DEFINE h == s.cache[r]
           k == [h EXCEPT !.la = "hb", !.laDat = <<>>]
           c == PrepareCompleteResp(h, h.laDat[1], TRUE)
           u == Set(s, r, k)
           f == Fulfill(u, r, h.laDat, c)
           v == IF h.la = "wait" THEN f ELSE s
           a == IF h.la = "hb" THEN "autocomplete" ELSE "none"
           y == UpdateToActs(v, r, a, o)
<1>1. SUFFICES ASSUME Cached(s, r) PROVE Typed(HeartbeatTimeout(s, r, o))
  BY DEF HeartbeatTimeout
<1>2. IsManaged(h)
  BY <1>1, CachedIs
<1>3. HeartbeatTimeout(s, r, o) = y
  BY <1>1 DEF HeartbeatTimeout
<1> HIDE DEF h
<1>4. IsManaged(k)
  BY <1>2 DEF IsManaged, IsRecord, NewRun, IsKept
<1>5. Typed(u) /\ Cached(u, r)
  BY <1>1, <1>4, SetTyped
<1> HIDE DEF u
<1>6. Typed(f) /\ Cached(f, r)
  <2>1. IsKept(h.laDat) /\ c \in Outcomes
    BY <1>2, PreparedIs DEF IsManaged
  <2> HIDE DEF c
  <2>2. Typed(f) /\ f.cache = u.cache
    BY <1>5, <2>1, FulfillTyped
  <2> QED
    BY <1>5, <2>2 DEF Cached
<1> HIDE DEF f
<1>7. Typed(v) /\ Cached(v, r) /\ IsChoice(a, v.cache[r])
  BY <1>1, <1>6 DEF IsChoice
<1> HIDE DEF v, a
<1>8. Typed(y)
  BY <1>7, UpdateToActsTyped
<1> QED
  BY <1>3, <1>8

\* A task waits for a slot of the cache.
LEMMA BufferOnFullCacheTyped ==
  ASSUME NEW s, Typed(s), NEW w \in Tasks
  PROVE  Typed(BufferOnFullCache(s, w))
<1> DEFINE same == {i \in DOMAIN s.full : s.full[i][1].run = w.run}
           k == CHOOSE i \in same : TRUE
           t == BufferOnFullCache(s, w)
           x == Append(s.full, <<w>>)
           y == [s.full EXCEPT ![k] = Append(@, w)]
<1>1. IsBacklog(s.full) /\ IsSequence(s.full)
  BY DEF Typed, IsBacklog
<1>2. /\ DOMAIN t = DOMAIN St /\ t.cache = s.cache /\ t.lru = s.lru /\ t.fetch = s.fetch
      /\ t.timer = s.timer /\ t.out = s.out /\ t.rep = s.rep
      /\ t.full = IF same = {} THEN x ELSE y
  BY DEF BufferOnFullCache, Typed, St
<1>3. IsBacklog(x)
  <2> DEFINE v == <<w>>
  <2>1. v \in Seq(Tasks) /\ v # <<>>
    OBVIOUS
  <2> HIDE DEF v
  <2>2. IsBacklog(Append(s.full, v))
    BY <1>1, <2>1, AppendIs DEF IsBacklog
  <2> QED
    BY <2>2 DEF v
<1>4. ASSUME same # {} PROVE IsBacklog(y)
  <2>1. k \in DOMAIN s.full
    BY <1>4
  <2> HIDE DEF k
  <2> DEFINE v == Append(s.full[k], w)
  <2>2. v \in Seq(Tasks) /\ v # <<>>
    BY <1>1, <2>1 DEF IsBacklog
  <2>3. DOMAIN y = DOMAIN s.full /\ \A i \in DOMAIN y : y[i] = IF i = k THEN v ELSE s.full[i]
    OBVIOUS
  <2>4. y = [i \in DOMAIN y |-> y[i]]
    OBVIOUS
  <2> HIDE DEF y, v
  <2>5. IsSequence(y)
    BY <1>1, <2>3, <2>4, MappedIs
  <2> QED
    BY <1>1, <2>2, <2>3, <2>5 DEF IsBacklog
<1> HIDE DEF t, x, y, same
<1>5. IsBacklog(t.full)
  BY <1>2, <1>3, <1>4
<1>6. Typed(t)
  BY <1>2, <1>5, RestTyped DEF Typed
<1> QED
  BY <1>6 DEF t

\* A run comes into the cache that has room.
LEMMA NewRunTyped ==
  ASSUME NEW s, Typed(s), NEW r \in Runs, ~Cached(s, r), Len(s.lru) # LruSize
  PROVE  LET t == [Set(s, r, NewRun) EXCEPT !.lru = Append(@, r)] IN Typed(t) /\ Cached(t, r)
<1> DEFINE t == [Set(s, r, NewRun) EXCEPT !.lru = Append(@, r)]
<1>1. /\ DOMAIN t = DOMAIN St /\ DOMAIN t.cache = Runs
      /\ \A q \in Runs : t.cache[q] = IF r = q THEN NewRun ELSE s.cache[q]
      /\ t.lru = Append(s.lru, r) /\ t.full = s.full /\ t.fetch = s.fetch /\ t.timer = s.timer
      /\ t.out = s.out /\ t.rep = s.rep
  BY DEF Set, Typed, St
<1>2. IsManaged(NewRun)
  <2>1. 0 \in 0 .. MaxTasks /\ 0 \in 0 .. MaxLAs
    BY WorkflowRunsAssumption
  <2>2. NoWft \in [id : 0 .. MaxTasks, att : 1 .. 2, q : {"none", "queries", "legacy"}]
    BY <2>1 DEF NoWft
  <2>3. NoEvict \in [why : {"none", "soft", "hard", "page", "unspec"}, tt : Nat]
    BY DEF NoEvict
  <2>4. IsBuffer(NoBuffer)
    BY DEF IsBuffer, NoBuffer
  <2> QED
    BY <2>1, <2>2, <2>3, <2>4 DEF IsManaged, IsRecord, NewRun, IsKept
<1> HIDE DEF t
<1>3. \A q \in Runs : Cached(t, q) <=> q = r \/ Cached(s, q)
  BY <1>1 DEF Cached, NewRun
<1>4. CachedRuns(t) = CachedRuns(s) \cup {r}
  BY <1>3 DEF CachedRuns
<1>5. IsLru(t.lru, CachedRuns(t))
  <2>1. IsLru(s.lru, CachedRuns(s)) /\ r \notin CachedRuns(s)
    BY DEF Typed, CachedRuns
  <2> QED
    BY <1>1, <1>4, <2>1, AppendLru
<1>6. Typed(t)
  BY <1>1, <1>2, <1>5 DEF Typed
<1> QED
  BY <1>3, <1>6 DEF t

\* instantiate_or_update.
LEMMA InstantiateTyped ==
  ASSUME NEW s0, Typed(s0), NEW w \in Tasks, NEW o
  PROVE  Typed(InstantiateOrUpdate(s0, w, o))
<1> DEFINE s == Touch(s0, w.run)
           r == w.run
           h == s.cache[r]
           k == [h EXCEPT !.buf = Buffer(@, w)]
           f == [what |-> "full", run |-> r, wft |-> w]
           a == Set(s, r, k)
           b == BufferOnFullCache(s, w)
           c == [s EXCEPT !.fetch = @ \cup {f}]
           n == [Set(s, r, NewRun) EXCEPT !.lru = Append(@, r)]
           v == IF Cached(s, r) THEN s ELSE n
           x == IncomingWft(v, r, w, ~Cached(s, r), o)
<1>1. r \in Runs /\ Typed(s)
  BY TouchTyped DEF Tasks
<1>2. \/ Cached(s, r) /\ InstantiateOrUpdate(s0, w, o) = a
      \/ InstantiateOrUpdate(s0, w, o) \in {b, c}
      \/ /\ Cached(s, r) \/ Len(s.lru) # LruSize
         /\ InstantiateOrUpdate(s0, w, o) = x
  BY DEF InstantiateOrUpdate, IsFull
<1> HIDE DEF s, r
<1>3. Cached(s, r) => Typed(a)
  <2>1. SUFFICES ASSUME Cached(s, r) PROVE Typed(a)
    OBVIOUS
  <2>2. IsManaged(h)
    BY <1>1, <2>1, CachedIs
  <2>3. IsBuffer(Buffer(h.buf, w))
    BY <2>2, BufferTyped DEF IsManaged
  <2>4. IsManaged(k)
    <3> HIDE DEF h
    <3> QED
      BY <2>2, <2>3 DEF IsManaged, IsRecord, NewRun
  <2> QED
    BY <1>1, <2>1, <2>4, SetTyped
<1>4. Typed(b)
  BY <1>1, BufferOnFullCacheTyped
<1>5. Typed(c)
  <2>1. /\ DOMAIN c = DOMAIN St /\ c.cache = s.cache /\ c.lru = s.lru /\ c.full = s.full
        /\ c.fetch = s.fetch \cup {f} /\ c.timer = s.timer /\ c.out = s.out /\ c.rep = s.rep
    BY <1>1 DEF Typed, St
  <2>2. IsFetch(f)
    <3>1. w # NoTask
      <4>1. w.id # 0 /\ NoTask.id = 0
        BY WorkflowRunsAssumption DEF Tasks, NoTask
      <4> QED
        BY <4>1
    <3> QED
      BY <1>1, <3>1 DEF IsFetch
  <2> HIDE DEF c, f
  <2>3. \A z \in s.fetch \cup {f} : IsFetch(z)
    BY <1>1, <2>2 DEF Typed
  <2> QED
    BY <1>1, <2>1, <2>3, RestTyped DEF Typed
<1>6. ASSUME Cached(s, r) \/ Len(s.lru) # LruSize PROVE Typed(x)
  <2>1. Typed(v) /\ Cached(v, r)
    BY <1>1, <1>6, NewRunTyped
  <2> HIDE DEF v
  <2> QED
    BY <1>1, <2>1, IncomingWftTyped
<1> HIDE DEF a, b, c, x
<1> QED
  BY <1>2, <1>3, <1>4, <1>5, <1>6

\* reconcile_buffered.
LEMMA ReconcileTyped ==
  ASSUME NEW s, Typed(s), NEW o
  PROVE  Typed(Reconcile(s, o))
<1> DEFINE n == Len(s.lru)
<1>1. IsSequence(s.lru) /\ n \in Nat /\ DOMAIN s.lru = 1 .. n
  BY SequenceIs DEF Typed, IsLru
<1>2. PICK F : /\ F[0] = s /\ Reconcile(s, o) = F[n]
               /\ \A i \in 1 .. n :
                     F[i] = IF i \in ToEvict(s)
                            THEN RequestEviction(F[i - 1], s.lru[i], "soft", 0, o) ELSE F[i - 1]
  BY <1>1, ReconcileSteps
<1>3. \A i \in 1 .. n : s.lru[i] \in Runs
  BY <1>1 DEF Typed, IsLru, Range, CachedRuns
<1> DEFINE Q == {i \in Nat : i <= n => Typed(F[i])}
<1> HIDE DEF n
<1>4. 0 \in Q
  BY <1>2
<1>5. ASSUME NEW i \in Nat, i \in Q PROVE i + 1 \in Q
  <2>1. CASE i + 1 <= n
    <3>1. i + 1 \in 1 .. n /\ (i + 1) - 1 = i /\ Typed(F[i])
      BY <1>1, <1>5, <2>1
    <3>2. Typed(RequestEviction(F[i], s.lru[i + 1], "soft", 0, o))
      BY <1>3, <3>1, EvictionTyped DEF Whys
    <3>3. F[i + 1] \in {F[i], RequestEviction(F[i], s.lru[i + 1], "soft", 0, o)}
      BY <1>2, <3>1
    <3> QED
      BY <3>1, <3>2, <3>3
  <2>2. CASE ~(i + 1 <= n)
    BY <2>2
  <2> QED
    BY <2>1, <2>2
<1>6. n \in Q
  <2> HIDE DEF Q
  <2> QED
    BY <1>1, <1>4, <1>5, SetInduction
<1> QED
  BY <1>1, <1>2, <1>6

\* An extra task is applied.
LEMMA ApplyExtraTyped ==
  ASSUME NEW s, Typed(s), NEW w \in Tasks, NEW o
  PROVE  Typed(ApplyExtra(s, w, o))
<1> DEFINE t == InstantiateOrUpdate(s, w, o)
           u == [t EXCEPT !.out = s.out]
           n == Note(u, "extra_activation")
<1>1. Typed(t)
  BY InstantiateTyped
<1>2. ApplyExtra(s, w, o) \in {t, n}
  BY DEF ApplyExtra, NoActivation
<1> HIDE DEF t
<1>3. Typed(u)
  BY <1>1, UnsentTyped DEF Typed
<1> HIDE DEF u
<1>4. Typed(n)
  BY <1>3, NoteTyped
<1> HIDE DEF n
<1> QED
  BY <1>1, <1>2, <1>4

\* The tasks that are ready are applied.
LEMMA ApplyReadyTyped ==
  ASSUME NEW s, Typed(s), NEW ready \in Seq(Tasks), NEW o
  PROVE  Typed(ApplyReady(s, ready, o))
<1> DEFINE n == Len(ready) - 1
<1>1. SUFFICES ASSUME ready # <<>> PROVE Typed(ApplyReady(s, ready, o))
  BY DEF ApplyReady
<1>2. IsSequence(ready) /\ DOMAIN ready = 1 .. Len(ready) /\ Len(ready) \in Nat
  BY IsOne
<1>3. n \in Nat
  BY <1>1, <1>2, ApplyReadySteps
<1>4. PICK F : /\ F[0] = InstantiateOrUpdate(s, ready[Len(ready)], o)
               /\ \A i \in 1 .. n : F[i] = ApplyExtra(F[i - 1], ready[i], o)
               /\ ApplyReady(s, ready, o) = F[n]
  BY <1>1, <1>2, ApplyReadySteps
<1>5. ready[Len(ready)] \in Tasks /\ \A i \in 1 .. n : ready[i] \in Tasks
  BY <1>2, <1>3
<1> DEFINE Q == {i \in Nat : i <= n => Typed(F[i])}
<1> HIDE DEF n
<1>6. 0 \in Q
  BY <1>4, <1>5, InstantiateTyped
<1>7. ASSUME NEW i \in Nat, i \in Q PROVE i + 1 \in Q
  <2>1. CASE i + 1 <= n
    <3>1. i + 1 \in 1 .. n /\ (i + 1) - 1 = i /\ Typed(F[i])
      BY <1>3, <1>7, <2>1
    <3>2. F[i + 1] = ApplyExtra(F[i], ready[i + 1], o) /\ ready[i + 1] \in Tasks
      BY <1>4, <1>5, <3>1
    <3> QED
      BY <3>1, <3>2, ApplyExtraTyped
  <2>2. CASE ~(i + 1 <= n)
    BY <2>2
  <2> QED
    BY <2>1, <2>2
<1>8. n \in Q
  <2> HIDE DEF Q
  <2> QED
    BY <1>3, <1>6, <1>7, SetInduction
<1> QED
  BY <1>3, <1>4, <1>8

\* With no activation sent yet, the run is asked for more.
LEMMA CheckAfterTasksTyped ==
  ASSUME NEW s, Typed(s), NEW out, NEW m, m.run \in Runs, NEW o
  PROVE  Typed(CheckAfterTasks(s, out, m, o))
<1> DEFINE r == m.run
           t == CheckMoreActivations(s, r, o)
           u == EvictIfFinished(t, out, r, m.status, o)
<1>1. ASSUME Cached(s, r) PROVE Typed(u)
  <2>1. Typed(t)
    BY <1>1, CheckMoreActivationsTyped
  <2> HIDE DEF t, r
  <2> QED
    BY <2>1, EvictionTyped DEF EvictIfFinished, Whys, r
<1>2. \/ CheckAfterTasks(s, out, m, o) = s
      \/ Cached(s, r) /\ CheckAfterTasks(s, out, m, o) = u
  BY DEF CheckAfterTasks
<1> HIDE DEF u
<1> QED
  BY <1>1, <1>2

\* A run leaves the cache.
LEMMA DropRunTyped ==
  ASSUME NEW s, Typed(s), NEW r \in Runs, Cached(s, r)
  PROVE  Typed(DropRun(s, r)) /\ DropRun(s, r).full = s.full
<1> DEFINE t == DropRun(s, r)
<1>1. IsLru(s.lru, CachedRuns(s)) /\ r \in CachedRuns(s) /\ r \in Range(s.lru)
  BY DEF Typed, CachedRuns, IsLru
<1>2. /\ DOMAIN t = DOMAIN St /\ DOMAIN t.cache = Runs
      /\ \A q \in Runs : t.cache[q] = IF r = q THEN NoRun ELSE s.cache[q]
      /\ t.lru = Without(s.lru, r) /\ t.full = s.full /\ t.fetch = s.fetch /\ t.timer = s.timer
      /\ t.out = s.out /\ t.rep = s.rep
  BY <1>1 DEF DropRun, Typed, St
<1> HIDE DEF t
<1>3. \A q \in Runs : Cached(t, q) <=> q # r /\ Cached(s, q)
  BY <1>2 DEF Cached, NoRun
<1>4. CachedRuns(t) = CachedRuns(s) \ {r}
  BY <1>3 DEF CachedRuns
<1>5. IsLru(t.lru, CachedRuns(t))
  BY <1>1, <1>2, <1>4, WithoutLru
<1>6. Typed(t)
  BY <1>2, <1>5 DEF Typed
<1> QED
  BY <1>2, <1>6 DEF t

\* The rest of the tasks that wait for a slot.
LEMMA TailFullTyped ==
  ASSUME NEW s, Typed(s), s.full # <<>>
  PROVE  Typed([s EXCEPT !.full = Tail(@)]) /\ Head(s.full) \in Seq(Tasks)
<1> DEFINE t == [s EXCEPT !.full = Tail(@)]
<1>1. IsBacklog(s.full) /\ IsSequence(s.full)
  BY DEF Typed, IsBacklog
<1>2. IsBacklog(Tail(s.full)) /\ Head(s.full) \in Seq(Tasks)
  BY <1>1, TailIs DEF IsBacklog
<1>3. /\ DOMAIN t = DOMAIN St /\ t.cache = s.cache /\ t.lru = s.lru /\ t.full = Tail(s.full)
      /\ t.fetch = s.fetch /\ t.timer = s.timer /\ t.out = s.out /\ t.rep = s.rep
  BY DEF Typed, St
<1> HIDE DEF t
<1>4. Typed(t)
  BY <1>2, <1>3, RestTyped DEF Typed
<1> QED
  BY <1>2, <1>4 DEF t

\* An input that is a post_activation.
IsPostInput(m) == m.run \in Runs /\ m.wft \in Tasks \cup {NoTask}

\* The end of an activation, and what is ready after it.
LEMMA FinishedTyped ==
  ASSUME NEW s, Typed(s), NEW m, m.run \in Runs, Cached(s, m.run), NEW evicted,
         NEW w \in Tasks \cup {NoTask}, NEW o
  PROVE  Typed(Finished(s, m, evicted, w, o))
<1> DEFINE r == m.run
           b == s.cache[r].buf
           d == DropRun(s, r)
           k == [s.cache[r] EXCEPT !.act = "none"]
           f == FinishActivation(s, r, m.chan = "auto")
           t == IF evicted THEN d ELSE f
           u == IF evicted /\ NextWft(b) = NoTask /\ w = NoTask /\ t.full # <<>>
                THEN [t EXCEPT !.full = Tail(@)] ELSE t
           ready == ReadyWfts(t, r, evicted, b, w)
           x == ApplyReady(u, ready, o)
<1>1. IsManaged(s.cache[r])
  BY CachedIs
<1>2. IsManaged(k)
  BY <1>1 DEF IsManaged, IsRecord, NewRun
<1>3. Typed(f)
  <2>1. Typed(Set(s, r, k))
    BY <1>2, SetTyped
  <2>2. f \in {s, Set(s, r, k)}
    BY DEF FinishActivation
  <2> HIDE DEF f, k
  <2> QED
    BY <2>1, <2>2
<1>4. Typed(d)
  BY DropRunTyped
<1>5. Finished(s, m, evicted, w, o) = CheckAfterTasks(x, s.out, m, o)
  BY DEF Finished
<1> HIDE DEF d, f
<1>6. Typed(t)
  BY <1>3, <1>4
<1> HIDE DEF t
<1>7. Typed(u)
  BY <1>6, TailFullTyped
<1>8. ready \in Seq(Tasks)
  <2>1. NextWft(b) \in Tasks \cup {NoTask}
    BY <1>1, BufferTyped DEF IsManaged
  <2>2. t.full # <<>> => Head(t.full) \in Seq(Tasks)
    BY <1>6, TailFullTyped
  <2>3. \A z \in Tasks : <<z>> \in Seq(Tasks)
    OBVIOUS
  <2>4. <<>> \in Seq(Tasks)
    OBVIOUS
  <2> HIDE DEF b
  <2> QED
    BY <2>1, <2>2, <2>3, <2>4 DEF ReadyWfts
<1> HIDE DEF u, ready
<1>9. Typed(x)
  BY <1>7, <1>8, ApplyReadyTyped
<1> HIDE DEF x
<1> QED
  BY <1>5, <1>9, CheckAfterTasksTyped

\* post_activation.
LEMMA PostActivationTyped ==
  ASSUME NEW s0, Typed(s0), NEW m, IsPostInput(m), NEW o
  PROVE  Typed(PostActivationInput(s0, m, o))
<1> DEFINE r == m.run
           s == Touch(s0, r)
           completes == CompletesWft(s, r, m.status)
           w == IF completes /\ s.cache[r].wft.id # 0 THEN m.wft ELSE NoTask
           c == [s EXCEPT !.cache[r].wft = NoWft]
           t == IF completes THEN c ELSE s
           e == s.cache[r].act = "Eviction" /\ m.chan = "lang"
<1>1. SUFFICES ASSUME Cached(s0, r) PROVE Typed(PostActivationInput(s0, m, o))
  BY DEF PostActivationInput
<1>2. r \in Runs /\ Typed(s) /\ Cached(s, r)
  BY <1>1, TouchTyped DEF IsPostInput
<1>3. PostActivationInput(s0, m, o) = Finished(t, m, e, w, o)
  BY <1>1 DEF PostActivationInput
<1> HIDE DEF s
<1>4. Typed(c) /\ Cached(c, r)
  <2> DEFINE k == [s.cache[r] EXCEPT !.wft = NoWft]
  <2>1. NoWft \in [id : 0 .. MaxTasks, att : 1 .. 2, q : {"none", "queries", "legacy"}]
    BY WorkflowRunsAssumption DEF NoWft
  <2>2. IsManaged(k)
    BY <1>2, <2>1, CachedIs DEF IsManaged, IsRecord, NewRun
  <2>3. c = Set(s, r, k)
    BY <1>2 DEF Set, Typed
  <2> HIDE DEF c, k
  <2> QED
    BY <1>2, <2>2, <2>3, SetTyped
<1> HIDE DEF c
<1>5. Typed(t) /\ Cached(t, r) /\ w \in Tasks \cup {NoTask}
  BY <1>2, <1>4 DEF IsPostInput
<1> HIDE DEF t, w, e
<1> QED
  BY <1>2, <1>3, <1>5, FinishedTyped

----------------------------------------------------------------------------
(* The types of the whole state.                                           *)

\* The local inputs of the stream.
IsInput(m) ==
  /\ m.t \in {"complete", "post", "evict", "hb", "la"} /\ m.run \in Runs
  /\ m.t = "complete" => {"t", "run", "chan"} \subseteq DOMAIN m /\ IsCompletion(m)
  /\ m.t = "post" => IsPostInput(m)

AreInputs(x) == IsSequence(x) /\ \A i \in DOMAIN x : IsInput(x[i])

CallStates == Outcomes \cup {"idle", "sent", "Lost"}

\* What the stream changes.
StreamTypes ==
  /\ Typed(St) /\ AreActs(acts) /\ call \in [Callers -> [Runs -> CallStates]]
  /\ faults \in 0 .. MaxFaults /\ done \in BOOLEAN

\* What it finds.
OtherTypes ==
  /\ cap \in Capacities /\ ignore \in BOOLEAN
  /\ AreInputs(local) /\ lang \in [Runs -> LangActs \cup {"none"}]
  /\ nextId \in 1 .. MaxTasks + 1 /\ sticky \subseteq Runs /\ retry \subseteq Runs
  /\ open \in [Runs -> {0, Scheduled, Closed} \cup 1 .. MaxTasks]
  /\ beats \in 0 .. MaxBeats /\ dropped \subseteq Runs
  /\ late \in BOOLEAN /\ shutdown \in BOOLEAN

TypesHold == StreamTypes /\ OtherTypes

\* The first state.
LEMMA InitTypes ==
  ASSUME Init
  PROVE  TypesHold
<1>1. Typed(St)
  <2>1. /\ DOMAIN St.cache = Runs /\ St.lru = <<>> /\ St.full = <<>> /\ St.fetch = {}
        /\ St.timer = [r \in Runs |-> FALSE] /\ St.out = <<>> /\ St.rep = {}
        /\ \A r \in Runs : St.cache[r] = NoRun
    BY DEF St, Init
  <2>2. CachedRuns(St) = {}
    BY <2>1 DEF CachedRuns, Cached, NoRun
  <2>3. LruSize \in Nat /\ 0 <= LruSize
    BY WorkflowRunsAssumption DEF LruSize, Init
  <2>4. IsSequence(<<>>) /\ DOMAIN <<>> = {} /\ Len(<<>>) = 0
    BY ShortSequences
  <2>5. IsLru(<<>>, {})
    BY <2>3, <2>4 DEF IsLru, Range
  <2>6. IsBacklog(<<>>) /\ AreActs(<<>>) /\ AreReplies({})
    BY <2>4 DEF IsBacklog, AreActs, AreReplies
  <2> QED
    BY <2>1, <2>2, <2>5, <2>6 DEF Typed
<1>2. AreActs(acts) /\ AreInputs(local)
  BY ShortSequences DEF Init, AreActs, AreInputs
<1>3. StreamTypes
  <2>1. call \in [Callers -> [Runs -> CallStates]]
    BY DEF Init, CallStates
  <2>2. faults \in 0 .. MaxFaults
    BY WorkflowRunsAssumption DEF Init
  <2>3. done \in BOOLEAN
    BY DEF Init
  <2> QED
    BY <1>1, <1>2, <2>1, <2>2, <2>3 DEF StreamTypes
<1>4. OtherTypes
  <2>1. lang \in [Runs -> LangActs \cup {"none"}]
    BY DEF Init
  <2>2. open \in [Runs -> {0, Scheduled, Closed} \cup 1 .. MaxTasks]
    BY DEF Init
  <2>3. nextId \in 1 .. MaxTasks + 1 /\ beats \in 0 .. MaxBeats
    BY WorkflowRunsAssumption DEF Init
  <2>4. late \in BOOLEAN /\ shutdown \in BOOLEAN /\ ignore \in BOOLEAN /\ cap \in Capacities
    BY WorkflowRunsAssumption DEF Init
  <2>5. sticky \subseteq Runs /\ retry \subseteq Runs /\ dropped \subseteq Runs
    BY DEF Init
  <2> QED
    BY <1>2, <2>1, <2>2, <2>3, <2>4, <2>5 DEF OtherTypes
<1> QED
  BY <1>3, <1>4 DEF TypesHold

\* What the machines may answer has no more local activities than the bound.
LEMMA OracleIs ==
  ASSUME NEW o \in Oracle
  PROVE  o.las \in 0 .. MaxLAs
<1> DEFINE A == {[Calm EXCEPT !.jobs = TRUE], [Calm EXCEPT !.fin = TRUE],
                 [Calm EXCEPT !.page = TRUE], [Calm EXCEPT !.expired = TRUE],
                 [Calm EXCEPT !.jobs = TRUE, !.term = TRUE]}
           B == {[Calm EXCEPT !.las = n] : n \in 1 .. MaxLAs}
           D == {[Calm EXCEPT !.jobs = TRUE, !.las = n] : n \in 1 .. MaxLAs}
           C == {[Calm EXCEPT !.err = TRUE, !.nd = b] : b \in {FALSE, FailOnND}}
<1>1. \/ o.las = 0
      \/ \E n \in 1 .. MaxLAs : o = [Calm EXCEPT !.las = n]
      \/ \E n \in 1 .. MaxLAs : o = [Calm EXCEPT !.jobs = TRUE, !.las = n]
  <2>1. \A x \in A \cup Cancelling : x.las = 0
    <3>1. Calm.las = 0
      BY DEF Calm
    <3>2. [Calm EXCEPT !.jobs = TRUE].las = 0
      BY DEF Calm
    <3>3. [Calm EXCEPT !.fin = TRUE].las = 0
      BY DEF Calm
    <3>4. [Calm EXCEPT !.page = TRUE].las = 0
      BY DEF Calm
    <3>5. [Calm EXCEPT !.expired = TRUE].las = 0
      BY DEF Calm
    <3>6. [Calm EXCEPT !.jobs = TRUE, !.term = TRUE].las = 0
      BY DEF Calm
    <3>7. [Calm EXCEPT !.cancelled = TRUE].las = 0
      BY DEF Calm
    <3>8. [Calm EXCEPT !.refused = TRUE].las = 0
      BY DEF Calm
    <3>9. \A x \in A : x.las = 0
      BY <3>2, <3>3, <3>4, <3>5, <3>6, Zenon
    <3>10. \A x \in Cancelling : x.las = 0
      BY <3>1, <3>7, <3>8, Zenon DEF Cancelling
    <3> QED
      BY <3>9, <3>10, Zenon
  <2>2. \A b : [Calm EXCEPT !.err = TRUE, !.nd = b].las = 0
    BY DEF Calm
  <2>3. o \in A \cup Cancelling \cup B \cup D \cup C
    BY Zenon DEF Oracle
  <2>4. o \in C => \E b : o = [Calm EXCEPT !.err = TRUE, !.nd = b]
    BY Zenon
  <2>5. o \in B => \E n \in 1 .. MaxLAs : o = [Calm EXCEPT !.las = n]
    BY Zenon
  <2>d. o \in D => \E n \in 1 .. MaxLAs : o = [Calm EXCEPT !.jobs = TRUE, !.las = n]
    BY Zenon
  <2> HIDE DEF A, B, C, D
  <2>6. o \in C => o.las = 0
    BY <2>2, <2>4, Zenon
  <2> QED
    BY <2>1, <2>3, <2>5, <2>d, <2>6, Zenon
<1>2. \A n : [Calm EXCEPT !.las = n].las = n /\ [Calm EXCEPT !.jobs = TRUE, !.las = n].las = n
  BY DEF Calm
<1>3. o.las = 0 \/ o.las \in 1 .. MaxLAs
  BY <1>1, <1>2
<1> QED
  BY <1>3, WorkflowRunsAssumption

\* The state after a step is of its types when the handlers left it so.
LEMMA AfterTyped ==
  ASSUME NEW t, Typed(t), cap' = cap, cache' = t.cache, lru' = t.lru, full' = t.full,
         fetch' = t.fetch, timer' = t.timer
  PROVE  Typed(St)'
<1>1. CachedRuns(St)' = CachedRuns(t)
  BY DEF CachedRuns, Cached, St
<1>2. IsLru(lru, CachedRuns(St))'
  BY <1>1 DEF Typed, IsLru, LruSize
<1>3. IsBacklog(full)' /\ (\A f \in fetch' : IsFetch(f)) /\ timer' \in [Runs -> BOOLEAN]
  BY DEF Typed, IsBacklog
<1>4. DOMAIN cache' = Runs /\ \A r \in Runs : cache'[r] = NoRun \/ IsManaged(cache'[r])
  BY DEF Typed
<1>5. AreActs(<<>>) /\ AreReplies({})
  BY ShortSequences DEF AreActs, AreReplies
<1> QED
  BY <1>2, <1>3, <1>4, <1>5 DEF Typed, St

\* The tail of every step of the stream.
LEMMA StreamStepTyped ==
  ASSUME TypesHold, NEW s, Typed(s), NEW o, NEW cost \in 0 .. 2, StreamStep(s, o, cost),
         cap' = cap
  PROVE  StreamTypes' /\ dropped' = dropped
<1> DEFINE t == Reconcile(s, o)
<1>1. Typed(t) /\ Publish(t, cost)
  BY ReconcileTyped DEF StreamStep
<1> HIDE DEF t
<1>2. Typed(St)'
  BY <1>1, AfterTyped DEF Publish
<1>3. AreActs(acts)'
  <2>1. acts' = acts \/ acts' = acts \o t.out
    BY <1>1 DEF Publish
  <2>2. AreActs(acts) /\ AreActs(t.out)
    BY <1>1 DEF TypesHold, StreamTypes, Typed
  <2> DEFINE x == acts \o t.out
  <2>3. /\ IsSequence(x)
        /\ \A i \in DOMAIN x : \/ i \in DOMAIN acts /\ x[i] = acts[i]
                               \/ i - Len(acts) \in DOMAIN t.out /\ x[i] = t.out[i - Len(acts)]
    BY <2>2, ConcatIs DEF AreActs
  <2> HIDE DEF x
  <2>4. AreActs(x)
    BY <2>2, <2>3 DEF AreActs
  <2> QED
    BY <2>1, <2>2, <2>4 DEF x
<1>4. call' \in [Callers -> [Runs -> CallStates]]
  <2>1. ASSUME NEW c \in Callers, NEW r \in Runs
        PROVE  (IF \E x \in t.rep : x.chan = c /\ x.run = r
                THEN (CHOOSE x \in t.rep : x.chan = c /\ x.run = r).outcome
                ELSE call[c][r]) \in CallStates
    <3>1. CASE \E x \in t.rep : x.chan = c /\ x.run = r
      <4> DEFINE z == CHOOSE x \in t.rep : x.chan = c /\ x.run = r
      <4>1. z \in t.rep
        BY <3>1
      <4> HIDE DEF z
      <4>2. z.outcome \in CallStates
        BY <1>1, <4>1 DEF Typed, AreReplies, CallStates
      <4> QED
        BY <3>1, <4>2 DEF z
    <3>2. CASE ~\E x \in t.rep : x.chan = c /\ x.run = r
      BY <3>2 DEF TypesHold, StreamTypes
    <3> QED
      BY <3>1, <3>2
  <2>2. call' = [c \in Callers |-> [r \in Runs |->
                   IF \E x \in t.rep : x.chan = c /\ x.run = r
                   THEN (CHOOSE x \in t.rep : x.chan = c /\ x.run = r).outcome
                   ELSE call[c][r]]]
    BY <1>1 DEF Publish
  <2> QED
    BY <2>1, <2>2
<1>5. faults' \in 0 .. MaxFaults /\ dropped' = dropped
  BY <1>1, WorkflowRunsAssumption DEF Publish, TypesHold, StreamTypes
<1>6. done' \in BOOLEAN
  BY <1>1 DEF Publish, ShutdownDone
<1> QED
  BY <1>2, <1>3, <1>4, <1>5, <1>6 DEF StreamTypes

\* The rest of the inputs.
LEMMA TailInputs ==
  ASSUME TypesHold, local # <<>>
  PROVE  AreInputs(Tail(local)) /\ IsInput(local[1])
BY TailIs DEF TypesHold, OtherTypes, AreInputs

\* The inputs of the stream from the queue.
LEMMA LocalInputTypes ==
  ASSUME TypesHold, Completion \/ PostActivation \/ EvictRequest \/ Heartbeat \/ LaResolved
  PROVE  TypesHold'
<1> DEFINE m == local[1]
<1>1. local # <<>> /\ local' = Tail(local)
  BY DEF Completion, PostActivation, EvictRequest, Heartbeat, LaResolved, Local
<1>2. AreInputs(Tail(local)) /\ IsInput(m)
  BY <1>1, TailInputs
<1>3. UNCHANGED <<lang, server, beats, shutdown, cap, ignore>>
  BY DEF Completion, PostActivation, EvictRequest, Heartbeat, LaResolved
<1>4. Typed(St)
  BY DEF TypesHold, StreamTypes
<1>5. \E s, o : \E cost \in 0 .. 2 : Typed(s) /\ StreamStep(s, o, cost)
  <2>1. CASE Completion
    <3>1. PICK o \in Oracle : StreamStep(CompletionInput(St, m, o), o, Faulty(o))
      BY <2>1 DEF Completion
    <3>2. IsCompletion(m)
      BY <1>2, <2>1 DEF IsInput, Completion, Local
    <3>3. Typed(CompletionInput(St, m, o)) /\ Faulty(o) \in 0 .. 1
      BY <1>4, <3>2, OracleIs, CompletionTyped DEF Faulty
    <3> QED
      BY <3>1, <3>3
  <2>2. CASE PostActivation
    <3>1. PICK o \in Oracle : StreamStep(PostActivationInput(St, m, o), o, Faulty(o))
      BY <2>2 DEF PostActivation
    <3>2. IsPostInput(m)
      BY <1>2, <2>2 DEF IsInput, PostActivation, Local
    <3>3. Typed(PostActivationInput(St, m, o)) /\ Faulty(o) \in 0 .. 1
      BY <1>4, <3>2, PostActivationTyped DEF Faulty
    <3> QED
      BY <3>1, <3>3
  <2>3. CASE EvictRequest
    <3>1. PICK o : StreamStep(RequestEviction(St, m.run, "hard", 0, o), o, Faulty(o))
      BY <2>3 DEF EvictRequest
    <3>2. Typed(RequestEviction(St, m.run, "hard", 0, o)) /\ Faulty(o) \in 0 .. 1
      BY <1>2, <1>4, EvictionTyped DEF IsInput, Whys, Faulty
    <3> QED
      BY <3>1, <3>2
  <2>4. CASE Heartbeat
    <3> DEFINE t == Touch(St, m.run)
    <3>1. StreamStep(HeartbeatTimeout(t, m.run, Calm), Calm, 0)
      BY <2>4 DEF Heartbeat
    <3>2. Typed(t)
      BY <1>4, TouchTyped
    <3> HIDE DEF t
    <3>3. Typed(HeartbeatTimeout(t, m.run, Calm))
      BY <1>2, <3>2, HeartbeatTyped DEF IsInput
    <3> QED
      BY <3>1, <3>3
  <2>5. CASE LaResolved
    <3> DEFINE t == Touch(St, m.run)
    <3>1. PICK o : StreamStep(LocalResolution(t, m.run, o), o, Faulty(o))
      BY <2>5 DEF LaResolved
    <3>2. Typed(t)
      BY <1>4, TouchTyped
    <3> HIDE DEF t
    <3>3. Typed(LocalResolution(t, m.run, o)) /\ Faulty(o) \in 0 .. 1
      BY <1>2, <3>2, LocalResolutionTyped DEF IsInput, Faulty
    <3> QED
      BY <3>1, <3>3
  <2> QED
    BY <2>1, <2>2, <2>3, <2>4, <2>5
<1>6. StreamTypes' /\ dropped' = dropped
  BY <1>3, <1>5, StreamStepTyped
<1>7. OtherTypes'
  BY <1>1, <1>2, <1>3, <1>6 DEF TypesHold, OtherTypes, AreInputs, IsInput, server
<1> QED
  BY <1>6, <1>7 DEF TypesHold

\* The other inputs of the stream.
LEMMA StreamInputTypes ==
  ASSUME TypesHold, Bump \/ NewWft \/ FailedPoll \/ \E f \in fetch : FetchDone(f) \/ FetchFailed(f)
  PROVE  TypesHold'
<1>1. Typed(St) /\ nextId \in 1 .. MaxTasks + 1 /\ retry \subseteq Runs
  BY DEF TypesHold, StreamTypes, OtherTypes
<1>2. /\ \E s, o : \E cost \in 0 .. 2 : Typed(s) /\ StreamStep(s, o, cost)
      /\ UNCHANGED <<local, lang, beats, shutdown, cap, ignore, retry, late>>
      /\ UNCHANGED server \/ \E r \in Runs : \E k : SendsTask(r, k) /\ sticky' \subseteq sticky
  <2>1. CASE Bump
    BY <1>1, <2>1 DEF Bump, server
  <2>2. CASE NewWft
    <3>1. PICK r \in Runs, k \in Kinds, f \in BOOLEAN, o \in Oracle :
             /\ SendsTask(r, k)
             /\ StreamStep(InstantiateOrUpdate(St, [id |-> nextId, run |-> r, kind |-> k, full |-> f,
                                                    att |-> IF r \in retry THEN 2 ELSE 1], o),
                           o, Faulty(o))
             /\ sticky' = IF f THEN sticky \ {r} ELSE sticky
      BY <2>2 DEF NewWft
    <3> DEFINE w == [id |-> nextId, run |-> r, kind |-> k, full |-> f,
                     att |-> IF r \in retry THEN 2 ELSE 1]
    <3>2. nextId \in 1 .. MaxTasks
      BY <1>1, <3>1, WorkflowRunsAssumption DEF SendsTask
    <3>3. w \in Tasks
      BY <3>2, WorkflowRunsAssumption DEF Tasks
    <3> HIDE DEF w
    <3>4. Typed(InstantiateOrUpdate(St, w, o)) /\ Faulty(o) \in 0 .. 1
      BY <1>1, <3>3, InstantiateTyped DEF Faulty
    <3>5. StreamStep(InstantiateOrUpdate(St, w, o), o, Faulty(o))
      BY <3>1 DEF w
    <3>6. sticky' \subseteq sticky
      BY <3>1
    <3>7. \E x, p : \E cost \in 0 .. 2 : Typed(x) /\ StreamStep(x, p, cost)
      BY <3>4, <3>5
    <3>8. \E z \in Runs : \E y : SendsTask(z, y) /\ sticky' \subseteq sticky
      BY <3>1, <3>6
    <3> QED
      BY <3>1, <3>7, <3>8 DEF SendsTask
  <2>3. CASE FailedPoll
    <3>1. PICK r \in Runs, o \in Cancelling :
             /\ SendsTask(r, "task") /\ UNCHANGED sticky
             /\ StreamStep(RequestEviction(St, r, "page", nextId, o), o, 1 + Faulty(o))
      BY <2>3 DEF FailedPoll
    <3>2. Typed(RequestEviction(St, r, "page", nextId, o))
      BY <1>1, EvictionTyped DEF Whys
    <3>c. 1 + Faulty(o) \in 0 .. 2
      BY DEF Faulty
    <3>3. \E x, p : \E cost \in 0 .. 2 : Typed(x) /\ StreamStep(x, p, cost)
      BY <3>1, <3>2, <3>c
    <3>4. \E z \in Runs : \E k : SendsTask(z, k) /\ sticky' \subseteq sticky
      BY <3>1
    <3> QED
      BY <3>1, <3>3, <3>4 DEF SendsTask
  <2>4. CASE \E f \in fetch : FetchDone(f) \/ FetchFailed(f)
    <3>1. PICK f \in fetch : FetchDone(f) \/ FetchFailed(f)
      BY <2>4
    <3> DEFINE s == [St EXCEPT !.fetch = @ \ {f}]
    <3>2. IsFetch(f)
      BY <1>1 DEF Typed, St
    <3>3. Typed(s)
      <4>1. /\ DOMAIN s = DOMAIN St /\ s.cache = St.cache /\ s.lru = St.lru /\ s.full = St.full
            /\ s.fetch = St.fetch \ {f} /\ s.timer = St.timer /\ s.out = St.out /\ s.rep = St.rep
        BY DEF St
      <4> HIDE DEF s
      <4> QED
        BY <1>1, <4>1, RestTyped DEF Typed
    <3>4. CASE FetchFailed(f)
      <4>1. PICK o : StreamStep(RequestEviction(s, f.run, "page", 0, o), o, 1 + Faulty(o))
        BY <3>4 DEF FetchFailed
      <4>2. Typed(RequestEviction(s, f.run, "page", 0, o))
        BY <3>2, <3>3, EvictionTyped DEF IsFetch, Whys
      <4>c. 1 + Faulty(o) \in 0 .. 2
        BY DEF Faulty
      <4>3. \E x, p : \E cost \in 0 .. 2 : Typed(x) /\ StreamStep(x, p, cost)
        BY <4>1, <4>2, <4>c
      <4> QED
        BY <3>4, <4>3 DEF FetchFailed, server
    <3>5. CASE FetchDone(f)
      <4> DEFINE a(o) == InstantiateOrUpdate(s, [f.wft EXCEPT !.full = TRUE], o)
                 t == Touch(s, f.run)
                 b(o) == FetchedPageCompletion(t, f.run, o)
                 c == Note(s, "run_missing")
                 d(o) == IF f.what = "full" THEN a(o)
                         ELSE IF Cached(s, f.run) THEN EvictLru(b(o), o) ELSE c
      <4>1. PICK o \in Oracle : StreamStep(d(o), o, Faulty(o))
        BY <3>5 DEF FetchDone
      <4>2. f.what = "full" => Typed(a(o))
        <5>1. ASSUME f.what = "full" PROVE [f.wft EXCEPT !.full = TRUE] \in Tasks
          <6>1. f.wft \in Tasks
            BY <3>2, <5>1 DEF IsFetch
          <6> QED
            BY <6>1 DEF Tasks
        <5> HIDE DEF s
        <5> QED
          BY <3>3, <5>1, InstantiateTyped
      <4>3. Cached(s, f.run) => Typed(EvictLru(b(o), o))
        <5>1. ASSUME Cached(s, f.run) PROVE Typed(b(o))
          <6>1. Typed(t) /\ Cached(t, f.run) /\ f.run \in Runs
            BY <3>2, <3>3, <5>1, TouchTyped DEF IsFetch
          <6> HIDE DEF t
          <6> QED
            BY <6>1, OracleIs, FetchedPageTyped
        <5> HIDE DEF b
        <5> QED
          BY <5>1, EvictLruTyped
      <4>4. Typed(c)
        BY <3>3, NoteTyped
      <4>5. Typed(d(o)) /\ Faulty(o) \in 0 .. 1
        <5> HIDE DEF a, b, c, s
        <5> QED
          BY <4>2, <4>3, <4>4 DEF Faulty
      <4> HIDE DEF d
      <4>6. \E x, p : \E cost \in 0 .. 2 : Typed(x) /\ StreamStep(x, p, cost)
        BY <4>1, <4>5
      <4> QED
        BY <3>5, <4>6 DEF FetchDone, server
    <3> QED
      BY <3>1, <3>4, <3>5
  <2> QED
    BY <2>1, <2>2, <2>3, <2>4
<1>3. StreamTypes' /\ dropped' = dropped
  BY <1>2, StreamStepTyped
<1>4. nextId' \in 1 .. MaxTasks + 1 /\ sticky' \subseteq Runs
      /\ open' \in [Runs -> {0, Scheduled, Closed} \cup 1 .. MaxTasks]
  <2>1. CASE UNCHANGED server
    BY <2>1 DEF server, TypesHold, OtherTypes
  <2>2. CASE \E r \in Runs : \E k : SendsTask(r, k) /\ sticky' \subseteq sticky
    <3>1. PICK r \in Runs : \E k : SendsTask(r, k) /\ sticky' \subseteq sticky
      BY <2>2
    <3>2. PICK k : SendsTask(r, k) /\ sticky' \subseteq sticky
      BY <3>1
    <3>3. nextId \in 1 .. MaxTasks
      BY <1>1, <3>2, WorkflowRunsAssumption DEF SendsTask
    <3>4. nextId' \in 1 .. MaxTasks + 1
      BY <3>2, <3>3, WorkflowRunsAssumption DEF SendsTask
    <3>5. open' \in [Runs -> {0, Scheduled, Closed} \cup 1 .. MaxTasks]
      BY <3>2, <3>3 DEF SendsTask, TypesHold, OtherTypes
    <3> QED
      BY <3>2, <3>4, <3>5 DEF TypesHold, OtherTypes
  <2> QED
    BY <1>2, <2>1, <2>2
<1>5. OtherTypes'
  BY <1>2, <1>3, <1>4 DEF TypesHold, OtherTypes, AreInputs, IsInput
<1> QED
  BY <1>3, <1>5 DEF TypesHold

\* One more input.
LEMMA AppendInputs ==
  ASSUME NEW x, AreInputs(x), NEW m, IsInput(m)
  PROVE  AreInputs(Append(x, m))
BY AppendIs DEF AreInputs

\* What the stream keeps is not touched.
LEMMA StreamSame ==
  ASSUME TypesHold, UNCHANGED <<cache, lru, full, fetch, cap>>, timer' \in [Runs -> BOOLEAN]
  PROVE  Typed(St)'
<1> DEFINE t == [St EXCEPT !.timer = timer']
<1>1. Typed(St)
  BY DEF TypesHold, StreamTypes
<1>2. /\ DOMAIN t = DOMAIN St /\ t.cache = St.cache /\ t.lru = St.lru /\ t.full = St.full
      /\ t.fetch = St.fetch /\ t.timer = timer' /\ t.out = St.out /\ t.rep = St.rep
  BY DEF St
<1>3. /\ St.cache = cache /\ St.lru = lru /\ St.full = full /\ St.fetch = fetch
  BY DEF St
<1> HIDE DEF t
<1>4. Typed(t)
  BY <1>1, <1>2, RestTyped DEF Typed
<1> QED
  BY <1>2, <1>3, <1>4, AfterTyped

\* The poll loop takes an activation.
LEMMA PollTypes ==
  ASSUME TypesHold, Poll
  PROVE  TypesHold'
<1> DEFINE a == acts[1]
           m == [t |-> "complete", run |-> a.run, chan |-> "auto", ok |-> a.kind = "autocomplete",
                 resp |-> "none", nd |-> a.kind = "autofail_nd"]
<1>1. AreActs(acts) /\ acts # <<>> /\ acts' = Tail(acts)
  BY DEF Poll, TypesHold, StreamTypes
<1>2. a.run \in Runs /\ a.kind \in LangActs \cup Automatic /\ AreActs(acts)'
  BY <1>1, TailIs DEF AreActs
<1>3. UNCHANGED <<stream, outside, done>>
  BY DEF Poll
<1>4. Typed(St)'
  BY <1>3, StreamSame DEF stream, outside, TypesHold, StreamTypes, Typed, St
<1>5. AreInputs(local) /\ lang \in [Runs -> LangActs \cup {"none"}]
      /\ call \in [Callers -> [Runs -> CallStates]]
  BY DEF TypesHold, OtherTypes, StreamTypes
<1>6. IsInput(m)
  BY <1>2 DEF IsInput, IsCompletion, Chans, Callers
<1>7. AreInputs(Append(local, m))
  <2> HIDE DEF m
  <2> QED
    BY <1>5, <1>6, AppendInputs
<1>8. CASE a.kind \in Automatic
  <2>1. /\ call' = [call EXCEPT !["auto"][a.run] = "sent"] /\ local' = Append(local, m)
        /\ lang' = lang
    BY <1>8 DEF Poll
  <2>2. AreInputs(local)'
    <3> HIDE DEF m
    <3> QED
      BY <1>7, <2>1 DEF AreInputs, IsInput
  <2>3. call' \in [Callers -> [Runs -> CallStates]]
    BY <1>2, <1>5, <2>1 DEF Callers, CallStates
  <2> QED
    BY <1>2, <1>3, <1>4, <1>5, <2>1, <2>2, <2>3
    DEF TypesHold, StreamTypes, OtherTypes, stream, outside, server
<1>9. CASE a.kind \notin Automatic
  <2>1. lang' = [lang EXCEPT ![a.run] = a.kind] /\ call' = call /\ local' = local
    BY <1>9 DEF Poll
  <2>2. lang' \in [Runs -> LangActs \cup {"none"}]
    BY <1>2, <1>5, <1>9, <2>1
  <2> QED
    BY <1>2, <1>3, <1>4, <1>5, <2>1, <2>2
    DEF TypesHold, StreamTypes, OtherTypes, stream, outside, server
<1> QED
  BY <1>8, <1>9

\* A completion that waits is forsaken.
LEMMA ForsakeKept ==
  ASSUME NEW x, IsKept(x)
  PROVE  IsKept(Forsake(x)) /\ (Forsake(x) = <<>> <=> x = <<>>)
<1>1. DOMAIN Forsake(x) = DOMAIN x
  BY DEF Forsake
<1>2. CASE x = <<>>
  BY <1>2 DEF Forsake, IsKept
<1>3. CASE x # <<>>
  <2>1. DOMAIN x = {1} /\ "chan" \in DOMAIN x[1] /\ x[1].chan \in Chans
    BY <1>3 DEF IsKept
  <2>2. Forsake(x)[1] = IF x[1].chan = "auto" THEN [x[1] EXCEPT !.chan = "gone"] ELSE x[1]
    BY <2>1 DEF Forsake
  <2>3. "chan" \in DOMAIN Forsake(x)[1] /\ Forsake(x)[1].chan \in Chans
    BY <2>1, <2>2 DEF Chans
  <2>4. Forsake(x) # <<>>
    BY <1>1, <2>1
  <2> QED
    BY <1>1, <1>3, <2>1, <2>3, <2>4 DEF IsKept
<1> QED
  BY <1>2, <1>3

\* The caller of the poll goes away.
LEMMA PollDroppedTypes ==
  ASSUME TypesHold, NEW r \in Runs, PollDropped(r)
  PROVE  TypesHold'
<1>1. /\ UNCHANGED <<lru, full, fetch, timer, asserts, outside, done, acts, lang>>
      /\ call' = [call EXCEPT !["auto"][r] = "idle"] /\ dropped' = dropped \cup {r}
  BY DEF PollDropped
<1>2. Typed(St)'
  <2>1. Typed(St) /\ timer \in [Runs -> BOOLEAN]
    BY DEF TypesHold, StreamTypes, Typed, St
  <2>2. CASE ~Cached(St, r)
    BY <1>1, <2>1, <2>2, StreamSame DEF PollDropped, outside
  <2>3. CASE Cached(St, r)
    <3> DEFINE h == St.cache[r]
               k == [h EXCEPT !.page = Forsake(@), !.laDat = Forsake(@)]
               t == Set(St, r, k)
    <3>1. IsManaged(h)
      BY <2>1, <2>3, CachedIs
    <3>2. IsManaged(k)
      <4>1. /\ IsKept(Forsake(h.page)) /\ IsKept(Forsake(h.laDat))
            /\ Forsake(h.laDat) = <<>> <=> h.laDat = <<>>
        BY <3>1, ForsakeKept DEF IsManaged
      <4> HIDE DEF h
      <4> QED
        BY <3>1, <4>1 DEF IsManaged, IsRecord, NewRun
    <3>3. Typed(t)
      BY <2>1, <2>3, <3>2, SetTyped
    <3>4. /\ t.cache = [cache EXCEPT ![r] = k] /\ t.lru = lru /\ t.full = full /\ t.fetch = fetch
          /\ t.timer = timer
      BY DEF Set, St
    <3>5. cache' = [cache EXCEPT ![r] = k]
      BY <2>1, <2>3 DEF PollDropped, St, Typed
    <3> HIDE DEF t, k
    <3> QED
      BY <1>1, <3>3, <3>4, <3>5, AfterTyped DEF outside
  <2> QED
    BY <2>2, <2>3
<1>3. AreInputs(local)'
  <2>1. AreInputs(local)
    BY DEF TypesHold, OtherTypes
  <2> DEFINE x == [i \in DOMAIN local |->
                     IF local[i].t = "complete" /\ local[i].run = r /\ local[i].chan = "auto"
                     THEN [local[i] EXCEPT !.chan = "gone"] ELSE local[i]]
  <2>2. local' = x
    BY DEF PollDropped
  <2>3. DOMAIN x = DOMAIN local /\ x = [i \in DOMAIN x |-> x[i]]
    OBVIOUS
  <2>4. ASSUME NEW i \in DOMAIN x PROVE IsInput(x[i])
    <3>1. IsInput(local[i])
      BY <2>1, <2>4 DEF AreInputs
    <3>2. CASE local[i].t = "complete" /\ local[i].run = r /\ local[i].chan = "auto"
      <4>1. x[i] = [local[i] EXCEPT !.chan = "gone"]
        BY <2>4, <3>2
      <4>2. {"t", "run", "chan"} \subseteq DOMAIN local[i]
        BY <3>1, <3>2 DEF IsInput
      <4>3. /\ x[i].t = "complete" /\ x[i].run = r /\ x[i].chan = "gone"
            /\ DOMAIN x[i] = DOMAIN local[i]
        BY <3>2, <4>1, <4>2
      <4> HIDE DEF x
      <4> QED
        BY <4>2, <4>3 DEF IsInput, IsCompletion, Chans
    <3>3. CASE ~(local[i].t = "complete" /\ local[i].run = r /\ local[i].chan = "auto")
      BY <2>4, <3>1, <3>3
    <3> QED
      BY <3>2, <3>3
  <2> HIDE DEF x
  <2>5. IsSequence(x)
    BY <2>1, <2>3, MappedIs DEF AreInputs
  <2>6. AreInputs(x)
    BY <2>4, <2>5 DEF AreInputs
  <2> QED
    BY <2>2, <2>6 DEF AreInputs, IsInput
<1>4. call' \in [Callers -> [Runs -> CallStates]]
  BY <1>1 DEF TypesHold, StreamTypes, Callers, CallStates
<1> QED
  BY <1>1, <1>2, <1>3, <1>4 DEF TypesHold, StreamTypes, OtherTypes, outside, server

\* Lang completes an activation.
LEMMA LangCompletesTypes ==
  ASSUME TypesHold, NEW r \in Runs, LangCompletes(r)
  PROVE  TypesHold'
<1>1. /\ UNCHANGED <<stream, done, acts, server, beats, shutdown, cap, ignore>>
      /\ call' = [call EXCEPT !["lang"][r] = IF done THEN "idle" ELSE "sent"]
      /\ lang' = [lang EXCEPT ![r] = "none"]
  BY DEF LangCompletes
<1>2. Typed(St)'
  BY <1>1, StreamSame DEF stream, TypesHold, StreamTypes, Typed, St
<1>3. faults' \in 0 .. MaxFaults /\ AreInputs(local)'
  <2> DEFINE m(ok) == [t |-> "complete", run |-> r, chan |-> "lang", ok |-> ok,
                       resp |-> IF lang[r] \in {"legacy", "queries"} THEN lang[r] ELSE "none",
                       nd |-> FALSE]
  <2>1. PICK ok \in BOOLEAN : /\ ok \/ faults < MaxFaults
                              /\ faults' = IF ok THEN faults ELSE faults + 1
                              /\ local' = IF done THEN local ELSE Append(local, m(ok))
    BY DEF LangCompletes
  <2>2. faults' \in 0 .. MaxFaults
    BY <2>1, WorkflowRunsAssumption DEF TypesHold, StreamTypes
  <2>3. IsInput(m(ok))
    BY DEF IsInput, IsCompletion, Chans, Callers
  <2> HIDE DEF m
  <2>4. AreInputs(local) /\ AreInputs(Append(local, m(ok)))
    BY <2>3, AppendInputs DEF TypesHold, OtherTypes
  <2> QED
    BY <2>1, <2>2, <2>4 DEF AreInputs, IsInput
<1>4. call' \in [Callers -> [Runs -> CallStates]]
  BY <1>1 DEF TypesHold, StreamTypes, Callers, CallStates
<1>5. lang' \in [Runs -> LangActs \cup {"none"}]
  BY <1>1 DEF TypesHold, OtherTypes
<1> QED
  BY <1>1, <1>2, <1>3, <1>4, <1>5 DEF TypesHold, StreamTypes, OtherTypes, stream, server

\* A completion call reports to the server.
LEMMA ReportTypes ==
  ASSUME TypesHold, NEW c \in Callers, NEW r \in Runs, Report(c, r)
  PROVE  TypesHold'
<1> DEFINE out == call[c][r]
           success == out \in {"Success", "Beat"}
           sent == success \/ out = "Fail"
           status == IF sent \/ out = "Query" THEN "Reported"
                     ELSE IF out = "Drop" THEN "DropWft" ELSE "NotReported"
           post(w) == [t |-> "post", run |-> r, chan |-> c, wft |-> w, status |-> status]
           e == [t |-> "evict", run |-> r]
           next == [id |-> nextId, run |-> r, kind |-> "task", full |-> FALSE, att |-> 1]
<1>1. /\ UNCHANGED <<stream, done, acts, lang, late, beats, shutdown, cap, ignore>>
      /\ call' = [call EXCEPT ![c][r] = "idle"]
  BY DEF Report
<1>2. Typed(St)'
  BY <1>1, StreamSame DEF stream, TypesHold, StreamTypes, Typed, St
<1>3. call' \in [Callers -> [Runs -> CallStates]]
  BY <1>1 DEF TypesHold, StreamTypes, CallStates
<1>4. /\ AreInputs(local) /\ faults \in 0 .. MaxFaults /\ nextId \in 1 .. MaxTasks + 1
      /\ sticky \subseteq Runs /\ retry \subseteq Runs
      /\ open \in [Runs -> {0, Scheduled, Closed} \cup 1 .. MaxTasks]
  BY DEF TypesHold, StreamTypes, OtherTypes
<1>5. ASSUME NEW w \in Tasks \cup {NoTask} PROVE IsInput(post(w))
  BY DEF IsInput, IsPostInput
<1>6. IsInput(e)
  BY DEF IsInput
<1>7. /\ \/ local' = local \o <<>>
         \/ local' = local \o <<post(NoTask)>>
         \/ local' = local \o <<e, post(NoTask)>>
         \/ nextId <= MaxTasks /\ local' = Append(local, post(next))
      /\ faults' = faults \/ (faults < MaxFaults /\ faults' = faults + 1)
      /\ nextId' = nextId \/ (nextId <= MaxTasks /\ nextId' = nextId + 1)
      /\ sticky' \subseteq sticky \cup {r} /\ retry' \subseteq retry \cup {r}
      /\ \/ open' = open
         \/ \E v \in {0, Scheduled, Closed} : open' = [open EXCEPT ![r] = v]
         \/ nextId <= MaxTasks /\ open' = [open EXCEPT ![r] = nextId]
  BY DEF Report
<1>8. AreInputs(local)'
  <2> DEFINE p == post(NoTask)
             n == post(next)
  <2>1. IsInput(p)
    BY <1>5
  <2>2. nextId <= MaxTasks => IsInput(n)
    <3>1. ASSUME nextId <= MaxTasks PROVE next \in Tasks
      BY <1>4, <3>1, WorkflowRunsAssumption DEF Tasks
    <3> HIDE DEF next, post
    <3> QED
      BY <1>5, <3>1
  <2> HIDE DEF p, n, e
  <2>3. /\ IsSequence(local) /\ local \o <<>> = local
        /\ local \o <<p>> = Append(local, p)
        /\ local \o <<e, p>> = Append(Append(local, e), p)
    <3> DEFINE T == {local[i] : i \in DOMAIN local} \cup {e, p}
    <3>1. local \in Seq(T) /\ e \in T /\ p \in T /\ IsSequence(local)
      BY <1>4 DEF AreInputs, IsSequence
    <3> HIDE DEF T
    <3> QED
      BY <3>1
  <2>4. AreInputs(Append(local, p)) /\ AreInputs(Append(Append(local, e), p))
    BY <1>4, <1>6, <2>1, AppendInputs
  <2>5. nextId <= MaxTasks => AreInputs(Append(local, n))
    BY <1>4, <2>2, AppendInputs
  <2>6. \/ local' = local \/ local' = Append(local, p) \/ local' = Append(Append(local, e), p)
        \/ nextId <= MaxTasks /\ local' = Append(local, n)
    BY <1>7, <2>3 DEF p, n
  <2> QED
    BY <1>4, <2>4, <2>5, <2>6 DEF AreInputs, IsInput
<1>9. faults' \in 0 .. MaxFaults /\ nextId' \in 1 .. MaxTasks + 1
  BY <1>4, <1>7, WorkflowRunsAssumption
<1>10. open' \in [Runs -> {0, Scheduled, Closed} \cup 1 .. MaxTasks]
  <2>1. nextId <= MaxTasks => nextId \in 1 .. MaxTasks
    BY <1>4, WorkflowRunsAssumption
  <2> QED
    BY <1>4, <1>7, <2>1
<1>11. sticky' \subseteq Runs /\ retry' \subseteq Runs
  BY <1>4, <1>7
<1> HIDE DEF out, post, e, next
<1> QED
  BY <1>1, <1>2, <1>3, <1>8, <1>9, <1>10, <1>11
  DEF TypesHold, StreamTypes, OtherTypes, stream

\* A completion call is left without an answer.
LEMMA OrphanedTypes ==
  ASSUME TypesHold, NEW c \in Callers, NEW r \in Runs, Orphaned(c, r)
  PROVE  TypesHold'
<1> DEFINE m == [t |-> "evict", run |-> r]
<1>1. /\ UNCHANGED <<cache, lru, full, fetch, timer, dropped, outside, done, acts, lang>>
      /\ call' = [call EXCEPT ![c][r] = "idle"]
      /\ local' = local \/ local' = Append(local, m)
  BY DEF Orphaned
<1>2. Typed(St)'
  BY <1>1, StreamSame DEF outside, TypesHold, StreamTypes, Typed, St
<1>3. call' \in [Callers -> [Runs -> CallStates]]
  BY <1>1 DEF TypesHold, StreamTypes, CallStates
<1>4. IsInput(m)
  BY DEF IsInput
<1> HIDE DEF m
<1>5. AreInputs(local) /\ AreInputs(Append(local, m))
  BY <1>4, AppendInputs DEF TypesHold, OtherTypes
<1>6. AreInputs(local)'
  BY <1>1, <1>5 DEF AreInputs, IsInput
<1> QED
  BY <1>1, <1>2, <1>3, <1>6 DEF TypesHold, StreamTypes, OtherTypes, outside, server

\* A task times out, a local activity resolves, a timer fires, shutdown.
LEMMA SurroundingsTypes ==
  ASSUME TypesHold,
         \/ \E r \in Runs : WftTimesOut(r) \/ LaFinishes(r) \/ TimerFires(r)
         \/ InitiateShutdown \/ UNCHANGED vars
  PROVE  TypesHold'
<1>1. ASSUME NEW r \in Runs, WftTimesOut(r) PROVE TypesHold'
  <2>1. /\ open' = [open EXCEPT ![r] = 0] /\ retry' = retry \cup {r}
        /\ UNCHANGED <<stream, done, acts, lang, call, local, nextId, sticky, late, faults, beats,
                       shutdown, cap, ignore>>
    BY <1>1 DEF WftTimesOut
  <2>2. Typed(St)'
    BY <2>1, StreamSame DEF stream, TypesHold, StreamTypes, Typed, St
  <2>3. open' \in [Runs -> {0, Scheduled, Closed} \cup 1 .. MaxTasks] /\ retry' \subseteq Runs
    BY <2>1 DEF TypesHold, OtherTypes
  <2> QED
    BY <2>1, <2>2, <2>3 DEF TypesHold, StreamTypes, OtherTypes, stream
<1>2. ASSUME NEW r \in Runs, LaFinishes(r) PROVE TypesHold'
  <2> DEFINE m == [t |-> "la", run |-> r]
  <2>1. local' = Append(local, m) /\ UNCHANGED <<stream, outside, done, acts, lang, call>>
    BY <1>2 DEF LaFinishes
  <2>2. Typed(St)'
    BY <2>1, StreamSame DEF stream, outside, TypesHold, StreamTypes, Typed, St
  <2>3. IsInput(m)
    BY DEF IsInput
  <2> HIDE DEF m
  <2>4. AreInputs(Append(local, m))
    BY <2>3, AppendInputs DEF TypesHold, OtherTypes
  <2>5. AreInputs(local)'
    BY <2>1, <2>4 DEF AreInputs, IsInput
  <2> QED
    BY <2>1, <2>2, <2>5 DEF TypesHold, StreamTypes, OtherTypes, stream, outside, server
<1>3. ASSUME NEW r \in Runs, TimerFires(r) PROVE TypesHold'
  <2> DEFINE m == [t |-> "hb", run |-> r]
  <2>1. /\ local' = Append(local, m) /\ timer' = [timer EXCEPT ![r] = FALSE]
        /\ beats < MaxBeats /\ beats' = beats + 1
        /\ UNCHANGED <<cache, lru, full, fetch, asserts, dropped, server, faults, shutdown, cap,
                       ignore, done, acts, lang, call>>
    BY <1>3 DEF TimerFires
  <2>2. timer' \in [Runs -> BOOLEAN]
    BY <2>1 DEF TypesHold, StreamTypes, Typed, St
  <2>3. Typed(St)'
    BY <2>1, <2>2, StreamSame
  <2>4. IsInput(m)
    BY DEF IsInput
  <2> HIDE DEF m
  <2>5. AreInputs(Append(local, m))
    BY <2>4, AppendInputs DEF TypesHold, OtherTypes
  <2>6. AreInputs(local)'
    BY <2>1, <2>5 DEF AreInputs, IsInput
  <2>7. beats' \in 0 .. MaxBeats
    BY <2>1, WorkflowRunsAssumption DEF TypesHold, OtherTypes
  <2> QED
    BY <2>1, <2>3, <2>6, <2>7 DEF TypesHold, StreamTypes, OtherTypes, server
<1>4. CASE InitiateShutdown
  <2>1. /\ shutdown' = TRUE
        /\ UNCHANGED <<stream, server, cap, ignore, local, acts, lang, call, faults, beats, done>>
    BY <1>4 DEF InitiateShutdown
  <2>2. Typed(St)'
    BY <2>1, StreamSame DEF stream, TypesHold, StreamTypes, Typed, St
  <2> QED
    BY <2>1, <2>2 DEF TypesHold, StreamTypes, OtherTypes, stream, server
<1>5. CASE UNCHANGED vars
  <2>1. Typed(St)'
    BY <1>5, StreamSame DEF vars, TypesHold, StreamTypes, Typed, St
  <2> QED
    BY <1>5, <2>1 DEF TypesHold, StreamTypes, OtherTypes, vars
<1> QED
  BY <1>1, <1>2, <1>3, <1>4, <1>5

\* Every step keeps the types.
LEMMA NextTypes ==
  ASSUME TypesHold, [Next]_vars
  PROVE  TypesHold'
<1>1. CASE StreamNext
  BY <1>1, LocalInputTypes, StreamInputTypes DEF StreamNext
<1>2. CASE Poll
  BY <1>2, PollTypes
<1>3. ASSUME NEW r \in Runs, PollDropped(r) PROVE TypesHold'
  BY <1>3, PollDroppedTypes
<1>4. ASSUME NEW r \in Runs, LangCompletes(r) PROVE TypesHold'
  BY <1>4, LangCompletesTypes
<1>5. ASSUME NEW c \in Callers, NEW r \in Runs, Report(c, r) PROVE TypesHold'
  BY <1>5, ReportTypes
<1>6. ASSUME NEW c \in Callers, NEW r \in Runs, Orphaned(c, r) PROVE TypesHold'
  BY <1>6, OrphanedTypes
<1>7. ASSUME \/ \E r \in Runs : WftTimesOut(r) \/ LaFinishes(r) \/ TimerFires(r)
             \/ InitiateShutdown \/ UNCHANGED vars
      PROVE  TypesHold'
  BY <1>7, SurroundingsTypes
<1>8. CASE Ended
  BY <1>7, <1>8 DEF Ended
<1> QED
  BY <1>1, <1>2, <1>3, <1>4, <1>5, <1>6, <1>7, <1>8 DEF Next

\* A list without repetitions has as many members as positions.
LEMMA OrderCounts ==
  ASSUME NEW x, IsSequence(x), \A i, j \in DOMAIN x : x[i] = x[j] => i = j
  PROVE  Cardinality(Range(x)) = Len(x)
<1>1. Len(x) \in Nat /\ DOMAIN x = 1 .. Len(x)
  BY SequenceIs
<1>2. x \in [1 .. Len(x) -> Range(x)]
  BY <1>1 DEF Range, IsSequence
<1>3. \A q \in Range(x) : \E i \in 1 .. Len(x) : x[i] = q
  BY <1>1 DEF Range
<1>4. x \in Bijection(1 .. Len(x), Range(x))
  BY <1>1, <1>2, <1>3 DEF Bijection, Injection, Surjection, IsInjective
<1>5. ExistsBijection(1 .. Len(x), Range(x))
  BY <1>4 DEF ExistsBijection
<1> QED
  BY <1>1, <1>5, FS_CountingElements

\* What the types say of the cache.
LEMMA TypesBound ==
  ASSUME TypesHold
  PROVE  CacheBounded
<1>1. Typed(St)
  BY DEF TypesHold, StreamTypes
<1>2. IsLru(lru, CachedRuns(St))
  BY <1>1 DEF Typed, St
<1>3. Len(lru) <= LruSize /\ Range(lru) = CachedRuns(St) /\ Len(lru) = Cardinality(CachedRuns(St))
  BY <1>2, OrderCounts DEF IsLru
<1>4. ASSUME NEW h, IsManaged(h) PROVE IsRun(h)
  <2>1. \A d \in Range(h.laDat) \cup Range(h.page) : d.chan \in Chans
    BY <1>4 DEF IsManaged, IsKept, Range
  <2> QED
    BY <1>4, <2>1 DEF IsManaged, IsRun, IsRecord
<1>5. \A r \in Runs : cache[r] = NoRun \/ IsRun(cache[r])
  BY <1>1, <1>4 DEF Typed, St
<1>6. \A i \in DOMAIN full : full[i] # <<>> /\ Range(full[i]) \subseteq Tasks
  <2>1. IsBacklog(full)
    BY <1>1 DEF Typed, St
  <2>2. \A x \in Seq(Tasks) : Range(x) \subseteq Tasks
    BY DEF Range
  <2> QED
    BY <2>1, <2>2 DEF IsBacklog
<1>7. \A f \in fetch : f.run \in Runs /\ (f.what = "page" <=> f.wft = NoTask)
  BY <1>1 DEF Typed, St, IsFetch
<1>8. timer \in [Runs -> BOOLEAN]
  BY <1>1 DEF Typed, St
<1>9. TypeOK
  BY <1>5, <1>6, <1>7, <1>8
  DEF TypeOK, TypesHold, StreamTypes, OtherTypes, AreActs, AreInputs, IsInput, CallStates
<1> QED
  BY <1>3, <1>9 DEF CacheBounded

\* The run cache never holds more runs than max_cached_workflows, or one when
\* caching is off (run_cache.rs, workflow_stream.rs): a task of a run that is
\* not cached waits while evictions of others wait for lang, and the room that
\* an eviction makes is given away once.  The LRU order is of exactly the
\* cached runs, and everything the stream, the poll loop and the completion
\* calls keep is of its type, whatever faults, timeouts and dropped polls come.
THEOREM CacheStaysBounded == Spec => []CacheBounded
<1>1. Init => TypesHold
  BY InitTypes
<1>2. TypesHold /\ [Next]_vars => TypesHold'
  BY NextTypes
<1>3. TypesHold => CacheBounded
  BY TypesBound
<1> QED
  BY <1>1, <1>2, <1>3, PTL DEF Spec

=============================================================================
