------------------------ MODULE VoiceAssistantProofs ------------------------
(***************************************************************************)
(* The safety of the voice assistant for every MaxPlays and                *)
(* MaxConnections: its types, that the callback of every play is called    *)
(* once and never lost, that the machine shows the mute, and that what     *)
(* frees a taken pipeline is still to come.                                *)
(*                                                                         *)
(* A play's callback is a token.  Typed gives every frame its shape;       *)
(* Tokens says where each token is, for the functions `held` and `owed`    *)
(* that a player's and a stack's content abstract to, and one lemma        *)
(* (ExchangeStep) proves that whatever a step calls, pushes and replaces,  *)
(* the tokens are conserved when what it takes from one context and one    *)
(* player is what it leaves them with.  Each action is then an instance.   *)
(***************************************************************************)
EXTENDS VoiceAssistant, SequenceTheorems, TLAPS

Callback == [kind : Kinds, by : 0..MaxConnections]

Link == [number : 0..MaxConnections, authenticated : BOOLEAN,
         played : BOOLEAN, continues : BOOLEAN, ringing : BOOLEAN,
         active : BOOLEAN]

\* A mute is underneath a lost connection, or shown again.
Machines ==
  {m \in [state : PipelineMachine!States, underneath : BOOLEAN] :
     m.underneath => m.state \in {"muted", "disconnected"}}

\* The events other threads emit: all but those of the mute switch.
Signals == DOMAIN PipelineMachine!Events \ {"muted", "unmuted"}

Frames ==
  ({"call"} \X (1..MaxPlays))
    \cup ({"detach"} \X Players)
    \cup ({"settle"} \X (0..MaxConnections))
    \cup ({"emit"} \X {"idle", "disconnected"})
    \cup {<<"sound", "mute">>, <<"stop", "speech">>, <<"release", "speech">>}

Handed == ({"request"} \X (0..MaxConnections)) \cup ({"event"} \X Signals)

\* The callbacks a stack still has to call, each of them once.
Owes(s) == {n \in 1..MaxPlays : \E i \in DOMAIN s : s[i] = <<"call", n>>}

Distinct(s) ==
  \A n \in 1..MaxPlays : \A i, j \in DOMAIN s :
    s[i] = <<"call", n>> /\ s[j] = <<"call", n>> => i = j

-----------------------------------------------------------------------------
(* Sequences of frames.                                                    *)

\* Nothing is owed by an empty stack.
LEMMA OwesNothing == Owes(<< >>) = {} /\ Distinct(<< >>)
BY EmptySeq DEF Owes, Distinct

\* Frames that are no calls owe nothing.
LEMMA OwesNone ==
  ASSUME NEW s \in Seq(Frames), \A i \in DOMAIN s : s[i][1] # "call"
  PROVE  Owes(s) = {} /\ Distinct(s)
<1>1. \A i \in DOMAIN s : \A n : s[i] # <<"call", n>>
  OBVIOUS
<1> QED BY <1>1 DEF Owes, Distinct

LEMMA OwesFrame ==
  ASSUME NEW f \in Frames, f[1] # "call"
  PROVE  /\ <<f>> \in Seq(Frames)
         /\ Owes(<<f>>) = {}
         /\ Distinct(<<f>>)
<1>1. DOMAIN <<f>> = {1} /\ <<f>>[1] = f
  OBVIOUS
<1>2. <<f>> \in Seq(Frames)
  OBVIOUS
<1> QED BY <1>1, <1>2, OwesNone

\* What Called(n) owes.
LEMMA OwesCalled ==
  ASSUME NEW n \in Contexts
  PROVE  /\ Called(n) \in Seq(Frames)
         /\ Owes(Called(n)) = {n} \ {0}
         /\ Distinct(Called(n))
<1>1. CASE n = 0
  BY <1>1, OwesNothing DEF Called
<1>2. CASE n # 0
  <2>1. n \in 1..MaxPlays /\ <<"call", n>> \in Frames
    BY <1>2, PlaybackAssumption DEF Contexts, Frames
  <2>2. Called(n) = << <<"call", n>> >>
    BY <1>2 DEF Called
  <2>3. DOMAIN << <<"call", n>> >> = {1}
    OBVIOUS
  <2>4. << <<"call", n>> >>[1] = <<"call", n>>
    OBVIOUS
  <2>5. \A m \in 1..MaxPlays : <<"call", n>> = <<"call", m>> <=> m = n
    OBVIOUS
  <2>6. Owes(Called(n)) = {n} \ {0}
    BY <1>2, <2>1, <2>2, <2>3, <2>4, <2>5 DEF Owes
  <2>7. Distinct(Called(n))
    BY <2>2, <2>3 DEF Distinct
  <2> QED BY <2>1, <2>2, <2>6, <2>7
<1> QED BY <1>1, <1>2

\* A concatenation owes what its parts owe, once if they share nothing.
LEMMA OwesConcat ==
  ASSUME NEW s \in Seq(Frames), NEW t \in Seq(Frames)
  PROVE  /\ s \o t \in Seq(Frames)
         /\ Owes(s \o t) = Owes(s) \cup Owes(t)
         /\ Distinct(s) /\ Distinct(t) /\ Owes(s) \cap Owes(t) = {}
              => Distinct(s \o t)
<1> DEFINE u == s \o t
           l == Len(s)
           k == Len(t)
<1>1. /\ u \in Seq(Frames)
      /\ DOMAIN u = 1..(l + k) /\ DOMAIN s = 1..l /\ DOMAIN t = 1..k
      /\ l \in Nat /\ k \in Nat
      /\ \A i \in 1..(l + k) : u[i] = IF i <= l THEN s[i] ELSE t[i - l]
  BY ConcatProperties, LenProperties
<1> HIDE DEF u, l, k
<1>2. \A i \in 1..l : i \in DOMAIN u /\ u[i] = s[i]
  BY <1>1
<1>3. \A i \in 1..k : i + l \in DOMAIN u /\ u[i + l] = t[i]
  BY <1>1
<1>4. \A i \in DOMAIN u : \/ i \in DOMAIN s /\ u[i] = s[i]
                          \/ i - l \in DOMAIN t /\ u[i] = t[i - l] /\ i > l
  BY <1>1
<1>5. Owes(u) = Owes(s) \cup Owes(t)
  <2>1. ASSUME NEW n \in Owes(u) PROVE n \in Owes(s) \cup Owes(t)
    BY <1>4 DEF Owes
  <2>2. ASSUME NEW n \in Owes(s) PROVE n \in Owes(u)
    BY <1>1, <1>2 DEF Owes
  <2>3. ASSUME NEW n \in Owes(t) PROVE n \in Owes(u)
    BY <1>1, <1>3 DEF Owes
  <2> QED BY <2>1, <2>2, <2>3
<1>6. ASSUME Distinct(s), Distinct(t), Owes(s) \cap Owes(t) = {}
      PROVE  Distinct(u)
  <2> SUFFICES ASSUME NEW n \in 1..MaxPlays, NEW i \in DOMAIN u,
                      NEW j \in DOMAIN u, u[i] = <<"call", n>>,
                      u[j] = <<"call", n>>
               PROVE  i = j
    BY DEF Distinct
  <2>0. i \in Nat /\ j \in Nat
    BY <1>1
  <2>1. CASE n \in Owes(s)
    <3>1. n \notin Owes(t)
      BY <2>1, <1>6
    <3>2. i \in DOMAIN s /\ u[i] = s[i] /\ j \in DOMAIN s /\ u[j] = s[j]
      BY <3>1, <1>4 DEF Owes
    <3> QED BY <3>2, <1>6 DEF Distinct
  <2>2. CASE n \notin Owes(s)
    <3>1. /\ i - l \in DOMAIN t /\ u[i] = t[i - l]
          /\ j - l \in DOMAIN t /\ u[j] = t[j - l]
      BY <2>2, <1>4 DEF Owes
    <3>2. i - l = j - l
      BY <3>1, <1>6 DEF Distinct
    <3> QED BY <3>2, <2>0, <1>1
  <2> QED BY <2>1, <2>2
<1> QED BY <1>1, <1>5, <1>6 DEF u

\* The rest of a stack after its next frame: nothing less is owed, unless
\* that frame called a callback, which is then owed no more.
LEMMA OwesTail ==
  ASSUME NEW s \in Seq(Frames), s # << >>, Distinct(s)
  PROVE  /\ Head(s) \in Frames
         /\ Tail(s) \in Seq(Frames)
         /\ Distinct(Tail(s))
         /\ Head(s)[1] # "call" => Owes(Tail(s)) = Owes(s)
         /\ Head(s)[1] = "call" =>
              /\ Head(s)[2] \in 1..MaxPlays
              /\ Head(s)[2] \in Owes(s)
              /\ Owes(Tail(s)) = Owes(s) \ {Head(s)[2]}
<1> DEFINE t == Tail(s)
           h == Head(s)
           l == Len(s)
<1>1. /\ h \in Frames /\ t \in Seq(Frames)
      /\ l \in Nat \ {0}
      /\ DOMAIN s = 1..l /\ DOMAIN t = 1..(l - 1)
      /\ \A i \in 1..(l - 1) : t[i] = s[i + 1]
      /\ h = s[1]
  BY HeadTailProperties, LenProperties, EmptySeq
<1>2. h[1] = "call" => h = <<"call", h[2]>> /\ h[2] \in 1..MaxPlays
  BY <1>1 DEF Frames
<1> HIDE DEF t, h, l
<1>3. \A i \in DOMAIN t : i + 1 \in DOMAIN s /\ t[i] = s[i + 1]
  BY <1>1
<1>4. \A i \in DOMAIN s : \/ i = 1
                          \/ i - 1 \in DOMAIN t /\ s[i] = t[i - 1]
  <2> TAKE i \in DOMAIN s
  <2>1. \/ i = 1
        \/ i - 1 \in 1..(l - 1) /\ (i - 1) + 1 = i
    BY <1>1
  <2>2. CASE i = 1
    BY <2>2
  <2>3. CASE i - 1 \in 1..(l - 1) /\ (i - 1) + 1 = i
    <3>1. i - 1 \in DOMAIN t
      BY <2>3, <1>1
    <3>2. t[i - 1] = s[(i - 1) + 1]
      BY <2>3, <1>1
    <3> QED BY <3>1, <3>2, <2>3
  <2> QED BY <2>1, <2>2, <2>3
<1>5. Owes(t) \subseteq Owes(s)
  BY <1>3 DEF Owes
<1>6. \A n \in Owes(s) : n \in Owes(t) \/ h = <<"call", n>>
  BY <1>4, <1>1 DEF Owes
<1>7. Distinct(t)
  <2> SUFFICES ASSUME NEW n \in 1..MaxPlays, NEW i \in DOMAIN t,
                      NEW j \in DOMAIN t, t[i] = <<"call", n>>,
                      t[j] = <<"call", n>>
               PROVE  i = j
    BY DEF Distinct
  <2>1. i + 1 = j + 1
    BY <1>3 DEF Distinct
  <2> QED BY <2>1, <1>1
<1>8. ASSUME h[1] # "call" PROVE Owes(t) = Owes(s)
  <2>1. \A n : h # <<"call", n>>
    BY <1>8
  <2> QED BY <2>1, <1>5, <1>6
<1>9. ASSUME h[1] = "call"
      PROVE  /\ h[2] \in 1..MaxPlays /\ h[2] \in Owes(s)
             /\ Owes(t) = Owes(s) \ {h[2]}
  <2>1. h = <<"call", h[2]>> /\ h[2] \in 1..MaxPlays /\ 1 \in DOMAIN s
    BY <1>9, <1>2, <1>1
  <2>2. h[2] \in Owes(s)
    BY <2>1, <1>1 DEF Owes
  <2>3. h[2] \notin Owes(t)
    <3> SUFFICES ASSUME NEW i \in DOMAIN t, t[i] = <<"call", h[2]>>
                 PROVE  FALSE
      BY DEF Owes
    <3>1. i + 1 = 1
      BY <1>3, <2>1, <1>1 DEF Distinct
    <3> QED BY <3>1, <1>1
  <2>4. \A n : h = <<"call", n>> => n = h[2]
    OBVIOUS
  <2> QED BY <2>1, <2>2, <2>3, <2>4, <1>5, <1>6
<1> QED BY <1>1, <1>7, <1>8, <1>9 DEF t, h

-----------------------------------------------------------------------------
(* The invariants.                                                         *)

PlaybackTyped ==
  /\ player \in [Players -> Player]
  /\ stack \in [Contexts -> Seq(Frames)]
  /\ plays \in 0..MaxPlays
  /\ calls \in [1..MaxPlays -> Nat]

VoiceTyped ==
  /\ done \in Seq(Callback)
  /\ Len(done) = plays
  /\ link \in Link
  /\ timers \in Nat
  /\ machine \in Machines
  /\ soon \in Seq(Handed)
  /\ muted \in BOOLEAN

\* Where the tokens of n plays are: called, held by a player, or owed by a
\* context; each in one place.
Conserved(held, owed, count, n) ==
  /\ \A m \in 1..MaxPlays : count[m] \in {0, 1} /\ (count[m] = 1 => m <= n)
  /\ \A p \in Players : held[p] <= n
  /\ \A c \in Contexts : owed[c] \subseteq 1..n
  /\ \A p, q \in Players : held[p] = held[q] /\ held[p] # 0 => p = q
  /\ \A c, d \in Contexts : c # d => owed[c] \cap owed[d] = {}
  /\ \A p \in Players, c \in Contexts : held[p] \notin owed[c]
  /\ \A m \in 1..MaxPlays : count[m] = 1 =>
       /\ \A p \in Players : held[p] # m
       /\ \A c \in Contexts : m \notin owed[c]
  /\ \A m \in 1..n : \/ count[m] = 1
                     \/ \E p \in Players : held[p] = m
                     \/ \E c \in Contexts : m \in owed[c]

Held == [p \in Players |-> player[p].held]
Owing == [c \in Contexts |-> Owes(stack[c])]

\* A context that will be given the callback of a play, or of one to come,
\* has nothing to do yet.
Tokens ==
  /\ Conserved(Held, Owing, calls, plays)
  /\ \A c \in Contexts : Distinct(stack[c])
  /\ \A c \in Contexts : c > plays => stack[c] = << >>
  /\ \A p \in Players : player[p].held # 0 => stack[player[p].held] = << >>

\* What a player holds is going to end; what it loads is there to load, so
\* that a pause leaves something to resume.
Ends(r) ==
  /\ r.held # 0 => \/ r.thread # None
                   \/ r.paused /\ (r.current \/ r.pending > 0)
  /\ r.loading => r.pending > 0 \/ r.resolving

Sounds == \A p \in Players : Ends(player[p])

PlaybackInv == PlaybackTyped /\ Tokens /\ Sounds

-----------------------------------------------------------------------------
(* The methods of a player.                                                *)

LEMMA PlayerFields ==
  ASSUME NEW r \in Player
  PROVE  /\ r.pending \in Nat /\ r.held \in Contexts /\ r.by \in Contexts
         /\ r.thread \in Threads
         /\ r.current \in BOOLEAN /\ r.loading \in BOOLEAN
         /\ r.resolving \in BOOLEAN /\ r.paused \in BOOLEAN
         /\ r.released \in BOOLEAN
BY DEF Player

\* The preceding sound is taken over.
LEMMA TakingOver ==
  ASSUME NEW r \in Player
  PROVE  LET t == _take_over(r)
         IN /\ t \in Player
            /\ t.held = 0 /\ ~t.loading
            /\ t.released = r.released /\ t.paused = r.paused
<1>1. 0 \in Contexts /\ None \in Threads
  BY PlaybackAssumption DEF Contexts, Threads
<1> QED BY <1>1 DEF _take_over, Player

LEMMA Playing ==
  ASSUME NEW r \in Player, NEW c \in Contexts, NEW n \in Contexts,
         NEW urls \in 1..2
  PROVE  /\ play(r, c, n, urls) \in Player
         /\ Ends(play(r, c, n, urls))
         /\ play(r, c, n, urls).held = IF r.released THEN 0 ELSE n
<1>0. /\ 0 \in Contexts /\ {"due", "resolve"} \subseteq Threads
      /\ None \notin {"due", "resolve"}
      /\ urls \in Nat /\ urls > 0
  BY PlaybackAssumption DEF Contexts, Threads
<1>1. CASE r.released
  BY <1>1, TakingOver DEF play, Ends
<1>2. CASE ~r.released
  <2> DEFINE t == _take_over(r)
             q == play(r, c, n, urls)
  <2>1. t \in Player
    BY TakingOver
  <2>2. q = [t EXCEPT !.pending = urls, !.held = n, !.paused = FALSE,
                      !.loading = TRUE,
                      !.thread = IF r.held = 0 THEN "resolve" ELSE "due",
                      !.by = IF r.held = 0 THEN 0 ELSE c]
    BY <1>2 DEF play
  <2> HIDE DEF t, q
  <2>3. q \in Player
    BY <2>1, <2>2, <1>0 DEF Player
  <2>4. q.held = n /\ q.pending = urls
    BY <2>1, <2>2 DEF Player
  <2>5. q.thread \in {"resolve", "due"}
    BY <2>1, <2>2 DEF Player
  <2> QED BY <2>3, <2>4, <2>5, <1>0, <1>2 DEF Ends, q
<1> QED BY <1>1, <1>2

LEMMA Stopping ==
  ASSUME NEW r \in Player
  PROVE  /\ stop(r) \in Player /\ release(r) \in Player
         /\ Ends(stop(r)) /\ Ends(release(r))
         /\ stop(r).held = 0 /\ release(r).held = 0
<1> DEFINE t == _take_over(r)
<1>1. t \in Player /\ t.held = 0 /\ ~t.loading
  BY TakingOver
<1>2. stop(r) = [t EXCEPT !.paused = FALSE]
  BY DEF stop
<1> HIDE DEF t
<1>3. stop(r) \in Player /\ stop(r).held = 0 /\ ~stop(r).loading
  BY <1>1, <1>2 DEF Player
<1>4. release(r) = [stop(r) EXCEPT !.released = TRUE]
  BY DEF release
<1>5. release(r) \in Player /\ release(r).held = 0 /\ ~release(r).loading
  BY <1>3, <1>4 DEF Player
<1> QED BY <1>3, <1>5 DEF Ends

LEMMA Pausing ==
  ASSUME NEW r \in Player, Ends(r)
  PROVE  pause(r) \in Player /\ Ends(pause(r)) /\ pause(r).held = r.held
<1>0. 0 \in Contexts /\ None \in Threads
  BY PlaybackAssumption DEF Contexts, Threads
<1>1. CASE r.paused \/ ~is_playing(r)
  BY <1>1 DEF pause
<1>2. CASE ~(r.paused \/ ~is_playing(r))
  <2> DEFINE q == pause(r)
             v == IF r.resolving THEN r.pending + 1 ELSE r.pending
  <2>0. v \in Nat /\ (r.resolving => v > 0) /\ (r.pending > 0 => v > 0)
    BY PlayerFields
  <2>1. q = [r EXCEPT !.pending = v,
                      !.resolving = FALSE, !.loading = FALSE, !.paused = TRUE,
                      !.thread = None, !.by = 0]
    BY <1>2 DEF pause, Player
  <2> HIDE DEF q, v
  <2>2. q.pending = v
    BY <2>1 DEF Player
  <2>3. q \in Player
    BY <2>0, <2>1, <1>0 DEF Player
  <2>4. q.held = r.held /\ q.paused /\ ~q.loading /\ q.current = r.current
    BY <2>1 DEF Player
  <2>5. q.current \/ q.pending > 0
    BY <1>2, <2>0, <2>2, <2>4, PlayerFields DEF Ends, is_playing
  <2> QED BY <2>3, <2>4, <2>5 DEF Ends, q
<1> QED BY <1>1, <1>2

LEMMA Resuming ==
  ASSUME NEW r \in Player, Ends(r)
  PROVE  resume(r) \in Player /\ Ends(resume(r)) /\ resume(r).held = r.held
<1>0. /\ {"push", "resolve"} \subseteq Threads
      /\ None \notin {"push", "resolve"}
  BY PlaybackAssumption DEF Threads
<1> DEFINE q == resume(r)
<1>1. CASE ~r.paused \/ r.released
  BY <1>1 DEF resume
<1>2. CASE r.paused /\ ~r.released /\ r.current
  <2>1. q = [r EXCEPT !.paused = FALSE, !.thread = "push"]
    BY <1>2 DEF resume
  <2>2. q \in Player /\ q.held = r.held /\ q.thread = "push"
        /\ q.loading = r.loading /\ q.pending = r.pending
        /\ q.resolving = r.resolving
    BY <2>1, <1>0 DEF Player
  <2> QED BY <2>2, <1>0 DEF Ends
<1>3. CASE r.paused /\ ~r.released /\ ~r.current /\ r.pending = 0
  <2>1. q = [r EXCEPT !.paused = FALSE]
    BY <1>3 DEF resume
  <2>2. q \in Player /\ q.held = r.held /\ q.thread = r.thread
        /\ q.loading = r.loading /\ q.pending = r.pending
        /\ q.resolving = r.resolving
    BY <2>1 DEF Player
  <2> QED BY <2>2, <1>3 DEF Ends
<1>4. CASE r.paused /\ ~r.released /\ ~r.current /\ r.pending # 0
  <2>1. q = [r EXCEPT !.paused = FALSE, !.loading = TRUE,
                      !.thread = "resolve"]
    BY <1>4 DEF resume
  <2>2. q \in Player /\ q.held = r.held /\ q.thread = "resolve"
        /\ q.pending = r.pending
    BY <2>1, <1>0 DEF Player
  <2> QED BY <2>2, <1>4, <1>0, PlayerFields DEF Ends
<1> QED BY <1>1, <1>2, <1>3, <1>4, PlayerFields

\* What the caller of play does after it: with what the player then holds,
\* it has the callback of the preceding sound and the new one.
LEMMA AfterPlaying ==
  ASSUME NEW r \in Player, NEW p \in Players, NEW c \in Contexts,
         NEW n \in Contexts, NEW urls \in 1..2, n = 0 \/ n # r.held
  PROVE  LET s == AfterPlay(r, p, n)
             h == play(r, c, n, urls).held
         IN /\ s \in Seq(Frames)
            /\ Distinct(s)
            /\ Owes(s) \cup ({h} \ {0}) = {r.held, n} \ {0}
            /\ h \notin Owes(s)
<1>1. r.held \in Contexts
  BY DEF Player
<1>2. play(r, c, n, urls).held = IF r.released THEN 0 ELSE n
  BY Playing
<1>3. /\ Called(r.held) \in Seq(Frames) /\ Owes(Called(r.held)) = {r.held} \ {0}
      /\ Distinct(Called(r.held))
  BY <1>1, OwesCalled
<1>4. /\ Called(n) \in Seq(Frames) /\ Owes(Called(n)) = {n} \ {0}
      /\ Distinct(Called(n))
  BY OwesCalled
<1>5. <<"detach", p>> \in Frames
  BY DEF Frames
<1>6. /\ << <<"detach", p>> >> \in Seq(Frames)
      /\ Owes(<< <<"detach", p>> >>) = {}
      /\ Distinct(<< <<"detach", p>> >>)
  BY <1>5, OwesFrame
<1>7. CASE r.released
  <2>1. AfterPlay(r, p, n) = Called(r.held) \o Called(n)
    BY <1>7 DEF AfterPlay
  <2>2. Owes(Called(r.held)) \cap Owes(Called(n)) = {}
    BY <1>3, <1>4
  <2>3. /\ AfterPlay(r, p, n) \in Seq(Frames)
        /\ Owes(AfterPlay(r, p, n)) = ({r.held} \ {0}) \cup ({n} \ {0})
        /\ Distinct(AfterPlay(r, p, n))
    BY <2>1, <2>2, <1>3, <1>4, OwesConcat
  <2> QED BY <2>3, <1>2, <1>7
<1>8. CASE ~r.released /\ r.held = 0
  <2>1. AfterPlay(r, p, n) = << >>
    BY <1>8 DEF AfterPlay
  <2>2. << >> \in Seq(Frames)
    BY EmptySeq
  <2> QED BY <2>1, <2>2, <1>2, <1>8, OwesNothing
<1>9. CASE ~r.released /\ r.held # 0
  <2>1. AfterPlay(r, p, n) = Called(r.held) \o << <<"detach", p>> >>
    BY <1>9 DEF AfterPlay
  <2>2. /\ AfterPlay(r, p, n) \in Seq(Frames)
        /\ Owes(AfterPlay(r, p, n)) = {r.held} \ {0}
        /\ Distinct(AfterPlay(r, p, n))
    <3> DEFINE k == Called(r.held)
               d == << <<"detach", p>> >>
    <3> HIDE DEF k, d
    <3>1. /\ k \in Seq(Frames) /\ Owes(k) = {r.held} \ {0} /\ Distinct(k)
          /\ d \in Seq(Frames) /\ Owes(d) = {} /\ Distinct(d)
      BY <1>3, <1>6 DEF k, d
    <3>2. Owes(k) \cup Owes(d) = Owes(k) /\ Owes(k) \cap Owes(d) = {}
      BY <3>1
    <3>3. /\ k \o d \in Seq(Frames) /\ Owes(k \o d) = Owes(k)
          /\ Distinct(k \o d)
      BY <3>1, <3>2, OwesConcat
    <3> QED BY <3>1, <3>3, <2>1 DEF k, d
  <2> QED BY <2>2, <1>2, <1>9
<1> QED BY <1>7, <1>8, <1>9

-----------------------------------------------------------------------------
(* The tokens.                                                             *)

\* A step takes from context c and player p, and leaves them with what it
\* took, less what it called, and the token of a play it numbers.
LEMMA ExchangeStep ==
  ASSUME Held \in [Players -> Contexts], Held' \in [Players -> Contexts],
         Owing \in [Contexts -> SUBSET (1..MaxPlays)],
         Owing' \in [Contexts -> SUBSET (1..MaxPlays)],
         calls \in [1..MaxPlays -> Nat], calls' \in [1..MaxPlays -> Nat],
         plays \in 0..MaxPlays, plays' \in 0..MaxPlays,
         plays' \in {plays, plays + 1},
         Conserved(Held, Owing, calls, plays),
         NEW c \in Contexts, NEW p \in Players,
         NEW called \in SUBSET Owing[c],
         \A q \in Players : q # p => Held'[q] = Held[q],
         \A d \in Contexts : d # c => Owing'[d] = Owing[d],
         \A m \in 1..MaxPlays :
           calls'[m] = IF m \in called THEN calls[m] + 1 ELSE calls[m],
         Owing'[c] \cup ({Held'[p]} \ {0})
           = (Owing[c] \ called) \cup ({Held[p]} \ {0})
               \cup ((plays + 1)..plays'),
         Held'[p] \notin Owing'[c]
  PROVE  Conserved(Held', Owing', calls', plays')
<1>0. /\ MaxPlays \in Nat /\ Contexts = 0..MaxPlays
      /\ plays \in Nat /\ plays' \in Nat
      /\ plays <= plays' /\ plays' <= plays + 1 /\ plays' <= MaxPlays
      /\ \A q \in Players : Held[q] \in Nat /\ Held'[q] \in Nat
  BY PlaybackAssumption DEF Contexts
<1>1. \A m \in 1..MaxPlays : calls[m] \in {0, 1} /\ (calls[m] = 1 => m <= plays)
  BY DEF Conserved
<1>2. \A q \in Players : Held[q] <= plays
  BY DEF Conserved
<1>3. \A d \in Contexts : Owing[d] \subseteq 1..plays
  BY DEF Conserved
<1>4. \A q, r \in Players : Held[q] = Held[r] /\ Held[q] # 0 => q = r
  BY DEF Conserved
<1>5. \A d, e \in Contexts : d # e => Owing[d] \cap Owing[e] = {}
  BY DEF Conserved
<1>6. \A q \in Players, d \in Contexts : Held[q] \notin Owing[d]
  BY DEF Conserved
<1>7. \A m \in 1..MaxPlays : calls[m] = 1 =>
        /\ \A q \in Players : Held[q] # m
        /\ \A d \in Contexts : m \notin Owing[d]
  BY DEF Conserved
<1>8. \A m \in 1..plays : \/ calls[m] = 1
                          \/ \E q \in Players : Held[q] = m
                          \/ \E d \in Contexts : m \in Owing[d]
  BY DEF Conserved
<1>9. \A m \in called : m \in 1..plays /\ m \in 1..MaxPlays /\ calls[m] = 0
  BY <1>0, <1>1, <1>3, <1>7
<1>10. \A m \in (plays + 1)..plays' :
         /\ m = plays' /\ m = plays + 1 /\ m \in 1..MaxPlays /\ calls[m] = 0
         /\ \A q \in Players : Held[q] # m
         /\ \A d \in Contexts : m \notin Owing[d]
  <2> TAKE m \in (plays + 1)..plays'
  <2>1. m = plays' /\ m = plays + 1 /\ m \in 1..MaxPlays /\ m \notin 1..plays
    BY <1>0
  <2>2. calls[m] = 0
    BY <2>1, <1>0, <1>1
  <2> QED BY <2>1, <2>2, <1>0, <1>2, <1>3
<1>11. \A m \in Owing'[c] : \/ m \in Owing[c] /\ m \notin called
                            \/ m = Held[p] /\ m # 0
                            \/ m \in (plays + 1)..plays'
  OBVIOUS
<1>12. \/ Held'[p] = 0
       \/ Held'[p] # 0 /\ Held'[p] \in Owing[c] /\ Held'[p] \notin called
       \/ Held'[p] # 0 /\ Held'[p] = Held[p]
       \/ Held'[p] # 0 /\ Held'[p] \in (plays + 1)..plays'
  OBVIOUS
<1>13. \A m : m \in called => m # Held'[p] /\ m \notin Owing'[c]
  BY <1>6, <1>9, <1>10
<1>14. \A m \in 1..MaxPlays :
         calls'[m] \in {0, 1} /\ (calls'[m] = 1 => m <= plays')
  BY <1>0, <1>1, <1>9
<1>15. \A q \in Players : Held'[q] <= plays'
  <2> TAKE q \in Players
  <2>1. CASE q # p
    BY <2>1, <1>0, <1>2
  <2>2. CASE q = p
    BY <2>2, <1>0, <1>2, <1>3, <1>10, <1>12
  <2> QED BY <2>1, <2>2
<1>16. \A d \in Contexts : Owing'[d] \subseteq 1..plays'
  <2> SUFFICES ASSUME NEW d \in Contexts, NEW m \in Owing'[d]
               PROVE  m \in 1..plays'
    OBVIOUS
  <2>1. m \in 1..MaxPlays
    OBVIOUS
  <2>2. m \in Owing[d] \/ m = Held[p] \/ m = plays'
    BY <1>10, <1>11
  <2>3. m <= plays'
    BY <2>1, <2>2, <1>0, <1>2, <1>3
  <2> QED BY <2>1, <2>3, <1>0
<1>17. \A q, r \in Players : Held'[q] = Held'[r] /\ Held'[q] # 0 => q = r
  <2>1. \A q \in Players : q # p /\ Held'[q] # 0 => Held'[q] # Held'[p]
    BY <1>4, <1>6, <1>10, <1>12
  <2> QED BY <2>1, <1>4
<1>18. \A d, e \in Contexts : d # e => Owing'[d] \cap Owing'[e] = {}
  <2>1. \A d \in Contexts, m \in Owing'[c] : d # c => m \notin Owing[d]
    BY <1>5, <1>6, <1>10, <1>11
  <2> QED BY <2>1, <1>5
<1>19. \A q \in Players, d \in Contexts : Held'[q] \notin Owing'[d]
  <2> TAKE q \in Players, d \in Contexts
  <2>1. CASE q # p /\ d # c
    BY <2>1, <1>6
  <2>2. CASE q # p /\ d = c
    <3>1. Held[q] # Held[p] \/ Held[q] = 0
      BY <2>2, <1>4
    <3>2. 0 \notin Owing'[c]
      BY <1>0
    <3> QED BY <3>1, <3>2, <2>2, <1>6, <1>10, <1>11
  <2>3. CASE q = p /\ d # c
    <3>1. 0 \notin Owing[d] /\ Owing'[d] = Owing[d]
      BY <2>3, <1>0
    <3>2. Held'[p] \in Owing[c] => Held'[p] \notin Owing[d]
      BY <2>3, <1>5
    <3> QED BY <3>1, <3>2, <2>3, <1>6, <1>10, <1>12
  <2>4. CASE q = p /\ d = c
    BY <2>4
  <2> QED BY <2>1, <2>2, <2>3, <2>4
<1>20. \A m \in 1..MaxPlays : calls'[m] = 1 =>
         /\ \A q \in Players : Held'[q] # m
         /\ \A d \in Contexts : m \notin Owing'[d]
  <2> SUFFICES ASSUME NEW m \in 1..MaxPlays, calls'[m] = 1
               PROVE  /\ \A q \in Players : Held'[q] # m
                      /\ \A d \in Contexts : m \notin Owing'[d]
    OBVIOUS
  <2>1. CASE m \in called
    <3>1. \A q \in Players : Held[q] # m
      BY <2>1, <1>6
    <3>2. \A d \in Contexts : d # c => m \notin Owing[d]
      BY <2>1, <1>5
    <3> QED BY <3>1, <3>2, <2>1, <1>13
  <2>2. CASE m \notin called
    <3>1. calls[m] = 1
      BY <2>2
    <3>2. /\ \A q \in Players : Held[q] # m
          /\ \A d \in Contexts : m \notin Owing[d]
          /\ m \notin (plays + 1)..plays'
      BY <3>1, <1>7, <1>10
    <3>3. m # 0
      BY <1>0
    <3>4. Held'[p] # m /\ m \notin Owing'[c]
      BY <3>2, <3>3, <1>11, <1>12
    <3> QED BY <3>2, <3>4
  <2> QED BY <2>1, <2>2
<1>21. \A m \in 1..plays' : \/ calls'[m] = 1
                            \/ \E q \in Players : Held'[q] = m
                            \/ \E d \in Contexts : m \in Owing'[d]
  <2> SUFFICES ASSUME NEW m \in 1..plays', calls'[m] # 1
               PROVE  \/ \E q \in Players : Held'[q] = m
                      \/ \E d \in Contexts : m \in Owing'[d]
    OBVIOUS
  <2>0. m \in 1..MaxPlays /\ m # 0
    BY <1>0
  <2>1. m \notin called
    BY <2>0, <1>9
  <2>2. calls[m] # 1
    BY <2>0, <2>1
  <2>3. \/ m \in (plays + 1)..plays'
        \/ \E q \in Players : Held[q] = m
        \/ \E d \in Contexts : m \in Owing[d]
    <3>1. m \in 1..plays \/ m \in (plays + 1)..plays'
      BY <1>0
    <3> QED BY <3>1, <2>2, <1>8
  <2>4. m \in (plays + 1)..plays' \/ m = Held[p] \/ m \in Owing[c]
          => m = Held'[p] \/ m \in Owing'[c]
    BY <2>0, <2>1
  <2> QED BY <2>3, <2>4
<1> QED
  BY <1>14, <1>15, <1>16, <1>17, <1>18, <1>19, <1>20, <1>21 DEF Conserved

\* What a step leaves of the stack of context c, and the callbacks of it
\* that the step called.
Leaves(c, rest, called) ==
  /\ rest \in Seq(Frames)
  /\ Distinct(rest)
  /\ called \subseteq Owes(stack[c])
  /\ Owes(rest) = Owes(stack[c]) \ called

\* A callback counts one more call.
Counts(called) ==
  /\ calls' \in [1..MaxPlays -> Nat]
  /\ \A m \in 1..MaxPlays :
       calls'[m] = IF m \in called THEN calls[m] + 1 ELSE calls[m]

LEMMA CountsNothing ==
  ASSUME PlaybackTyped, UNCHANGED calls
  PROVE  Counts({})
BY DEF PlaybackTyped, Counts

LEMMA LeavesTail ==
  ASSUME PlaybackInv, NEW c \in Contexts, NEW what, Next_(c, what),
         what # "call"
  PROVE  /\ Head(stack[c]) \in Frames
         /\ Leaves(c, Tail(stack[c]), {})
<1>1. stack[c] \in Seq(Frames) /\ Distinct(stack[c])
  BY DEF PlaybackInv, PlaybackTyped, Tokens
<1>2. stack[c] # << >> /\ Head(stack[c])[1] # "call"
  BY DEF Next_
<1> QED BY <1>1, <1>2, OwesTail DEF Leaves

LEMMA LeavesCalled ==
  ASSUME PlaybackInv, NEW c \in Contexts, Next_(c, "call")
  PROVE  /\ Head(stack[c])[2] \in 1..MaxPlays
         /\ Head(stack[c])[2] \in Owes(stack[c])
         /\ Leaves(c, Tail(stack[c]), {Head(stack[c])[2]})
<1>1. stack[c] \in Seq(Frames) /\ Distinct(stack[c])
  BY DEF PlaybackInv, PlaybackTyped, Tokens
<1>2. stack[c] # << >> /\ Head(stack[c])[1] = "call"
  BY DEF Next_
<1> QED BY <1>1, <1>2, OwesTail DEF Leaves

LEMMA LeavesEmpty ==
  ASSUME NEW c \in Contexts, stack[c] = << >>,
         NEW rest \in Seq(Frames), Owes(rest) = {}, Distinct(rest)
  PROVE  Leaves(c, rest, {})
BY OwesNothing DEF Leaves

\* The state's tokens are exchanged between context c, whose stack becomes
\* new \o rest, and player p.  Only the loop, a thread that has something
\* to do, or the one that is given what p holds, is left something to do.
LEMMA TokensStep ==
  ASSUME PlaybackTyped, PlaybackTyped', Tokens,
         NEW c \in Contexts, NEW p \in Players,
         NEW new \in Seq(Frames), NEW rest, NEW called,
         Leaves(c, rest, called), Counts(called),
         plays' \in {plays, plays + 1},
         stack' = [stack EXCEPT ![c] = new \o rest],
         \A q \in Players : q # p => player'[q].held = player[q].held,
         Distinct(new),
         Owes(new) \cup ({player'[p].held} \ {0})
           = ({player[p].held} \ {0}) \cup ((plays + 1)..plays'),
         player'[p].held \notin Owes(new),
         \/ c = 0
         \/ stack[c] # << >>
         \/ c = player[p].held /\ player'[p].held = 0
  PROVE  Tokens'
<1> DEFINE s == new \o rest
           h == player[p].held
           h2 == player'[p].held
           o == Owes(stack[c])
<1>0. /\ MaxPlays \in Nat /\ Contexts = 0..MaxPlays
      /\ plays \in Nat /\ plays' \in Nat /\ plays' <= MaxPlays
      /\ \A q \in Players : player[q].held \in Contexts
                            /\ player'[q].held \in Contexts
  BY PlaybackAssumption, PlayerFields DEF PlaybackTyped, Contexts
<1>1. /\ Conserved(Held, Owing, calls, plays)
      /\ \A d \in Contexts : Distinct(stack[d])
      /\ \A d \in Contexts : d > plays => stack[d] = << >>
      /\ \A q \in Players : player[q].held # 0 => stack[player[q].held] = << >>
  BY DEF Tokens
<1>2. /\ rest \in Seq(Frames) /\ Distinct(rest) /\ called \subseteq o
      /\ Owes(rest) = o \ called
  BY DEF Leaves
<1>3. /\ \A q \in Players : Held[q] = player[q].held
      /\ \A d \in Contexts : Owing[d] = Owes(stack[d])
      /\ \A q \in Players : Held'[q] = player'[q].held
      /\ \A d \in Contexts : Owing'[d] = Owes(stack'[d])
  BY DEF Held, Owing
<1>4. /\ stack'[c] = s
      /\ \A d \in Contexts : d # c => stack'[d] = stack[d]
  BY DEF PlaybackTyped
<1>5. /\ h \notin o /\ o \subseteq 1..plays /\ h <= plays
      /\ \A q \in Players : player[q].held = h /\ h # 0 => q = p
      /\ \A q \in Players : player[q].held <= plays
  BY <1>1, <1>3 DEF Conserved
<1>6. (plays + 1)..plays' = {} \/ (plays + 1)..plays' = {plays + 1}
  BY <1>0
<1>7. Owes(new) \cap Owes(rest) = {}
  <2> SUFFICES ASSUME NEW m \in Owes(new), m \in o PROVE FALSE
    BY <1>2
  <2>1. m = h \/ m = plays + 1
    BY <1>6
  <2> QED BY <2>1, <1>0, <1>5
<1>8. s \in Seq(Frames) /\ Owes(s) = Owes(new) \cup (o \ called) /\ Distinct(s)
  BY <1>2, <1>7, OwesConcat
<1>9. h2 = 0 \/ h2 = h \/ h2 = plays + 1
  BY <1>6
<1>10. h2 \notin Owes(s)
  <2>1. h2 \notin o
    BY <1>0, <1>5, <1>9
  <2> QED BY <2>1, <1>8
<1>11. Conserved(Held', Owing', calls', plays')
  <2>1. /\ Held \in [Players -> Contexts] /\ Held' \in [Players -> Contexts]
        /\ Owing \in [Contexts -> SUBSET (1..MaxPlays)]
        /\ Owing' \in [Contexts -> SUBSET (1..MaxPlays)]
    BY <1>0 DEF Held, Owing, Owes
  <2>2. /\ calls \in [1..MaxPlays -> Nat] /\ calls' \in [1..MaxPlays -> Nat]
        /\ plays \in 0..MaxPlays /\ plays' \in 0..MaxPlays
    BY DEF PlaybackTyped
  <2>3. /\ called \in SUBSET Owing[c]
        /\ Owing'[c] = Owes(s)
        /\ Held'[p] \notin Owing'[c]
    BY <1>2, <1>3, <1>4, <1>10
  <2>4. /\ \A q \in Players : q # p => Held'[q] = Held[q]
        /\ \A d \in Contexts : d # c => Owing'[d] = Owing[d]
    BY <1>3, <1>4
  <2>5. Owing'[c] \cup ({Held'[p]} \ {0})
          = (Owing[c] \ called) \cup ({Held[p]} \ {0})
              \cup ((plays + 1)..plays')
    BY <2>3, <1>3, <1>8
  <2>6. \A m \in 1..MaxPlays :
          calls'[m] = IF m \in called THEN calls[m] + 1 ELSE calls[m]
    BY DEF Counts
  <2> HIDE DEF s, h, h2, o
  <2> QED
    BY <2>1, <2>2, <2>3, <2>4, <2>5, <2>6, <1>1, ExchangeStep
<1>12. \A d \in Contexts : Distinct(stack'[d])
  BY <1>1, <1>4, <1>8
<1>13. \A d \in Contexts : d > plays' => stack'[d] = << >>
  <2> SUFFICES ASSUME NEW d \in Contexts, d > plays' PROVE stack'[d] = << >>
    OBVIOUS
  <2>1. d > plays /\ stack[d] = << >>
    BY <1>0, <1>1
  <2>2. d # c
    BY <2>1, <1>0, <1>5
  <2> QED BY <2>1, <2>2, <1>4
<1>14. \A q \in Players : player'[q].held # 0 => stack'[player'[q].held] = << >>
  <2> SUFFICES ASSUME NEW q \in Players, player'[q].held # 0
               PROVE  stack'[player'[q].held] = << >>
    OBVIOUS
  <2>1. CASE q # p
    <3>1. player'[q].held = player[q].held /\ stack[player[q].held] = << >>
      BY <2>1, <1>1
    <3>2. player[q].held # c
      BY <2>1, <3>1, <1>5
    <3> QED BY <3>1, <3>2, <1>0, <1>4
  <2>2. CASE q = p
    <3>1. h2 # 0 /\ (h2 = h \/ h2 = plays + 1)
      BY <2>2, <1>9
    <3>2. stack[h2] = << >>
      BY <3>1, <1>0, <1>1
    <3>3. h2 # c
      BY <3>1, <3>2
    <3> QED BY <2>2, <3>2, <3>3, <1>0, <1>4
  <2> QED BY <2>1, <2>2
<1> QED BY <1>11, <1>12, <1>13, <1>14 DEF Tokens

\* What p holds stays with it: the frames c is left with owe nothing new.
LEMMA KeepsStep ==
  ASSUME PlaybackInv, NEW c \in Contexts, NEW p \in Players,
         NEW r \in Player, Ends(r), r.held = player[p].held,
         NEW new \in Seq(Frames), Owes(new) = {}, Distinct(new),
         NEW rest, NEW called, Leaves(c, rest, called), Counts(called),
         player' = [player EXCEPT ![p] = r],
         stack' = [stack EXCEPT ![c] = new \o rest],
         plays' = plays,
         c = 0 \/ stack[c] # << >>
  PROVE  PlaybackInv'
<1>0. /\ plays \in 0..MaxPlays /\ player \in [Players -> Player]
      /\ stack \in [Contexts -> Seq(Frames)]
      /\ MaxPlays \in Nat
  BY PlaybackAssumption DEF PlaybackInv, PlaybackTyped
<1>1. new \o rest \in Seq(Frames)
  BY OwesConcat DEF Leaves
<1>2. PlaybackTyped'
  BY <1>0, <1>1 DEF PlaybackTyped, Counts
<1>3. /\ player'[p].held = player[p].held
      /\ \A q \in Players : q # p => player'[q] = player[q]
      /\ player'[p] = r
  BY <1>0
<1>4. (plays + 1)..plays' = {}
  BY <1>0
<1>5. Tokens'
  BY <1>2, <1>3, <1>4, TokensStep DEF PlaybackInv
<1>6. Sounds'
  BY <1>3 DEF PlaybackInv, Sounds
<1> QED BY <1>2, <1>5, <1>6 DEF PlaybackInv

\* What p holds goes to the stack of c, and p holds nothing.
LEMMA HandsStep ==
  ASSUME PlaybackInv, NEW c \in Contexts, NEW p \in Players,
         NEW r \in Player, Ends(r), r.held = 0,
         NEW rest, Leaves(c, rest, {}),
         player' = [player EXCEPT ![p] = r],
         stack' = [stack EXCEPT ![c] = Called(player[p].held) \o rest],
         UNCHANGED <<plays, calls>>,
         c = 0 \/ stack[c] # << >> \/ c = player[p].held
  PROVE  PlaybackInv'
<1> DEFINE new == Called(player[p].held)
<1>0. /\ plays \in 0..MaxPlays /\ player \in [Players -> Player]
      /\ stack \in [Contexts -> Seq(Frames)]
      /\ calls \in [1..MaxPlays -> Nat]
      /\ MaxPlays \in Nat /\ player[p].held \in Contexts
  BY PlaybackAssumption, PlayerFields DEF PlaybackInv, PlaybackTyped
<1>1. /\ new \in Seq(Frames) /\ Owes(new) = {player[p].held} \ {0}
      /\ Distinct(new)
  BY <1>0, OwesCalled
<1> HIDE DEF new
<1>2. new \o rest \in Seq(Frames)
  BY <1>1, OwesConcat DEF Leaves
<1>3. PlaybackTyped'
  BY <1>0, <1>2 DEF PlaybackTyped, new
<1>4. /\ player'[p].held = 0 /\ player'[p] = r
      /\ \A q \in Players : q # p => player'[q] = player[q]
  BY <1>0
<1>5. (plays + 1)..plays' = {} /\ plays' \in {plays, plays + 1}
  BY <1>0
<1>6. Counts({})
  BY CountsNothing DEF PlaybackInv
<1>7. 0 \notin Owes(new)
  BY <1>1
<1>8. Owes(new) \cup ({player'[p].held} \ {0})
        = ({player[p].held} \ {0}) \cup ((plays + 1)..plays')
  BY <1>1, <1>4, <1>5
<1>9. stack' = [stack EXCEPT ![c] = new \o rest]
  BY DEF new
<1>10. \/ c = 0
       \/ stack[c] # << >>
       \/ c = player[p].held /\ player'[p].held = 0
  BY <1>4
<1>11. PlaybackTyped /\ Tokens
  BY DEF PlaybackInv
<1>12. \A q \in Players : q # p => player'[q].held = player[q].held
  BY <1>4
<1>13. Tokens'
  BY <1>10, <1>11, <1>12, <1>1, <1>3, <1>4, <1>5, <1>6, <1>7, <1>8, <1>9,
     TokensStep
  DEF PlaybackInv
<1>14. Sounds'
  BY <1>4 DEF PlaybackInv, Sounds
<1> QED BY <1>3, <1>13, <1>14 DEF PlaybackInv

\* p plays a sound with callback n, none or that of a new play; no other
\* player's callback is touched.
LEMMA PlaysStep ==
  ASSUME PlaybackInv, NEW c \in Contexts, NEW p \in Players,
         NEW n \in Contexts, NEW urls \in 1..2,
         \/ n = 0 /\ plays' = plays
         \/ n = plays + 1 /\ plays' = n,
         player' \in [Players -> Player], Sounds',
         player'[p] = play(player[p], c, n, urls),
         \A q \in Players : q # p => player'[q].held = player[q].held,
         NEW rest, NEW called, Leaves(c, rest, called), Counts(called),
         stack' = [stack EXCEPT ![c] = AfterPlay(player[p], p, n) \o rest],
         c = 0 \/ stack[c] # << >>
  PROVE  PlaybackInv'
<1> DEFINE new == AfterPlay(player[p], p, n)
           h == player[p].held
           h2 == player'[p].held
<1>0. /\ plays \in 0..MaxPlays /\ player \in [Players -> Player]
      /\ stack \in [Contexts -> Seq(Frames)]
      /\ MaxPlays \in Nat /\ h \in Contexts /\ Contexts = 0..MaxPlays
      /\ player[p] \in Player
  BY PlaybackAssumption, PlayerFields
  DEF PlaybackInv, PlaybackTyped, Contexts
<1>1. h <= plays
  BY DEF PlaybackInv, Tokens, Conserved, Held
<1>2. n = 0 \/ n # h
  BY <1>0, <1>1
<1>3. /\ new \in Seq(Frames) /\ Distinct(new)
      /\ Owes(new) \cup ({h2} \ {0}) = {h, n} \ {0}
      /\ h2 \notin Owes(new)
  BY <1>0, <1>2, AfterPlaying
<1>4. stack' = [stack EXCEPT ![c] = new \o rest]
  OBVIOUS
<1> HIDE DEF new
<1>5. new \o rest \in Seq(Frames)
  BY <1>3, OwesConcat DEF Leaves
<1>6. plays' \in 0..MaxPlays
  BY <1>0
<1>7. PlaybackTyped'
  BY <1>0, <1>4, <1>5, <1>6 DEF PlaybackTyped, Counts
<1>8. {h, n} \ {0} = ({h} \ {0}) \cup ((plays + 1)..plays')
  <2>1. CASE n = 0 /\ plays' = plays
    <3>1. (plays + 1)..plays' = {}
      BY <2>1, <1>0
    <3> QED BY <2>1, <3>1
  <2>2. CASE n = plays + 1 /\ plays' = n
    <3>1. (plays + 1)..plays' = {n} /\ n # 0
      BY <2>2, <1>0
    <3> QED BY <3>1
  <2> QED BY <2>1, <2>2
<1>9. plays' \in {plays, plays + 1}
  OBVIOUS
<1>10. Owes(new) \cup ({h2} \ {0}) = ({h} \ {0}) \cup ((plays + 1)..plays')
  BY <1>3, <1>8
<1>11. Tokens'
  BY <1>3, <1>4, <1>7, <1>9, <1>10, TokensStep DEF PlaybackInv
<1> QED BY <1>7, <1>11 DEF PlaybackInv

\* The same when p alone changes.
LEMMA PlaysAlone ==
  ASSUME PlaybackInv, NEW c \in Contexts, NEW p \in Players,
         NEW n \in Contexts, NEW urls \in 1..2,
         \/ n = 0 /\ plays' = plays
         \/ n = plays + 1 /\ plays' = n,
         player' = [player EXCEPT ![p] = play(player[p], c, n, urls)],
         NEW rest, NEW called, Leaves(c, rest, called), Counts(called),
         stack' = [stack EXCEPT ![c] = AfterPlay(player[p], p, n) \o rest],
         c = 0 \/ stack[c] # << >>
  PROVE  PlaybackInv'
<1>1. player \in [Players -> Player] /\ \A q \in Players : Ends(player[q])
  BY DEF PlaybackInv, PlaybackTyped, Sounds
<1>2. /\ play(player[p], c, n, urls) \in Player
      /\ Ends(play(player[p], c, n, urls))
  BY <1>1, Playing
<1>3. /\ player' \in [Players -> Player]
      /\ player'[p] = play(player[p], c, n, urls)
      /\ \A q \in Players : q # p => player'[q] = player[q]
  BY <1>1, <1>2
<1>4. Sounds'
  BY <1>1, <1>2, <1>3 DEF Sounds
<1> QED BY <1>3, <1>4, PlaysStep

-----------------------------------------------------------------------------
(* The parts of actions that move the playback.                            *)

LEMMA StillStep ==
  ASSUME PlaybackInv, UNCHANGED playbackVars
  PROVE  PlaybackInv'
<1>1. UNCHANGED <<player, stack, plays, calls>>
  BY DEF playbackVars
<1>2. PlaybackTyped'
  BY <1>1 DEF PlaybackInv, PlaybackTyped
<1>3. Held' = Held /\ Owing' = Owing
  BY <1>1 DEF Held, Owing
<1>4. Tokens'
  BY <1>1, <1>3 DEF PlaybackInv, Tokens
<1>5. Sounds'
  BY <1>1 DEF PlaybackInv, Sounds
<1> QED BY <1>2, <1>4, <1>5 DEF PlaybackInv

\* A player changes in what no callback depends on.
LEMMA BecomesStep ==
  ASSUME PlaybackInv, NEW p \in Players, NEW r \in Player, Ends(r),
         r.held = player[p].held, Becomes(p, r)
  PROVE  PlaybackInv'
<1>1. /\ player' = [player EXCEPT ![p] = r]
      /\ UNCHANGED <<stack, plays, calls>>
  BY DEF Becomes
<1>2. 0 \in Contexts /\ stack \in [Contexts -> Seq(Frames)]
  BY PlaybackAssumption DEF Contexts, PlaybackInv, PlaybackTyped
<1>3. Leaves(0, stack[0], {})
  BY <1>2 DEF Leaves, PlaybackInv, Tokens
<1>4. << >> \o stack[0] = stack[0] /\ << >> \in Seq(Frames)
  BY <1>2, ConcatEmptySeq, EmptySeq
<1>5. stack' = [stack EXCEPT ![0] = << >> \o stack[0]]
  BY <1>1, <1>2, <1>4
<1>6. Counts({})
  BY <1>1, CountsNothing DEF PlaybackInv
<1> QED BY <1>1, <1>2, <1>3, <1>4, <1>5, <1>6, OwesNothing, KeepsStep

\* Context c goes on with frames that owe nothing, and no player changes.
LEMMA DoesStep ==
  ASSUME PlaybackInv, NEW c \in Contexts,
         NEW new \in Seq(Frames), Owes(new) = {}, Distinct(new),
         NEW rest, NEW called, Leaves(c, rest, called), Counts(called),
         stack' = [stack EXCEPT ![c] = new \o rest],
         UNCHANGED <<player, plays>>,
         c = 0 \/ stack[c] # << >>
  PROVE  PlaybackInv'
<1>1. /\ "speech" \in Players /\ player \in [Players -> Player]
      /\ Ends(player["speech"])
  BY VoiceAssumption DEF PlaybackInv, PlaybackTyped, Sounds
<1>2. /\ player' = [player EXCEPT !["speech"] = player["speech"]]
      /\ player["speech"] \in Player
  BY <1>1
<1> QED BY <1>1, <1>2, KeepsStep

\* A play numbered on the loop.
LEMMA PlaysNew ==
  ASSUME PlaybackInv, Loop, NEW p \in Players, NEW kind, NEW urls \in 1..2,
         Plays(0, p, kind, urls, << >>)
  PROVE  PlaybackInv'
<1>1. /\ plays < MaxPlays /\ plays' = plays + 1
      /\ player' = [player EXCEPT ![p] = play(player[p], 0, plays + 1, urls)]
      /\ stack' = [stack EXCEPT
           ![0] = AfterPlay(player[p], p, plays + 1) \o << >> \o stack[0]]
      /\ UNCHANGED calls
  BY DEF Plays, Adds
<1>2. /\ 0 \in Contexts /\ stack[0] = << >>
      /\ plays \in Nat /\ plays + 1 \in Contexts
      /\ player[p] \in Player
      /\ player[p].held # plays + 1
      /\ 0 \in Contexts
  <2>1. plays \in 0..MaxPlays /\ MaxPlays \in Nat
    BY PlaybackAssumption DEF PlaybackInv, PlaybackTyped
  <2>2. player[p] \in Player /\ player[p].held <= plays
    BY DEF PlaybackInv, PlaybackTyped, Tokens, Conserved, Held
  <2> QED BY <1>1, <2>1, <2>2, PlayerFields DEF Loop, Contexts
<1>3. AfterPlay(player[p], p, plays + 1) \in Seq(Frames)
  BY <1>2, AfterPlaying
<1>4. AfterPlay(player[p], p, plays + 1) \o << >> \o stack[0]
        = AfterPlay(player[p], p, plays + 1) \o << >>
  BY <1>2, <1>3, ConcatEmptySeq
<1>5. Leaves(0, << >>, {})
  BY <1>2, EmptySeq, OwesNothing, LeavesEmpty
<1>6. Counts({})
  BY <1>1, CountsNothing DEF PlaybackInv
<1> QED BY <1>1, <1>2, <1>4, <1>5, <1>6, PlaysAlone

\* A sound without a callback.
LEMMA PlaysSoundStep ==
  ASSUME PlaybackInv, NEW then, Leaves(0, then, {}),
         PlaysSound(0, "speech", then)
  PROVE  PlaybackInv'
<1>1. /\ player' = [player EXCEPT
           !["speech"] = play(player["speech"], 0, 0, 1)]
      /\ stack' = [stack EXCEPT
           ![0] = AfterPlay(player["speech"], "speech", 0) \o then]
      /\ plays' = plays /\ calls' = calls
  BY DEF PlaysSound
<1>2. 0 \in Contexts /\ "speech" \in Players /\ 1 \in 1..2
  BY PlaybackAssumption, VoiceAssumption DEF Contexts
<1>3. Counts({})
  BY <1>1, CountsNothing DEF PlaybackInv
<1> QED BY <1>1, <1>2, <1>3, PlaysAlone

LEMMA StopsStep ==
  ASSUME PlaybackInv, NEW p \in Players, NEW then, Leaves(0, then, {}),
         Stops(p, then)
  PROVE  PlaybackInv'
<1>1. /\ player' = [player EXCEPT ![p] = stop(player[p])]
      /\ stack' = [stack EXCEPT ![0] = Called(player[p].held) \o then]
      /\ UNCHANGED <<plays, calls>>
  BY DEF Stops
<1>2. 0 \in Contexts /\ player[p] \in Player
  BY PlaybackAssumption DEF Contexts, PlaybackInv, PlaybackTyped
<1> QED BY <1>1, <1>2, Stopping, HandsStep

\* A playback thread ends and calls what it takes.
LEMMA EndsStep ==
  ASSUME PlaybackInv, NEW p \in Players, NEW r \in Player,
         r.held = player[p].held, r.loading => r.pending > 0 \/ r.resolving,
         Hands(p, r)
  PROVE  PlaybackInv'
<1> DEFINE h == player[p].held
           r2 == [r EXCEPT !.held = 0, !.thread = None]
<1>1. /\ player' = [player EXCEPT ![p] = r2]
      /\ stack' = IF h = 0 THEN stack ELSE [stack EXCEPT ![h] = Called(h)]
      /\ UNCHANGED <<plays, calls>>
  BY DEF Hands
<1>2. /\ 0 \in Contexts /\ h \in Contexts /\ None \in Threads
      /\ stack \in [Contexts -> Seq(Frames)]
  BY PlaybackAssumption, PlayerFields
  DEF Contexts, Threads, PlaybackInv, PlaybackTyped
<1>3. /\ r2 \in Player /\ r2.held = 0
      /\ r2.loading => r2.pending > 0 \/ r2.resolving
  BY <1>2 DEF Player
<1>4. Ends(r2)
  BY <1>3 DEF Ends
<1>5. h # 0 => stack[h] = << >>
  BY DEF PlaybackInv, Tokens
<1>6. << >> \in Seq(Frames)
  BY EmptySeq
<1> HIDE DEF r2
<1>7. CASE h = 0
  <2>1. /\ Called(h) = << >> /\ << >> \o stack[0] = stack[0]
    BY <1>7, <1>2, ConcatEmptySeq DEF Called
  <2>2. stack' = [stack EXCEPT ![0] = Called(h) \o stack[0]]
    BY <1>1, <1>2, <1>7, <2>1
  <2>3. Leaves(0, stack[0], {})
    BY <1>2 DEF Leaves, PlaybackInv, Tokens
  <2> QED BY <2>2, <2>3, <1>1, <1>2, <1>3, <1>4, HandsStep
<1>8. CASE h # 0
  <2>1. Called(h) \o << >> = Called(h)
    BY <1>2, OwesCalled, ConcatEmptySeq
  <2>2. stack' = [stack EXCEPT ![h] = Called(h) \o << >>]
    BY <1>1, <1>8, <2>1
  <2>3. Leaves(h, << >>, {})
    BY <1>2, <1>5, <1>6, <1>8, OwesNothing, LeavesEmpty
  <2> QED BY <2>2, <2>3, <1>1, <1>2, <1>3, <1>4, HandsStep
<1> QED BY <1>7, <1>8

\* A callback is called: what it was, and what its context is left with.
LEMMA CallingStep ==
  ASSUME PlaybackInv, NEW c \in Contexts, NEW kind, Calling(c, kind)
  PROVE  LET n == Head(stack[c])[2]
         IN /\ n \in 1..plays
            /\ Leaves(c, Tail(stack[c]), {n})
            /\ Counts({n})
            /\ stack[c] # << >>
<1> DEFINE n == Head(stack[c])[2]
<1>1. Next_(c, "call") /\ calls' = [calls EXCEPT ![n] = @ + 1]
  BY DEF Calling
<1>2. /\ n \in 1..MaxPlays /\ n \in Owes(stack[c])
      /\ Leaves(c, Tail(stack[c]), {n})
  BY <1>1, LeavesCalled
<1>3. Owes(stack[c]) \subseteq 1..plays
  BY DEF PlaybackInv, Tokens, Conserved, Owing
<1>4. calls \in [1..MaxPlays -> Nat]
  BY DEF PlaybackInv, PlaybackTyped
<1>5. Counts({n})
  BY <1>1, <1>2, <1>4 DEF Counts
<1> QED BY <1>1, <1>2, <1>3, <1>5 DEF Next_

-----------------------------------------------------------------------------
(* The actions keep the playback's invariant.                              *)

LEMMA PlayerStepsStep ==
  ASSUME PlaybackInv, NEW p \in Players, PlayerSteps(p)
  PROVE  PlaybackInv'
<1> DEFINE r == player[p]
<1>0. /\ r \in Player /\ Ends(r)
      /\ {"resolve", "resolving", "push"} \subseteq Threads
      /\ None \notin {"resolve", "resolving", "push"}
  BY PlaybackAssumption
  DEF PlaybackInv, PlaybackTyped, Sounds, Threads
<1>1. CASE _resolve_and_begin(p)
  <2> DEFINE q == [r EXCEPT !.resolving = FALSE]
  <2>1. CASE q.pending = 0
             /\ Hands(p, [q EXCEPT !.loading = FALSE, !.current = FALSE])
    <3> DEFINE u == [q EXCEPT !.loading = FALSE, !.current = FALSE]
    <3>1. u \in Player /\ u.held = r.held /\ ~u.loading
      BY <1>0 DEF Player
    <3>2. Hands(p, u)
      BY <2>1
    <3> QED BY <3>1, <3>2, EndsStep
  <2>2. CASE q.pending > 0
             /\ Becomes(p, [q EXCEPT !.pending = @ - 1, !.resolving = TRUE,
                                     !.thread = "resolving"])
    <3> DEFINE u == [q EXCEPT !.pending = @ - 1, !.resolving = TRUE,
                              !.thread = "resolving"]
    <3>0. q \in Player /\ q.held = r.held
      BY <1>0 DEF Player
    <3>1. q.pending \in Nat
      BY <3>0 DEF Player
    <3>2. q.pending > 0
      BY <2>2
    <3>3. q.pending - 1 \in Nat
      <4> HIDE DEF q
      <4> QED BY <3>1, <3>2
    <3>4. q \in Player /\ q.held = r.held /\ q.pending - 1 \in Nat
      BY <3>0, <3>3
    <3> HIDE DEF q
    <3>5. /\ u \in Player /\ u.held = r.held /\ u.resolving
          /\ u.thread = "resolving"
      BY <1>0, <3>4 DEF Player
    <3>6. Becomes(p, u) /\ Ends(u)
      BY <2>2, <3>5, <1>0 DEF Ends
    <3> QED BY <3>5, <3>6, BecomesStep
  <2> QED BY <1>1, <2>1, <2>2 DEF _resolve_and_begin
<1>2. CASE Skips(p)
  <2> DEFINE u == [r EXCEPT !.thread = "resolve"]
  <2>1. /\ u \in Player /\ u.held = r.held /\ u.thread = "resolve"
        /\ u.loading = r.loading /\ u.pending = r.pending
        /\ u.resolving = r.resolving
    BY <1>0 DEF Player
  <2>2. Becomes(p, u) /\ Ends(u)
    BY <1>2, <2>1, <1>0 DEF Skips, Ends
  <2> QED BY <2>1, <2>2, BecomesStep
<1>3. CASE _begin(p)
  <2> DEFINE u == [r EXCEPT !.resolving = FALSE, !.loading = FALSE,
                            !.current = TRUE, !.thread = "push"]
  <2>1. u \in Player /\ u.held = r.held /\ u.thread = "push" /\ ~u.loading
    BY <1>0 DEF Player
  <2>2. Becomes(p, u) /\ Ends(u)
    BY <1>3, <2>1, <1>0 DEF _begin, Ends
  <2> QED BY <2>1, <2>2, BecomesStep
<1>4. CASE _finished(p)
  <2> DEFINE q == [r EXCEPT !.current = FALSE]
  <2>0. /\ q \in Player /\ q.held = r.held /\ q.pending = r.pending
        /\ q.loading = r.loading /\ q.resolving = r.resolving
    BY <1>0 DEF Player
  <2>1. CASE q.pending > 0
             /\ Becomes(p, [q EXCEPT !.loading = TRUE, !.thread = "resolve"])
    <3> DEFINE u == [q EXCEPT !.loading = TRUE, !.thread = "resolve"]
    <3>1. /\ u \in Player /\ u.held = r.held /\ u.pending = q.pending
          /\ u.thread = "resolve"
      BY <1>0, <2>0 DEF Player
    <3>2. Becomes(p, u) /\ Ends(u)
      BY <2>1, <3>1, <1>0 DEF Ends
    <3> QED BY <3>1, <3>2, BecomesStep
  <2>2. CASE q.pending = 0 /\ Hands(p, q)
    <3>1. q.loading => q.pending > 0 \/ q.resolving
      BY <1>0, <2>0 DEF Ends
    <3> QED BY <2>0, <2>2, <3>1, EndsStep
  <2> QED BY <1>4, <2>1, <2>2 DEF _finished
<1> QED BY <1>1, <1>2, <1>3, <1>4 DEF PlayerSteps

\* Frames the actions leave on the loop's stack.
LEMMA LoopFrames ==
  ASSUME Loop
  PROVE  /\ Leaves(0, << >>, {})
         /\ Leaves(0, << <<"emit", "idle">> >>, {})
         /\ Leaves(0, << <<"sound", "mute">> >>, {})
         /\ Leaves(0, << <<"release", "speech">> >>, {})
         /\ Leaves(0, << <<"stop", "speech">>, <<"emit", "disconnected">> >>,
                   {})
         /\ link \in Link => Leaves(0, << <<"settle", link.number>> >>, {})
<1>1. 0 \in Contexts /\ stack[0] = << >>
  BY PlaybackAssumption DEF Contexts, Loop
<1>2. /\ <<"emit", "idle">> \in Frames /\ <<"sound", "mute">> \in Frames
      /\ <<"release", "speech">> \in Frames /\ <<"stop", "speech">> \in Frames
      /\ <<"emit", "disconnected">> \in Frames
      /\ link \in Link => <<"settle", link.number>> \in Frames
  BY DEF Frames, Link
<1>3. Leaves(0, << >>, {})
  BY <1>1, EmptySeq, OwesNothing, LeavesEmpty
<1>4. \A f \in Frames : f[1] # "call" => Leaves(0, <<f>>, {})
  BY <1>1, OwesFrame, LeavesEmpty
<1>5. Leaves(0, << <<"stop", "speech">>, <<"emit", "disconnected">> >>, {})
  <2> DEFINE s == << <<"stop", "speech">>, <<"emit", "disconnected">> >>
  <2>1. s \in Seq(Frames)
    BY <1>2
  <2>2. \A i \in DOMAIN s : s[i][1] # "call"
    OBVIOUS
  <2>3. Owes(s) = {} /\ Distinct(s)
    BY <2>1, <2>2, OwesNone
  <2> QED BY <2>1, <2>3, <1>1, LeavesEmpty
<1>6. /\ <<"emit", "idle">>[1] # "call" /\ <<"sound", "mute">>[1] # "call"
      /\ <<"release", "speech">>[1] # "call"
      /\ <<"settle", link.number>>[1] # "call"
  OBVIOUS
<1> QED BY <1>2, <1>3, <1>4, <1>5, <1>6

LEMMA OutputsExist ==
  "speech" \in Players /\ "music" \in Players /\ 0 \in Contexts /\ 1 \in 1..2
BY PlaybackAssumption, VoiceAssumption DEF Contexts

\* Handlers of messages, wake words and the mute switch.
LEMMA HandlersPlayback ==
  ASSUME PlaybackInv, VoiceTyped,
         \/ wakeup \/ stop_ \/ \E new \in BOOLEAN : _set_muted(new)
         \/ RUN_START \/ STT_END \/ INTENT_START \/ INTENT_END \/ play_tts
         \/ RUN_END \/ ERROR
         \/ Announce \/ TIMER_FINISHED \/ TIMER_CANCELLED
  PROVE  PlaybackInv'
<1>1. CASE wakeup
  BY <1>1, OutputsExist, PlaysNew DEF wakeup, Handles
<1>2. CASE stop_
  BY <1>2, OutputsExist, LoopFrames, StopsStep DEF stop_, Handles
<1>3. CASE \E new \in BOOLEAN : _set_muted(new)
  <2> PICK new \in BOOLEAN : _set_muted(new)
    BY <1>3
  <2>1. Loop
    BY DEF _set_muted, Handles
  <2>2. CASE new
    BY <2>1, <2>2, OutputsExist, LoopFrames, StopsStep DEF _set_muted
  <2>3. CASE ~new
    BY <2>1, <2>3, LoopFrames, PlaysSoundStep DEF _set_muted
  <2> QED BY <2>2, <2>3
<1>4. CASE RUN_START
  BY <1>4, StillStep DEF RUN_START, Silent
<1>5. CASE STT_END
  BY <1>5, StillStep DEF STT_END, Silent
<1>6. CASE INTENT_START
  <2>1. Loop
    BY <1>6 DEF INTENT_START, Phase, Handles
  <2>2. Silent \/ PlaysSound(0, "speech", << >>)
    BY <1>6 DEF INTENT_START
  <2> QED BY <2>1, <2>2, LoopFrames, PlaysSoundStep, StillStep DEF Silent
<1>7. CASE INTENT_END
  BY <1>7, StillStep DEF INTENT_END, Silent
<1>8. CASE play_tts
  BY <1>8, OutputsExist, PlaysNew DEF play_tts, Phase, Handles
<1>9. CASE RUN_END
  <2>1. Loop /\ link \in Link
    BY <1>9 DEF RUN_END, Phase, Handles, VoiceTyped
  <2>2. CASE link.played
    BY <1>9, <2>2, StillStep DEF RUN_END, Silent
  <2>3. CASE ~link.played
    <3> DEFINE s == << <<"settle", link.number>> >>
    <3>1. Leaves(0, s, {})
      BY <2>1, LoopFrames
    <3> HIDE DEF s
    <3>2. /\ stack' = [stack EXCEPT ![0] = s]
          /\ UNCHANGED <<player, plays, calls>>
      BY <1>9, <2>3 DEF RUN_END, s
    <3>3. << >> \o s = s /\ << >> \in Seq(Frames)
      BY <3>1, ConcatEmptySeq, EmptySeq DEF Leaves
    <3>4. Counts({})
      BY <3>2, CountsNothing DEF PlaybackInv
    <3>5. stack' = [stack EXCEPT ![0] = << >> \o s]
      BY <3>2, <3>3
    <3> QED
      BY <3>1, <3>2, <3>3, <3>4, <3>5, OutputsExist, OwesNothing, DoesStep
  <2> QED BY <2>2, <2>3
<1>10. CASE ERROR
  BY <1>10, StillStep DEF ERROR, Silent
<1>11. CASE Announce
  BY <1>11, OutputsExist, PlaysNew DEF Announce, Handles
<1>12. CASE TIMER_FINISHED
  BY <1>12, OutputsExist, PlaysNew DEF TIMER_FINISHED, Handles
<1>13. CASE TIMER_CANCELLED
  BY <1>13, StillStep DEF TIMER_CANCELLED, Silent
<1> QED
  BY <1>1, <1>2, <1>3, <1>4, <1>5, <1>6, <1>7, <1>8, <1>9, <1>10, <1>11,
     <1>12, <1>13

\* The media player, the shutdown and the connection.
LEMMA MediaPlayback ==
  ASSUME PlaybackInv,
         MediaCommand \/ MediaAnnouncement \/ Shutdown \/ connection_lost
  PROVE  PlaybackInv'
<1>0. /\ player \in [Players -> Player]
      /\ \A q \in Players : player[q] \in Player /\ Ends(player[q])
  BY DEF PlaybackInv, PlaybackTyped, Sounds
<1>1. CASE MediaCommand
  <2>1. Loop
    BY <1>1 DEF MediaCommand, Handles
  <2>2. CASE /\ \E m \in {pause(player["music"]), resume(player["music"])} :
                  player' = [player EXCEPT !["music"] = m]
             /\ UNCHANGED <<stack, plays, calls>>
    <3> PICK m \in {pause(player["music"]), resume(player["music"])} :
               player' = [player EXCEPT !["music"] = m]
      BY <2>2
    <3>1. m \in Player /\ Ends(m) /\ m.held = player["music"].held
      BY <1>0, OutputsExist, Pausing, Resuming
    <3>2. Becomes("music", m)
      BY <2>2 DEF Becomes
    <3> QED BY <3>1, <3>2, OutputsExist, BecomesStep
  <2>3. CASE Plays(0, "music", "idle", 1, << >>)
    BY <2>1, <2>3, OutputsExist, PlaysNew
  <2>4. CASE Stops("music", << >>)
    BY <2>1, <2>4, OutputsExist, LoopFrames, StopsStep
  <2> QED BY <1>1, <2>2, <2>3, <2>4 DEF MediaCommand
<1>2. CASE MediaAnnouncement
  <2> DEFINE n == plays + 1
             m == IF is_playing(player["music"]) THEN pause(player["music"])
                  ELSE player["music"]
             r == play(player["speech"], 0, n, 1)
             a == AfterPlay(player["speech"], "speech", n)
  <2>1. /\ Loop /\ plays < MaxPlays /\ plays' = n
        /\ player' = [player EXCEPT !["speech"] = r, !["music"] = m]
        /\ stack' = [stack EXCEPT ![0] = a]
        /\ UNCHANGED calls
    BY <1>2 DEF MediaAnnouncement, Adds, Handles
  <2>2. m \in Player /\ Ends(m) /\ m.held = player["music"].held
    BY <1>0, OutputsExist, Pausing
  <2>3. n \in Contexts /\ player["speech"].held # n
    <3>1. plays \in 0..MaxPlays /\ MaxPlays \in Nat
      BY PlaybackAssumption DEF PlaybackInv, PlaybackTyped
    <3>2. player["speech"].held <= plays /\ player["speech"].held \in Contexts
      BY OutputsExist, <1>0, PlayerFields
      DEF PlaybackInv, Tokens, Conserved, Held
    <3> QED BY <2>1, <3>1, <3>2 DEF Contexts
  <2>4. r \in Player /\ Ends(r)
    BY <1>0, <2>3, OutputsExist, Playing
  <2>5. a \in Seq(Frames)
    BY <1>0, <2>3, OutputsExist, AfterPlaying
  <2>6. a \o << >> = a
    BY <2>5, ConcatEmptySeq
  <2>7. Leaves(0, << >>, {}) /\ Counts({})
    BY <2>1, LoopFrames, CountsNothing DEF PlaybackInv
  <2> HIDE DEF m, r
  <2>8. /\ player' \in [Players -> Player]
        /\ player'["speech"] = r /\ player'["music"] = m
        /\ \A q \in Players \ {"speech", "music"} : player'[q] = player[q]
    BY <1>0, <2>1, <2>2, <2>4, OutputsExist
  <2>9. Sounds'
    BY <1>0, <2>2, <2>4, <2>8 DEF Sounds
  <2>10. \A q \in Players : q # "speech" => player'[q].held = player[q].held
    BY <2>2, <2>8
  <2>11. stack' = [stack EXCEPT ![0] = a \o << >>]
    BY <2>1, <2>6
  <2>12. player'["speech"] = play(player["speech"], 0, n, 1)
    BY <2>8 DEF r
  <2> QED
    BY <2>1, <2>3, <2>7, <2>8, <2>9, <2>10, <2>11, <2>12, OutputsExist,
       PlaysStep
<1>3. CASE Shutdown
  BY <1>0, <1>3, OutputsExist, LoopFrames, Stopping, HandsStep DEF Shutdown
<1>4. CASE connection_lost
  BY <1>4, OutputsExist, LoopFrames, StopsStep DEF connection_lost, Handles
<1> QED BY <1>1, <1>2, <1>3, <1>4

\* What a handler does after a callback.
LEMMA ResumesPlayback ==
  ASSUME PlaybackInv, Resumes
  PROVE  PlaybackInv'
<1>1. CASE /\ Next_(0, "emit")
           /\ Does(0, << >>)
           /\ UNCHANGED <<player, plays, done, calls>>
  <2>1. Leaves(0, Tail(stack[0]), {})
    BY <1>1, OutputsExist, LeavesTail
  <2>2. Counts({})
    BY <1>1, CountsNothing DEF PlaybackInv
  <2>3. stack' = [stack EXCEPT ![0] = << >> \o Tail(stack[0])]
    BY <1>1 DEF Does
  <2>4. << >> \in Seq(Frames)
    BY EmptySeq
  <2> QED BY <1>1, <2>1, <2>2, <2>3, <2>4, OutputsExist, OwesNothing, DoesStep
<1>2. CASE Next_(0, "sound") /\ PlaysSound(0, "speech", Tail(stack[0]))
  BY <1>2, OutputsExist, LeavesTail, PlaysSoundStep
<1>3. CASE Next_(0, "stop") /\ Stops("speech", Tail(stack[0]))
  BY <1>3, OutputsExist, LeavesTail, StopsStep
<1>4. CASE /\ Next_(0, "release")
           /\ player' = [player EXCEPT !["speech"] = release(@)]
           /\ Does(0, Called(player["speech"].held))
           /\ UNCHANGED <<plays, done, calls, machine>>
  <2>1. Leaves(0, Tail(stack[0]), {})
    BY <1>4, OutputsExist, LeavesTail
  <2>2. player["speech"] \in Player
    BY OutputsExist DEF PlaybackInv, PlaybackTyped
  <2>3. stack' = [stack EXCEPT
          ![0] = Called(player["speech"].held) \o Tail(stack[0])]
    BY <1>4 DEF Does
  <2> QED BY <1>4, <2>1, <2>2, <2>3, OutputsExist, Stopping, HandsStep
<1> QED BY <1>1, <1>2, <1>3, <1>4 DEF Resumes

\* A callback that plays nothing: what it leaves its context owes nothing.
LEMMA CallbackEnds ==
  ASSUME PlaybackInv, NEW c \in Contexts, NEW kind, Calling(c, kind),
         NEW new \in Seq(Frames), Owes(new) = {}, Distinct(new),
         Does(c, new), UNCHANGED <<player, plays>>
  PROVE  PlaybackInv'
<1>1. stack' = [stack EXCEPT ![c] = new \o Tail(stack[c])]
  BY DEF Does
<1> QED BY <1>1, CallingStep, DoesStep

\* The frame that a callback of a connection, number k, leaves.
LEMMA SettleFrame ==
  ASSUME NEW k \in 0..MaxConnections
  PROVE  /\ << <<"settle", k>> >> \in Seq(Frames)
         /\ Owes(<< <<"settle", k>> >>) = {}
         /\ Distinct(<< <<"settle", k>> >>)
<1>1. <<"settle", k>> \in Frames
  BY DEF Frames
<1>2. <<"settle", k>>[1] # "call"
  OBVIOUS
<1> QED BY <1>1, <1>2, OwesFrame

\* The connection a callback belongs to.
LEMMA CallbackOf ==
  ASSUME PlaybackInv, VoiceTyped, NEW n \in 1..plays
  PROVE  done[n] \in Callback /\ done[n].by \in 0..MaxConnections
<1>1. n \in 1..Len(done)
  BY DEF VoiceTyped
<1>2. done[n] \in Callback
  BY <1>1, ElementOfSeq DEF VoiceTyped
<1> QED BY <1>2 DEF Callback

LEMMA CallbacksPlayback ==
  ASSUME PlaybackInv, VoiceTyped, NEW c \in Contexts, Callbacks(c)
  PROVE  PlaybackInv'
<1>0. /\ << >> \in Seq(Frames)
      /\ player \in [Players -> Player]
      /\ \A q \in Players : player[q] \in Player /\ Ends(player[q])
  BY EmptySeq DEF PlaybackInv, PlaybackTyped, Sounds
<1>1. CASE _on_wakeup_sound_finished(c)
  BY <1>0, <1>1, OwesNothing, CallbackEnds DEF _on_wakeup_sound_finished
<1>2. CASE _tts_finished(c)
  <2> DEFINE k == done[Head(stack[c])[2]].by
  <2>1. /\ Calling(c, "tts") /\ Does(c, << <<"settle", k>> >>)
        /\ UNCHANGED <<player, plays>>
    BY <1>2 DEF _tts_finished
  <2>2. k \in 0..MaxConnections
    BY <2>1, CallingStep, CallbackOf
  <2> HIDE DEF k
  <2> QED BY <2>1, <2>2, SettleFrame, CallbackEnds
<1>3. CASE Settles(c)
  <2>1. /\ Next_(c, "settle") /\ Does(c, << >>)
        /\ UNCHANGED <<player, plays, calls>>
    BY <1>3 DEF Settles
  <2>2. Leaves(c, Tail(stack[c]), {}) /\ stack[c] # << >>
    BY <2>1, LeavesTail DEF Next_
  <2>3. Counts({})
    BY <2>1, CountsNothing DEF PlaybackInv
  <2>4. stack' = [stack EXCEPT ![c] = << >> \o Tail(stack[c])]
    BY <2>1 DEF Does
  <2> QED BY <2>1, <2>2, <2>3, <2>4, <1>0, OwesNothing, DoesStep
<1>4. CASE _play_timer_finished(c)
  <2>1. Calling(c, "timer")
    BY <1>4 DEF _play_timer_finished
  <2>2. CASE Does(c, << >>) /\ UNCHANGED <<player, plays, done>>
    BY <2>1, <2>2, <1>0, OwesNothing, CallbackEnds
  <2>3. CASE /\ Adds("timer")
             /\ player' = [player EXCEPT
                  !["speech"] = play(@, c, plays + 1, 1)]
             /\ Does(c, AfterPlay(player["speech"], "speech", plays + 1))
    <3>1. plays + 1 \in Contexts /\ plays' = plays + 1
      BY <2>3, PlaybackAssumption
      DEF Adds, Contexts, PlaybackInv, PlaybackTyped
    <3>2. stack' = [stack EXCEPT
            ![c] = AfterPlay(player["speech"], "speech", plays + 1)
                     \o Tail(stack[c])]
      BY <2>3 DEF Does
    <3>3. player' = [player EXCEPT
            !["speech"] = play(player["speech"], c, plays + 1, 1)]
      BY <2>3
    <3> QED
      BY <2>1, <3>1, <3>2, <3>3, CallingStep, OutputsExist, PlaysAlone
  <2> QED BY <1>4, <2>2, <2>3 DEF _play_timer_finished
<1>5. CASE MediaFinished(c)
  <2>0. Does(c, << >>) /\ plays' = plays
    BY <1>5 DEF MediaFinished
  <2>1. CASE Calling(c, "resume")
             /\ player' = [player EXCEPT !["music"] = resume(@)]
    <3> DEFINE r == resume(player["music"])
    <3>1. r \in Player /\ Ends(r) /\ r.held = player["music"].held
      BY <1>0, OutputsExist, Resuming
    <3>2. stack' = [stack EXCEPT ![c] = << >> \o Tail(stack[c])]
      BY <2>0 DEF Does
    <3>3. player' = [player EXCEPT !["music"] = r]
      BY <2>1
    <3> HIDE DEF r
    <3> QED
      BY <2>0, <2>1, <3>1, <3>2, <3>3, <1>0, CallingStep, OutputsExist,
         OwesNothing, KeepsStep
  <2>2. CASE Calling(c, "idle") /\ UNCHANGED player
    BY <2>0, <2>2, <1>0, OwesNothing, CallbackEnds
  <2> QED BY <1>5, <2>1, <2>2 DEF MediaFinished
<1>6. CASE Detach(c)
  <2> DEFINE p == Head(stack[c])[2]
             r == [player[p] EXCEPT !.thread = "resolve", !.by = 0]
             q == IF player[p].thread = "due" /\ player[p].by = c THEN r
                  ELSE player[p]
  <2>1. /\ Next_(c, "detach") /\ Does(c, << >>)
        /\ UNCHANGED <<plays, calls>>
    BY <1>6 DEF Detach
  <2>2. /\ Head(stack[c]) \in Frames /\ Leaves(c, Tail(stack[c]), {})
        /\ stack[c] # << >> /\ Head(stack[c])[1] = "detach"
    BY <2>1, LeavesTail DEF Next_
  <2>3. p \in Players
    BY <2>2 DEF Frames
  <2> HIDE DEF p
  <2>4. /\ r \in Player /\ r.held = player[p].held /\ r.thread = "resolve"
        /\ r.loading = player[p].loading /\ r.pending = player[p].pending
        /\ r.resolving = player[p].resolving
    <3>1. "resolve" \in Threads /\ player[p] \in Player
      BY <1>0, <2>3 DEF Threads
    <3> QED BY <3>1, OutputsExist DEF Player
  <2>5. Ends(r)
    BY <2>3, <2>4, <1>0, PlaybackAssumption DEF Ends
  <2> HIDE DEF r
  <2>6. q \in Player /\ Ends(q) /\ q.held = player[p].held
    BY <2>3, <2>4, <2>5, <1>0
  <2>7. player' = [player EXCEPT ![p] = q]
    <3>1. player' = IF player[p].thread = "due" /\ player[p].by = c
                    THEN [player EXCEPT ![p].thread = "resolve", ![p].by = 0]
                    ELSE player
      BY <1>6 DEF Detach, p
    <3>2. [player EXCEPT ![p].thread = "resolve", ![p].by = 0]
            = [player EXCEPT ![p] = r]
      BY <1>0, <2>3 DEF r, Player
    <3> QED BY <3>1, <3>2, <1>0, <2>3
  <2>8. stack' = [stack EXCEPT ![c] = << >> \o Tail(stack[c])]
    BY <2>1 DEF Does
  <2>9. Counts({})
    BY <2>1, CountsNothing DEF PlaybackInv
  <2> HIDE DEF q
  <2> QED
    BY <2>1, <2>2, <2>3, <2>6, <2>7, <2>8, <2>9, <1>0, OwesNothing, KeepsStep
<1> QED BY <1>1, <1>2, <1>3, <1>4, <1>5, <1>6 DEF Callbacks

LEMMA PlaybackStep ==
  ASSUME PlaybackInv, VoiceTyped, [Next]_vars
  PROVE  PlaybackInv'
<1>1. CASE \/ wakeup \/ stop_ \/ \E new \in BOOLEAN : _set_muted(new)
           \/ RUN_START \/ STT_END \/ INTENT_START \/ INTENT_END \/ play_tts
           \/ RUN_END \/ ERROR
           \/ Announce \/ TIMER_FINISHED \/ TIMER_CANCELLED
  BY <1>1, HandlersPlayback
<1>2. CASE MediaCommand \/ MediaAnnouncement \/ Shutdown \/ connection_lost
  BY <1>2, MediaPlayback
<1>3. CASE \E p \in Players : PlayerSteps(p) /\ UNCHANGED voiceVars
  BY <1>3, PlayerStepsStep
<1>4. CASE \E c \in Contexts : Callbacks(c)
  BY <1>4, CallbacksPlayback
<1>5. CASE HandlerResumes
  BY <1>5, ResumesPlayback DEF HandlerResumes
<1>6. CASE \/ _start_continued_conversation \/ Authenticated \/ Deliver
           \/ ErrorShown
  BY <1>6, StillStep
  DEF _start_continued_conversation, Authenticated, Deliver, ErrorShown,
      Silent
<1>7. CASE UNCHANGED vars
  BY <1>7, StillStep DEF vars
<1> QED BY <1>1, <1>2, <1>3, <1>4, <1>5, <1>6, <1>7 DEF Next

-----------------------------------------------------------------------------
(* The machine.                                                            *)

Shown(m) == m.state = "muted" \/ m.underneath

\* Whatever event a thread emits late, only the mute switch's own change
\* whether the machine shows the mute.
LEMMA Handling ==
  ASSUME NEW m \in Machines, NEW e \in DOMAIN PipelineMachine!Events
  PROVE  LET h == PipelineMachine!handle(m, e)
         IN /\ h \in Machines
            /\ e \in Signals => (Shown(h) <=> Shown(m))
            /\ e = "muted" => Shown(h)
            /\ e = "unmuted" => ~Shown(h)
<1> USE DEF PipelineMachine!Events
<1> DEFINE h == PipelineMachine!handle(m, e)
           u == PipelineMachine!Underneath(m, e)
           back == m.state = "disconnected" /\ u /\ e # "disconnected"
<1>1. /\ m.state \in PipelineMachine!States /\ m.underneath \in BOOLEAN
      /\ PipelineMachine!Events[e] \in PipelineMachine!States
      /\ "muted" \in PipelineMachine!States
      /\ PipelineMachine!Events[e] = "muted" => e = "muted"
      /\ e = "unmuted" => PipelineMachine!Events[e] = "idle"
      /\ e = "muted" => PipelineMachine!Events[e] = "muted"
      /\ e = "disconnected" => PipelineMachine!Events[e] = "disconnected"
  BY DEF Machines, PipelineMachine!States
<1>2. CASE PipelineMachine!Ignores(m, e)
  <2>1. h = m
    BY <1>2 DEF PipelineMachine!handle
  <2>2. m.state = "muted" /\ e # "unmuted"
    BY <1>2 DEF PipelineMachine!Ignores
  <2> QED BY <2>1, <2>2 DEF Shown
<1>3. CASE ~PipelineMachine!Ignores(m, e)
  <2>1. h = [state |-> IF back THEN "muted" ELSE PipelineMachine!Events[e],
             underneath |-> u]
    BY <1>3 DEF PipelineMachine!handle
  <2>2. u \in BOOLEAN
    BY DEF PipelineMachine!Underneath
  <2>3. u <=> /\ e # "unmuted"
              /\ \/ m.underneath
                 \/ m.state = "muted" /\ e = "disconnected"
    BY DEF PipelineMachine!Underneath
  <2>4. m.state = "muted" => e = "unmuted" \/ e = "disconnected"
    BY <1>3 DEF PipelineMachine!Ignores
  <2> HIDE DEF u, h
  <2>5. h \in [state : PipelineMachine!States, underneath : BOOLEAN]
    BY <2>1, <2>2, <1>1
  <2>6. /\ h.underneath = u
        /\ h.state = IF back THEN "muted" ELSE PipelineMachine!Events[e]
    BY <2>1
  <2>10. m.underneath => m.state \in {"muted", "disconnected"}
    BY DEF Machines
  <2>11. h \in Machines
    BY <2>3, <2>4, <2>5, <2>6, <2>10, <1>1 DEF Machines
  <2>7. ASSUME e \in Signals PROVE Shown(h) <=> Shown(m)
    <3>1. e # "muted" /\ e # "unmuted"
      BY <2>7 DEF Signals
    <3> QED BY <3>1, <2>3, <2>4, <2>6, <1>1 DEF Shown
  <2>8. e = "muted" => Shown(h)
    BY <2>6, <1>1 DEF Shown
  <2>9. e = "unmuted" => ~Shown(h)
    BY <2>3, <2>6, <1>1 DEF Shown
  <2> QED BY <2>7, <2>8, <2>9, <2>11 DEF h
<1> QED BY <1>2, <1>3

\* A signal leaves the machine showing what it showed.
LEMMA EmitsStep ==
  ASSUME machine \in Machines, NEW e \in Signals, Emits(e)
  PROVE  machine' \in Machines /\ (Shown(machine)' <=> Shown(machine))
<1>1. e \in DOMAIN PipelineMachine!Events
  BY DEF Signals
<1> QED BY <1>1, Handling DEF Emits, Shown

LEMMA SignalsAre ==
  {"wake_word_detected", "listening", "processing", "responding",
   "response_finished", "error", "idle", "disconnected"} \subseteq Signals
BY DEF Signals, PipelineMachine!Events

LEMMA TellsStep ==
  ASSUME machine \in Machines, soon \in Seq(Handed),
         NEW c \in Contexts, NEW k \in 0..MaxConnections,
         NEW asks \in BOOLEAN, NEW e \in Signals, Tells(c, k, asks, e)
  PROVE  /\ machine' \in Machines /\ soon' \in Seq(Handed)
         /\ Shown(machine)' <=> Shown(machine)
<1>1. CASE c = 0
  BY <1>1, EmitsStep DEF Tells
<1>2. CASE c # 0
  <2>1. /\ soon' = soon \o (IF asks THEN << <<"request", k>> >> ELSE << >>)
                        \o << <<"event", e>> >>
        /\ machine' = machine
    BY <1>2 DEF Tells
  <2>2. <<"request", k>> \in Handed /\ <<"event", e>> \in Handed
    BY DEF Handed
  <2>3. /\ << <<"request", k>> >> \in Seq(Handed) /\ << >> \in Seq(Handed)
        /\ << <<"event", e>> >> \in Seq(Handed)
    BY <2>2
  <2>4. (IF asks THEN << <<"request", k>> >> ELSE << >>) \in Seq(Handed)
    BY <2>3
  <2>5. soon' \in Seq(Handed)
    BY <2>1, <2>3, <2>4, ConcatProperties
  <2> QED BY <2>1, <2>5 DEF Shown
<1> QED BY <1>1, <1>2

-----------------------------------------------------------------------------
(* The actions keep the connection's types, and the mute shown.            *)

DoneTyped == done \in Seq(Callback) /\ Len(done) = plays

MachineInv ==
  /\ machine \in Machines
  /\ soon \in Seq(Handed)
  /\ muted \in BOOLEAN
  /\ muted <=> Shown(machine)

LEMMA AddsStep ==
  ASSUME DoneTyped, link \in Link, NEW kind \in Kinds, Adds(kind)
  PROVE  DoneTyped'
<1> DEFINE f == [kind |-> kind, by |-> link.number]
<1>1. f \in Callback
  BY DEF Callback, Link
<1>2. done' = Append(done, f) /\ plays' = plays + 1
  BY DEF Adds
<1> HIDE DEF f
<1> QED BY <1>1, <1>2 DEF DoneTyped

LEMMA DoneStep ==
  ASSUME DoneTyped, link \in Link, [Next]_vars
  PROVE  DoneTyped'
<1>1. \A kind \in Kinds : Adds(kind) => DoneTyped'
  BY AddsStep
<1>2. {"wake", "tts", "timer", "resume", "idle"} \subseteq Kinds
  BY DEF Kinds
<1>3. UNCHANGED <<plays, done>> => DoneTyped'
  BY DEF DoneTyped
<1>4. CASE wakeup \/ play_tts \/ Announce \/ TIMER_FINISHED
  BY <1>1, <1>2, <1>4 DEF wakeup, play_tts, Announce, TIMER_FINISHED, Plays
<1>5. CASE MediaCommand \/ MediaAnnouncement
  BY <1>1, <1>2, <1>3, <1>5 DEF MediaCommand, MediaAnnouncement, Plays, Stops
<1>6. CASE stop_ \/ \E new \in BOOLEAN : _set_muted(new)
  BY <1>3, <1>6 DEF stop_, _set_muted, Stops, PlaysSound
<1>7. CASE RUN_START \/ STT_END \/ INTENT_START \/ INTENT_END
  BY <1>3, <1>7
  DEF RUN_START, STT_END, INTENT_START, INTENT_END, Silent, PlaysSound,
      playbackVars
<1>8. CASE RUN_END \/ ERROR \/ TIMER_CANCELLED
  BY <1>3, <1>8 DEF RUN_END, ERROR, TIMER_CANCELLED, Silent, playbackVars
<1>9. CASE Shutdown \/ connection_lost
  BY <1>3, <1>9 DEF Shutdown, connection_lost, Stops, voiceVars
<1>10. CASE \E p \in Players : PlayerSteps(p) /\ UNCHANGED voiceVars
  BY <1>3, <1>10
  DEF PlayerSteps, _resolve_and_begin, Skips, _begin, _finished, Becomes,
      Hands, voiceVars
<1>11. CASE \E c \in Contexts : Callbacks(c)
  <2> PICK c \in Contexts : Callbacks(c)
    BY <1>11
  <2>1. CASE _play_timer_finished(c)
    BY <1>1, <1>2, <1>3, <2>1 DEF _play_timer_finished
  <2>2. CASE \/ _on_wakeup_sound_finished(c) \/ _tts_finished(c)
             \/ Settles(c) \/ MediaFinished(c)
    BY <1>3, <2>2
    DEF _on_wakeup_sound_finished, _tts_finished, Settles, MediaFinished,
        voiceVars
  <2>3. CASE Detach(c) /\ UNCHANGED voiceVars
    BY <1>3, <2>3 DEF Detach, voiceVars
  <2> QED BY <2>1, <2>2, <2>3 DEF Callbacks
<1>12. CASE HandlerResumes
  BY <1>3, <1>12 DEF HandlerResumes, Resumes, PlaysSound, Stops
<1>13. CASE \/ _start_continued_conversation \/ Authenticated \/ Deliver
            \/ ErrorShown
  BY <1>3, <1>13
  DEF _start_continued_conversation, Authenticated, Deliver, ErrorShown,
      Silent, playbackVars
<1>14. CASE UNCHANGED vars
  BY <1>3, <1>14 DEF vars, playbackVars, voiceVars
<1> QED
  BY <1>4, <1>5, <1>6, <1>7, <1>8, <1>9, <1>10, <1>11, <1>12, <1>13, <1>14
  DEF Next

LEMMA FreshIsLink ==
  ASSUME NEW k \in 0..MaxConnections
  PROVE  /\ Fresh(k) \in Link
         /\ [Fresh(k) EXCEPT !.authenticated = FALSE] \in Link
BY DEF Fresh, Link

LEMMA LinkStep ==
  ASSUME link \in Link, timers \in Nat, [Next]_vars
  PROVE  link' \in Link /\ timers' \in Nat
<1> USE DEF Link
<1>1. CASE wakeup \/ stop_ \/ \E new \in BOOLEAN : _set_muted(new)
  BY <1>1 DEF wakeup, stop_, _set_muted
<1>2. CASE RUN_START \/ STT_END \/ INTENT_START
  BY <1>2 DEF RUN_START, STT_END, INTENT_START, Phase
<1>3. CASE INTENT_END
  BY <1>3 DEF INTENT_END, Phase
<1>4. CASE play_tts \/ ERROR
  BY <1>4 DEF play_tts, ERROR, Phase
<1>5. CASE RUN_END
  BY <1>5 DEF RUN_END, Phase, Unwinds
<1>6. CASE Announce \/ TIMER_FINISHED \/ TIMER_CANCELLED
  BY <1>6 DEF Announce, TIMER_FINISHED, TIMER_CANCELLED
<1>7. CASE MediaCommand \/ MediaAnnouncement \/ Shutdown
  BY <1>7 DEF MediaCommand, MediaAnnouncement, Shutdown, voiceVars
<1>8. CASE \E p \in Players : PlayerSteps(p) /\ UNCHANGED voiceVars
  BY <1>8 DEF voiceVars
<1>9. CASE \E c \in Contexts : Callbacks(c)
  <2> PICK c \in Contexts : Callbacks(c)
    BY <1>9
  <2>1. CASE _on_wakeup_sound_finished(c) \/ _tts_finished(c)
    BY <2>1 DEF _on_wakeup_sound_finished, _tts_finished, Unwinds
  <2>2. CASE Settles(c)
    <3> DEFINE own == Connected /\ Head(stack[c])[2] = link.number
               continues == own /\ link.continues
               active == link.active \/ continues
    <3>1. continues \in BOOLEAN /\ active \in BOOLEAN
      OBVIOUS
    <3>2. timers' = IF continues THEN timers + 1 ELSE timers
      BY <2>2 DEF Settles
    <3>3. link' = IF own THEN [link EXCEPT !.continues = FALSE,
                                           !.active = active]
                  ELSE link
      BY <2>2 DEF Settles
    <3> HIDE DEF own, continues, active
    <3>4. timers' \in Nat
      BY <3>2
    <3>5. link' \in Link
      BY <3>1, <3>3
    <3> QED BY <3>4, <3>5
  <2>3. CASE _play_timer_finished(c) \/ MediaFinished(c)
    BY <2>3 DEF _play_timer_finished, MediaFinished, voiceVars
  <2>4. CASE Detach(c) /\ UNCHANGED voiceVars
    BY <2>4 DEF voiceVars
  <2> QED BY <2>1, <2>2, <2>3, <2>4 DEF Callbacks
<1>10. CASE _start_continued_conversation \/ HandlerResumes
  <2>1. CASE _start_continued_conversation
    <3>1. timers' \in Nat
      BY <2>1 DEF _start_continued_conversation
    <3>2. link' \in Link
      BY <2>1 DEF _start_continued_conversation
    <3> QED BY <3>1, <3>2
  <2>2. CASE HandlerResumes
    BY <2>2 DEF HandlerResumes
  <2> QED BY <1>10, <2>1, <2>2
<1>11. CASE Authenticated
  <2>1. /\ link.number < MaxConnections
        /\ link' = Fresh(link.number + 1) /\ timers' = timers
    BY <1>11 DEF Authenticated
  <2>2. link.number + 1 \in 0..MaxConnections
    BY <2>1, VoiceAssumption
  <2> QED BY <2>1, <2>2, FreshIsLink
<1>12. CASE connection_lost
  BY <1>12, FreshIsLink DEF connection_lost
<1>13. CASE Deliver \/ ErrorShown
  BY <1>13 DEF Deliver, ErrorShown
<1>14. CASE UNCHANGED vars
  BY <1>14 DEF vars, voiceVars
<1> QED
  BY <1>1, <1>2, <1>3, <1>4, <1>5, <1>6, <1>7, <1>8, <1>9, <1>10, <1>11,
     <1>12, <1>13, <1>14 DEF Next

\* What other threads told the loop, and what the machine shows.
LEMMA MachineStep ==
  ASSUME MachineInv, PlaybackInv, VoiceTyped, [Next]_vars
  PROVE  MachineInv'
<1>0. /\ machine \in Machines /\ soon \in Seq(Handed) /\ muted \in BOOLEAN
      /\ muted <=> Shown(machine)
      /\ link \in Link /\ link.number \in 0..MaxConnections
  BY DEF MachineInv, VoiceTyped, Link
<1>1. ASSUME UNCHANGED <<machine, soon, muted>> PROVE MachineInv'
  BY <1>0, <1>1 DEF MachineInv, Shown
<1>2. \A e \in Signals : Emits(e) /\ UNCHANGED <<soon, muted>> => MachineInv'
  BY <1>0, EmitsStep DEF MachineInv
<1>3. ASSUME NEW c \in Contexts, NEW k \in 0..MaxConnections,
             NEW asks \in BOOLEAN, NEW e \in Signals,
             Tells(c, k, asks, e), UNCHANGED muted
      PROVE  MachineInv'
  BY <1>0, <1>3, TellsStep DEF MachineInv
<1>4. ASSUME NEW new \in BOOLEAN, _set_muted(new) PROVE MachineInv'
  <2> DEFINE e == IF new THEN "muted" ELSE "unmuted"
  <2>1. /\ muted' = new /\ soon' = soon
        /\ machine' = PipelineMachine!handle(machine, e)
    BY <1>4 DEF _set_muted, Emits
  <2>2. e \in DOMAIN PipelineMachine!Events
    BY DEF PipelineMachine!Events
  <2>3. machine' \in Machines /\ (new => Shown(machine'))
        /\ (~new => ~Shown(machine'))
    BY <1>0, <2>1, <2>2, Handling
  <2> QED BY <1>0, <2>1, <2>3 DEF MachineInv, Shown
<1>5. CASE wakeup \/ Announce \/ TIMER_FINISHED \/ TIMER_CANCELLED
  BY <1>2, <1>5, SignalsAre
  DEF wakeup, Announce, TIMER_FINISHED, TIMER_CANCELLED
<1>6. CASE INTENT_START \/ play_tts \/ ERROR
  BY <1>2, <1>6, SignalsAre DEF INTENT_START, play_tts, ERROR, Phase
<1>7. CASE stop_ \/ RUN_START \/ STT_END \/ INTENT_END
  BY <1>1, <1>7 DEF stop_, RUN_START, STT_END, INTENT_END, Phase
<1>8. CASE RUN_END
  BY <1>1, <1>2, <1>8, SignalsAre DEF RUN_END, Phase
<1>9. CASE MediaCommand \/ MediaAnnouncement \/ Shutdown \/ connection_lost
  BY <1>1, <1>9
  DEF MediaCommand, MediaAnnouncement, Shutdown, connection_lost, voiceVars
<1>10. CASE \E p \in Players : PlayerSteps(p) /\ UNCHANGED voiceVars
  BY <1>1, <1>10 DEF voiceVars
<1>11. CASE \E c \in Contexts : Callbacks(c)
  <2> PICK c \in Contexts : Callbacks(c)
    BY <1>11
  <2>1. CASE _on_wakeup_sound_finished(c)
    <3>1. /\ Calling(c, "wake") /\ UNCHANGED muted
          /\ Tells(c, done[Head(stack[c])[2]].by, TRUE, "listening")
      BY <2>1 DEF _on_wakeup_sound_finished
    <3>2. done[Head(stack[c])[2]].by \in 0..MaxConnections
      BY <3>1, CallingStep, CallbackOf
    <3> QED BY <3>1, <3>2, <1>3, SignalsAre
  <2>2. CASE _tts_finished(c)
    <3>1. /\ Calling(c, "tts") /\ UNCHANGED muted
          /\ Tells(c, done[Head(stack[c])[2]].by, FALSE, "response_finished")
      BY <2>2 DEF _tts_finished
    <3>2. done[Head(stack[c])[2]].by \in 0..MaxConnections
      BY <3>1, CallingStep, CallbackOf
    <3> QED BY <3>1, <3>2, <1>3, SignalsAre
  <2>3. CASE Settles(c)
    <3> DEFINE own == Connected /\ Head(stack[c])[2] = link.number
               e == IF own /\ link.continues THEN "listening" ELSE "idle"
    <3>1. Tells(c, 0, FALSE, e) /\ UNCHANGED muted
      BY <2>3 DEF Settles
    <3>2. e \in Signals
      BY SignalsAre
    <3> HIDE DEF e
    <3>3. Tells(c, 1, FALSE, e)
      BY <3>1 DEF Tells
    <3>4. 1 \in 0..MaxConnections
      BY VoiceAssumption
    <3> QED BY <3>1, <3>2, <3>3, <3>4, <1>3
  <2>4. CASE _play_timer_finished(c) \/ MediaFinished(c)
    BY <1>1, <2>4 DEF _play_timer_finished, MediaFinished, voiceVars
  <2>5. CASE Detach(c) /\ UNCHANGED voiceVars
    BY <1>1, <2>5 DEF voiceVars
  <2> QED BY <2>1, <2>2, <2>3, <2>4, <2>5 DEF Callbacks
<1>12. CASE _start_continued_conversation
  <2>1. UNCHANGED <<machine, muted>>
    BY <1>12 DEF _start_continued_conversation
  <2> DEFINE f == <<"request", link.number>>
  <2>2. f \in Handed
    BY <1>0 DEF Handed
  <2>3. soon' = soon \/ soon' = Append(soon, f)
    BY <1>12 DEF _start_continued_conversation
  <2> HIDE DEF f
  <2>4. soon' \in Seq(Handed)
    BY <2>2, <2>3, <1>0
  <2> QED BY <1>0, <2>1, <2>4 DEF MachineInv, Shown
<1>13. CASE HandlerResumes
  <2>0. UNCHANGED <<soon, muted>>
    BY <1>13 DEF HandlerResumes
  <2>1. CASE Next_(0, "emit") /\ Emits(Head(stack[0])[2])
    <3>1. Head(stack[0]) \in Frames /\ Head(stack[0])[1] = "emit"
      BY <2>1, OutputsExist, LeavesTail DEF Next_
    <3>2. Head(stack[0])[2] \in Signals
      BY <3>1, SignalsAre DEF Frames
    <3> QED BY <2>0, <2>1, <3>2, <1>2
  <2>2. CASE UNCHANGED machine
    BY <2>0, <2>2, <1>1
  <2> QED BY <1>13, <2>1, <2>2 DEF HandlerResumes, Resumes
<1>14. CASE Authenticated
  BY <1>1, <1>14 DEF Authenticated
<1>15. CASE Deliver
  <2> DEFINE what == Head(soon)[1]
             of == Head(soon)[2]
  <2>1. /\ soon # << >> /\ soon' = Tail(soon) /\ UNCHANGED muted
    BY <1>15 DEF Deliver
  <2>2. Head(soon) \in Handed /\ soon' \in Seq(Handed)
    BY <2>1, <1>0, HeadTailProperties
  <2>3. CASE what = "event" /\ Emits(of)
    <3>1. of \in Signals
      BY <2>2, <2>3 DEF Handed
    <3>2. machine' \in Machines /\ (Shown(machine)' <=> Shown(machine))
      BY <3>1, <2>3, <1>0, EmitsStep
    <3> QED BY <3>2, <2>1, <2>2, <1>0 DEF MachineInv
  <2>4. CASE UNCHANGED machine
    BY <2>1, <2>2, <2>4, <1>0 DEF MachineInv, Shown
  <2> QED BY <1>15, <2>3, <2>4 DEF Deliver
<1>16. CASE ErrorShown
  <2>1. /\ machine.state = "error" /\ UNCHANGED <<soon, muted>>
        /\ machine' = [machine EXCEPT !.state = "idle"]
    BY <1>16 DEF ErrorShown, PipelineMachine!tick
  <2>2. machine' \in Machines
    BY <1>0, <2>1 DEF Machines, PipelineMachine!States
  <2>3. machine'.underneath = machine.underneath /\ machine'.state = "idle"
    BY <1>0, <2>1 DEF Machines
  <2> QED BY <1>0, <2>1, <2>2, <2>3 DEF MachineInv, Shown
<1>17. CASE UNCHANGED vars
  BY <1>1, <1>17 DEF vars, voiceVars
<1> QED
  BY <1>4, <1>5, <1>6, <1>7, <1>8, <1>9, <1>10, <1>11, <1>12, <1>13, <1>14,
     <1>15, <1>16, <1>17 DEF Next

-----------------------------------------------------------------------------
(* What frees the pipeline.                                                *)

\* Something that is to come and frees the pipeline is there after a step,
\* if the step called no wake sound's or answer's callback of the
\* connection, and kept the delays, the requests and what was asked.
LEMMA PendingKeeps ==
  ASSUME link.number' = link.number,
         plays' \in {plays, plays + 1}, plays \in Nat,
         \A n \in 1..plays : done'[n] = done[n],
         \A n \in 1..plays :
           done[n].kind \in {"wake", "tts"} /\ done[n].by = link.number
             => calls'[n] = calls[n],
         timers > 0 => timers' > 0,
         \A i \in DOMAIN soon :
           soon[i] = <<"request", link.number>> =>
             \E j \in DOMAIN soon' : soon'[j] = <<"request", link.number>>,
         run.asked => run.asked'
  PROVE  Pending => Pending'
<1>1. 1..plays \subseteq 1..plays'
  OBVIOUS
<1>2. ASSUME NEW n \in 1..plays, done[n].kind \in {"wake", "tts"},
             done[n].by = link.number, calls[n] = 0
      PROVE  \E m \in 1..plays' : /\ done'[m].kind \in {"wake", "tts"}
                                  /\ done'[m].by = link.number
                                  /\ calls'[m] = 0
  BY <1>1, <1>2
<1> QED BY <1>2 DEF Pending

\* An added callback leaves the others as they are.
LEMMA AddsKeeps ==
  ASSUME DoneTyped, plays \in Nat,
         \/ UNCHANGED <<plays, done>>
         \/ \E kind \in Kinds : Adds(kind)
  PROVE  /\ plays' \in {plays, plays + 1}
         /\ \A n \in 1..plays : done'[n] = done[n]
<1>1. CASE UNCHANGED <<plays, done>>
  BY <1>1
<1>2. ASSUME NEW kind \in Kinds, Adds(kind)
      PROVE  /\ plays' \in {plays, plays + 1}
             /\ \A n \in 1..plays : done'[n] = done[n]
  <2> DEFINE f == [kind |-> kind, by |-> link.number]
  <2>1. done' = Append(done, f) /\ plays' = plays + 1
    BY <1>2 DEF Adds
  <2> HIDE DEF f
  <2>2. \A n \in 1..Len(done) : Append(done, f)[n] = done[n]
    BY DEF DoneTyped
  <2> QED BY <2>1, <2>2 DEF DoneTyped
<1> QED BY <1>1, <1>2

\* A step that takes the pipeline no further, calls nothing, and neither
\* ends a run nor plays its answer.
LEMMA OwedKeeps ==
  ASSUME TakenIsOwed, DoneTyped, plays \in Nat,
         UNCHANGED <<timers, soon, calls>>,
         \/ UNCHANGED <<plays, done>>
         \/ \E kind \in Kinds : Adds(kind),
         link.number' = link.number,
         link.authenticated' = link.authenticated,
         link.active' => link.active,
         link.played' => link.played,
         run.asked => run.asked',
         run.phase # "none" => run.phase' # "none"
  PROVE  TakenIsOwed'
<1>1. Pending => Pending'
  BY AddsKeeps, PendingKeeps
<1> QED BY <1>1 DEF TakenIsOwed, Connected

\* A play whose callback frees the pipeline is something to come.
LEMMA PlayPends ==
  ASSUME PlaybackInv, DoneTyped, link \in Link,
         NEW kind \in {"wake", "tts"}, Adds(kind), UNCHANGED calls,
         link.number' = link.number
  PROVE  Pending'
<1> DEFINE f == [kind |-> kind, by |-> link.number]
           n == plays + 1
<1>1. /\ plays \in Nat /\ n \in 1..MaxPlays /\ n \in 1..plays'
      /\ plays' = n /\ done' = Append(done, f)
  BY PlaybackAssumption DEF Adds, PlaybackInv, PlaybackTyped
<1>2. done'[n] = f
  <2> HIDE DEF f
  <2>1. Append(done, f)[Len(done) + 1] = f
    BY DEF DoneTyped
  <2> QED BY <2>1, <1>1 DEF DoneTyped
<1>3. calls'[n] = 0
  BY <1>1 DEF PlaybackInv, Tokens, Conserved
<1>4. done'[n].kind \in {"wake", "tts"} /\ done'[n].by = link.number'
  BY <1>2
<1> QED BY <1>1, <1>3, <1>4 DEF Pending

\* Home Assistant's runs.
Runs == [phase : {"none", "started", "heard", "thinking"}, asked : BOOLEAN]

\* What a context tells the loop is added to what others told it; a request
\* for a run is asked for at once or is among it.
LEMMA TellsKeeps ==
  ASSUME soon \in Seq(Handed), run \in Runs,
         NEW c \in Contexts, NEW k \in 0..MaxConnections,
         NEW asks \in BOOLEAN, NEW e \in Signals, Tells(c, k, asks, e)
  PROVE  /\ \A i \in DOMAIN soon : i \in DOMAIN soon' /\ soon'[i] = soon[i]
         /\ run.asked => run.asked'
         /\ run.phase' = run.phase
         /\ asks /\ k = link.number /\ Connected =>
              \/ run.asked'
              \/ \E i \in DOMAIN soon' : soon'[i] = <<"request", k>>
<1>1. CASE c = 0
  BY <1>1 DEF Tells, Runs
<1>2. CASE c # 0
  <2> DEFINE r == IF asks THEN << <<"request", k>> >> ELSE << >>
             f == << <<"event", e>> >>
             t == soon \o r
  <2>1. soon' = t \o f /\ run' = run
    BY <1>2 DEF Tells
  <2>2. <<"request", k>> \in Handed /\ <<"event", e>> \in Handed
    BY DEF Handed
  <2>3. /\ << <<"request", k>> >> \in Seq(Handed) /\ << >> \in Seq(Handed)
        /\ f \in Seq(Handed)
    BY <2>2
  <2>4. r \in Seq(Handed) /\ (asks => Len(r) = 1 /\ r[1] = <<"request", k>>)
    BY <2>3
  <2> HIDE DEF r, f
  <2>5. t \in Seq(Handed)
    BY <2>4, ConcatProperties
  <2>6. /\ Len(t) = Len(soon) + Len(r)
        /\ \A i \in 1..(Len(soon) + Len(r)) :
             t[i] = IF i <= Len(soon) THEN soon[i] ELSE r[i - Len(soon)]
    BY <2>4, ConcatProperties
  <2> HIDE DEF t
  <2>7. /\ t \o f \in Seq(Handed) /\ Len(t \o f) = Len(t) + Len(f)
        /\ \A i \in 1..(Len(t) + Len(f)) :
             (t \o f)[i] = IF i <= Len(t) THEN t[i] ELSE f[i - Len(t)]
    BY <2>3, <2>5, ConcatProperties
  <2>8. /\ Len(soon) \in Nat /\ Len(r) \in Nat /\ Len(f) \in Nat
        /\ DOMAIN soon = 1..Len(soon)
        /\ DOMAIN soon' = 1..(Len(soon) + Len(r) + Len(f))
    BY <2>1, <2>3, <2>4, <2>6, <2>7, <2>5, LenProperties
  <2>9. \A i \in 1..Len(soon) : i \in DOMAIN soon' /\ soon'[i] = soon[i]
    BY <2>1, <2>6, <2>7, <2>8
  <2>10. ASSUME asks
         PROVE  /\ Len(soon) + 1 \in DOMAIN soon'
                /\ soon'[Len(soon) + 1] = <<"request", k>>
    <3>1. Len(r) = 1 /\ r[(Len(soon) + 1) - Len(soon)] = <<"request", k>>
      BY <2>4, <2>8, <2>10
    <3>2. t[Len(soon) + 1] = <<"request", k>>
      BY <3>1, <2>6, <2>8
    <3> QED BY <3>1, <3>2, <2>1, <2>6, <2>7, <2>8
  <2> QED BY <2>1, <2>8, <2>9, <2>10
<1> QED BY <1>1, <1>2

\* Home Assistant's run keeps its type.
LEMMA RunStep ==
  ASSUME run \in Runs, [Next]_vars
  PROVE  run' \in Runs
<1> USE DEF Runs
<1>0. UNCHANGED run => run' \in Runs
  OBVIOUS
<1>1. CASE \/ wakeup \/ stop_ \/ \E new \in BOOLEAN : _set_muted(new)
           \/ Announce \/ TIMER_FINISHED \/ TIMER_CANCELLED
  BY <1>0, <1>1
  DEF wakeup, stop_, _set_muted, Announce, TIMER_FINISHED, TIMER_CANCELLED
<1>2. CASE \/ RUN_START \/ STT_END \/ INTENT_START \/ INTENT_END \/ play_tts
           \/ RUN_END \/ ERROR
  <2>1. \A phases : \A next \in {"none", "started", "heard", "thinking"} :
          Phase(phases, next) => run' \in Runs
    BY DEF Phase
  <2>2. CASE ERROR
    <3> PICK phase \in {"started", "heard", "thinking"} : Phase({phase}, phase)
      BY <2>2 DEF ERROR
    <3> QED BY <2>1
  <2>3. CASE RUN_START
    BY <2>3 DEF RUN_START
  <2>4. CASE STT_END \/ INTENT_START \/ INTENT_END \/ play_tts \/ RUN_END
    BY <2>1, <2>4 DEF STT_END, INTENT_START, INTENT_END, play_tts, RUN_END
  <2> QED BY <1>2, <2>2, <2>3, <2>4
<1>3. CASE MediaCommand \/ MediaAnnouncement \/ Shutdown
  BY <1>0, <1>3 DEF MediaCommand, MediaAnnouncement, Shutdown, voiceVars
<1>4. CASE \E p \in Players : PlayerSteps(p) /\ UNCHANGED voiceVars
  BY <1>0, <1>4 DEF voiceVars
<1>5. CASE \E c \in Contexts : Callbacks(c)
  <2> PICK c \in Contexts : Callbacks(c)
    BY <1>5
  <2>1. \A k, asks, e : Tells(c, k, asks, e) => run' \in Runs
    BY DEF Tells
  <2>2. CASE _on_wakeup_sound_finished(c) \/ _tts_finished(c) \/ Settles(c)
    BY <2>1, <2>2 DEF _on_wakeup_sound_finished, _tts_finished, Settles
  <2>3. CASE \/ _play_timer_finished(c) \/ MediaFinished(c)
             \/ Detach(c) /\ UNCHANGED voiceVars
    BY <1>0, <2>3 DEF _play_timer_finished, MediaFinished, voiceVars
  <2> QED BY <2>2, <2>3 DEF Callbacks
<1>6. CASE \/ _start_continued_conversation \/ HandlerResumes
           \/ Authenticated \/ ErrorShown
  BY <1>0, <1>6
  DEF _start_continued_conversation, HandlerResumes, Authenticated,
      ErrorShown
<1>7. CASE connection_lost
  BY <1>7 DEF connection_lost, NoRun
<1>8. CASE Deliver
  BY <1>8 DEF Deliver
<1>9. CASE UNCHANGED vars
  BY <1>0, <1>9 DEF vars, voiceVars
<1> QED
  BY <1>1, <1>2, <1>3, <1>4, <1>5, <1>6, <1>7, <1>8, <1>9 DEF Next

\* A callback of kind that frees nothing leaves what frees to come.
LEMMA CallingKeeps ==
  ASSUME PlaybackInv, VoiceTyped, NEW c \in Contexts, NEW kind,
         Calling(c, kind),
         \/ kind \notin {"wake", "tts"}
         \/ done[Head(stack[c])[2]].by # link.number
  PROVE  \A n \in 1..plays :
           done[n].kind \in {"wake", "tts"} /\ done[n].by = link.number
             => calls'[n] = calls[n]
<1> DEFINE m == Head(stack[c])[2]
<1>1. /\ done[m].kind = kind /\ calls' = [calls EXCEPT ![m] = @ + 1]
      /\ calls \in [1..MaxPlays -> Nat]
  BY DEF Calling, PlaybackInv, PlaybackTyped
<1> HIDE DEF m
<1>2. \A n \in 1..MaxPlays : n # m => calls'[n] = calls[n]
  BY <1>1
<1>3. 1..plays \subseteq 1..MaxPlays
  BY PlaybackAssumption DEF PlaybackInv, PlaybackTyped
<1> QED BY <1>1, <1>2, <1>3 DEF m

\* The handlers and what they leave on the loop's stack.
LEMMA HandlersOwe ==
  ASSUME PlaybackInv, VoiceTyped, run \in Runs, TakenIsOwed,
         \/ wakeup \/ stop_ \/ \E new \in BOOLEAN : _set_muted(new)
         \/ RUN_START \/ STT_END \/ INTENT_START \/ INTENT_END \/ play_tts
         \/ RUN_END \/ ERROR
         \/ Announce \/ TIMER_FINISHED \/ TIMER_CANCELLED
         \/ MediaCommand \/ MediaAnnouncement \/ Shutdown
         \/ HandlerResumes \/ ErrorShown
  PROVE  TakenIsOwed'
<1>0. DoneTyped /\ plays \in Nat /\ link \in Link
  BY PlaybackAssumption DEF VoiceTyped, DoneTyped, PlaybackInv, PlaybackTyped
<1>1. ASSUME UNCHANGED <<timers, soon, calls, run>>,
             \/ UNCHANGED <<plays, done>>
             \/ \E kind \in Kinds : Adds(kind),
             link.number' = link.number,
             link.authenticated' = link.authenticated,
             link.active' => link.active,
             link.played' = link.played
      PROVE  TakenIsOwed'
  BY <1>0, <1>1, OwedKeeps
<1>2. {"wake", "tts", "timer", "resume", "idle"} \subseteq Kinds
  BY DEF Kinds
<1>3. ASSUME NEW kind \in {"wake", "tts"}, Adds(kind), UNCHANGED calls,
             Connected, link.number' = link.number,
             link.authenticated' = link.authenticated
      PROVE  TakenIsOwed'
  BY <1>0, <1>3, PlayPends DEF TakenIsOwed, Connected
<1>4. CASE wakeup
  BY <1>0, <1>3, <1>4 DEF wakeup, Plays, Handles, Link
<1>5. CASE stop_
  BY <1>0, <1>1, <1>5 DEF stop_, Stops, Link
<1>6. CASE \E new \in BOOLEAN : _set_muted(new)
  BY <1>1, <1>6 DEF _set_muted, Stops, PlaysSound
<1>7. CASE RUN_START
  BY <1>0, <1>7 DEF RUN_START, Handles, Connected, TakenIsOwed, Link
<1>8. CASE STT_END \/ INTENT_START \/ INTENT_END \/ ERROR
  <2>1. /\ UNCHANGED <<timers, soon, calls, plays, done>>
        /\ run.phase' # "none" /\ run.asked' = run.asked
    BY <1>8
    DEF STT_END, INTENT_START, INTENT_END, ERROR, Phase, Silent, PlaysSound,
        playbackVars, Runs
  <2>2. /\ link.number' = link.number
        /\ link.authenticated' = link.authenticated
        /\ link.active' = link.active /\ link.played' = link.played
    BY <1>0, <1>8 DEF STT_END, INTENT_START, INTENT_END, ERROR, Link
  <2> QED BY <1>0, <2>1, <2>2, OwedKeeps
<1>9. CASE play_tts
  BY <1>0, <1>3, <1>9 DEF play_tts, Plays, Phase, Handles, Link
<1>10. CASE RUN_END
  <2>1. CASE link.played
    <3>1. /\ UNCHANGED <<timers, soon, calls, plays, done>>
          /\ link' = [link EXCEPT !.played = FALSE]
          /\ run.asked' = run.asked
      BY <1>10, <2>1 DEF RUN_END, Phase, Silent, playbackVars, Runs
    <3>2. /\ link.number' = link.number
          /\ link.authenticated' = link.authenticated
          /\ link.active' = link.active
      BY <1>0, <3>1 DEF Link
    <3>3. Pending => Pending'
      BY <1>0, <3>1, <3>2, AddsKeeps, PendingKeeps
    <3> QED BY <2>1, <3>2, <3>3 DEF TakenIsOwed, Connected
  <2>2. CASE ~link.played
    <3>1. ~link.active'
      BY <1>0, <1>10, <2>2 DEF RUN_END, Unwinds, Link
    <3> QED BY <3>1 DEF TakenIsOwed
  <2> QED BY <2>1, <2>2
<1>11. CASE Announce \/ TIMER_FINISHED
  BY <1>0, <1>1, <1>2, <1>11 DEF Announce, TIMER_FINISHED, Plays, Link
<1>12. CASE TIMER_CANCELLED \/ ErrorShown
  BY <1>1, <1>12 DEF TIMER_CANCELLED, ErrorShown, Silent, playbackVars
<1>13. CASE MediaCommand \/ MediaAnnouncement
  BY <1>1, <1>2, <1>13 DEF MediaCommand, MediaAnnouncement, Plays, Stops
<1>14. CASE Shutdown
  BY <1>1, <1>14 DEF Shutdown, voiceVars
<1>15. CASE HandlerResumes
  BY <1>1, <1>15 DEF HandlerResumes, Resumes, PlaysSound, Stops
<1> QED
  BY <1>4, <1>5, <1>6, <1>7, <1>8, <1>9, <1>10, <1>11, <1>12, <1>13, <1>14,
     <1>15

\* The callbacks: a wake sound's asks for a run, an answer's frees.
LEMMA CallbacksOwe ==
  ASSUME PlaybackInv, VoiceTyped, run \in Runs, TakenIsOwed,
         NEW c \in Contexts, Callbacks(c)
  PROVE  TakenIsOwed'
<1>0. /\ DoneTyped /\ plays \in Nat /\ link \in Link /\ timers \in Nat
      /\ soon \in Seq(Handed)
  BY PlaybackAssumption
  DEF VoiceTyped, DoneTyped, PlaybackInv, PlaybackTyped
<1> DEFINE n == Head(stack[c])[2]
           k == done[n].by
           Kept == \A m \in 1..plays :
                     done[m].kind \in {"wake", "tts"}
                       /\ done[m].by = link.number => calls'[m] = calls[m]
<1>1. CASE _on_wakeup_sound_finished(c)
  <2>1. /\ Calling(c, "wake") /\ Tells(c, k, TRUE, "listening")
        /\ UNCHANGED <<plays, done, link, timers>>
    BY <1>1 DEF _on_wakeup_sound_finished
  <2>2. k \in 0..MaxConnections
    BY <2>1, CallingStep, CallbackOf
  <2>3. /\ \A i \in DOMAIN soon : i \in DOMAIN soon' /\ soon'[i] = soon[i]
        /\ run.asked => run.asked'
        /\ run.phase' = run.phase
        /\ k = link.number /\ Connected =>
             \/ run.asked'
             \/ \E i \in DOMAIN soon' : soon'[i] = <<"request", k>>
    BY <1>0, <2>1, <2>2, SignalsAre, TellsKeeps
  <2>4. CASE k = link.number
    BY <2>1, <2>3, <2>4 DEF TakenIsOwed, Pending, Connected
  <2>5. CASE k # link.number
    <3>1. Kept
      BY <2>1, <2>5, CallingKeeps
    <3>2. Pending => Pending'
      BY <1>0, <2>1, <2>3, <3>1, PendingKeeps
    <3> QED BY <2>1, <2>3, <3>2 DEF TakenIsOwed, Connected
  <2> QED BY <2>4, <2>5
<1>2. CASE _tts_finished(c)
  <2>1. /\ Calling(c, "tts") /\ Tells(c, k, FALSE, "response_finished")
        /\ UNCHANGED <<plays, done, timers>>
        /\ link' = IF Own(n) THEN Unwinds ELSE link
    BY <1>2 DEF _tts_finished
  <2>2. k \in 0..MaxConnections
    BY <2>1, CallingStep, CallbackOf
  <2>3. /\ \A i \in DOMAIN soon : i \in DOMAIN soon' /\ soon'[i] = soon[i]
        /\ run.asked => run.asked'
        /\ run.phase' = run.phase
    BY <1>0, <2>1, <2>2, SignalsAre, TellsKeeps
  <2>4. CASE Own(n)
    <3>1. ~link.active'
      BY <1>0, <2>1, <2>4 DEF Unwinds, Link
    <3> QED BY <3>1 DEF TakenIsOwed
  <2>5. CASE ~Own(n) /\ link.active
    <3>1. k # link.number
      BY <2>5 DEF Own, TakenIsOwed
    <3>2. Kept
      BY <2>1, <3>1, CallingKeeps
    <3>3. Pending => Pending'
      BY <1>0, <2>1, <2>3, <2>5, <3>2, PendingKeeps
    <3> QED BY <2>1, <2>3, <2>5, <3>3 DEF TakenIsOwed, Connected
  <2>6. CASE ~Own(n) /\ ~link.active
    BY <2>1, <2>6 DEF TakenIsOwed
  <2> QED BY <2>4, <2>5, <2>6
<1>3. CASE Settles(c)
  <2> DEFINE own == Connected /\ n = link.number
             continues == own /\ link.continues
             e == IF continues THEN "listening" ELSE "idle"
             active == link.active \/ continues
  <2>1. /\ Tells(c, 0, FALSE, e) /\ UNCHANGED <<plays, done, calls>>
        /\ timers' = IF continues THEN timers + 1 ELSE timers
        /\ link' = IF own THEN [link EXCEPT !.continues = FALSE,
                                            !.active = active]
                   ELSE link
    BY <1>3 DEF Settles
  <2>2. e \in Signals /\ 0 \in 0..MaxConnections /\ continues \in BOOLEAN
    BY SignalsAre, VoiceAssumption
  <2>3. continues => Connected
    OBVIOUS
  <2>4. active <=> link.active \/ continues
    OBVIOUS
  <2> HIDE DEF own, continues, e, active
  <2>5. /\ \A i \in DOMAIN soon : i \in DOMAIN soon' /\ soon'[i] = soon[i]
        /\ run.asked => run.asked'
        /\ run.phase' = run.phase
    BY <1>0, <2>1, <2>2, TellsKeeps
  <2>6. /\ link.number' = link.number /\ link.played' = link.played
        /\ link.authenticated' = link.authenticated
        /\ link.active' => link.active \/ continues
    BY <1>0, <2>1, <2>4 DEF Link
  <2>7. CASE continues
    <3>1. timers' > 0
      BY <1>0, <2>1, <2>7
    <3> QED BY <2>3, <2>6, <2>7, <3>1 DEF TakenIsOwed, Pending, Connected
  <2>8. CASE ~continues
    <3>1. Pending => Pending'
      BY <1>0, <2>1, <2>5, <2>6, <2>8, PendingKeeps
    <3> QED BY <2>5, <2>6, <2>8, <3>1 DEF TakenIsOwed, Connected
  <2> QED BY <2>7, <2>8
<1>4. CASE _play_timer_finished(c) \/ MediaFinished(c)
  <2>1. \E kind \in {"timer", "resume", "idle"} : Calling(c, kind)
    BY <1>4 DEF _play_timer_finished, MediaFinished
  <2>2. Kept
    BY <2>1, CallingKeeps
  <2>3. /\ UNCHANGED <<timers, soon, run>>
        /\ \/ UNCHANGED <<plays, done>>
           \/ \E kind \in Kinds : Adds(kind)
    BY <1>4 DEF _play_timer_finished, MediaFinished, voiceVars, Kinds
  <2>4. /\ link.number' = link.number /\ link.played' = link.played
        /\ link.authenticated' = link.authenticated
        /\ link.active' = link.active
    BY <1>0, <1>4 DEF _play_timer_finished, MediaFinished, voiceVars, Link
  <2>5. Pending => Pending'
    BY <1>0, <2>2, <2>3, <2>4, AddsKeeps, PendingKeeps
  <2> QED BY <2>3, <2>4, <2>5 DEF TakenIsOwed, Connected
<1>5. CASE Detach(c) /\ UNCHANGED voiceVars
  BY <1>0, <1>5, OwedKeeps DEF Detach, voiceVars
<1> QED BY <1>1, <1>2, <1>3, <1>4, <1>5 DEF Callbacks

\* What frees the pipeline is to come after every step.
LEMMA OwedStep ==
  ASSUME PlaybackInv, VoiceTyped, run \in Runs, TakenIsOwed, [Next]_vars
  PROVE  TakenIsOwed'
<1>0. /\ DoneTyped /\ plays \in Nat /\ link \in Link /\ timers \in Nat
      /\ soon \in Seq(Handed)
  BY PlaybackAssumption DEF VoiceTyped, DoneTyped, PlaybackInv, PlaybackTyped
<1>1. CASE \/ wakeup \/ stop_ \/ \E new \in BOOLEAN : _set_muted(new)
           \/ RUN_START \/ STT_END \/ INTENT_START \/ INTENT_END \/ play_tts
           \/ RUN_END \/ ERROR
           \/ Announce \/ TIMER_FINISHED \/ TIMER_CANCELLED
           \/ MediaCommand \/ MediaAnnouncement \/ Shutdown
           \/ HandlerResumes \/ ErrorShown
  BY <1>1, HandlersOwe
<1>2. CASE \E p \in Players : PlayerSteps(p) /\ UNCHANGED voiceVars
  <2>1. UNCHANGED <<plays, calls>>
    BY <1>2
    DEF PlayerSteps, _resolve_and_begin, Skips, _begin, _finished, Becomes,
        Hands
  <2> QED BY <1>0, <1>2, <2>1, OwedKeeps DEF voiceVars
<1>3. CASE \E c \in Contexts : Callbacks(c)
  BY <1>3, CallbacksOwe
<1>4. CASE _start_continued_conversation
  <2>1. CASE muted
    BY <1>0, <1>4, <2>1 DEF _start_continued_conversation, TakenIsOwed, Link
  <2>2. CASE ~muted
    <3> DEFINE f == <<"request", link.number>>
    <3>1. soon' = Append(soon, f) /\ UNCHANGED link
      BY <1>4, <2>2 DEF _start_continued_conversation
    <3>2. f \in Handed
      BY <1>0 DEF Handed, Link
    <3> HIDE DEF f
    <3>3. /\ Len(soon) + 1 \in DOMAIN soon'
          /\ soon'[Len(soon) + 1] = f
      BY <1>0, <3>1, <3>2, AppendProperties, LenProperties
    <3>4. Pending'
      BY <3>1, <3>3 DEF Pending, f
    <3> QED BY <3>1, <3>4 DEF TakenIsOwed, Connected
  <2> QED BY <2>1, <2>2
<1>5. CASE Authenticated \/ connection_lost
  BY <1>5 DEF Authenticated, connection_lost, Fresh, TakenIsOwed
<1>6. CASE Deliver
  <2> DEFINE h == Head(soon)
  <2>1. /\ soon # << >> /\ soon' = Tail(soon)
        /\ UNCHANGED <<plays, done, calls, link, timers>>
        /\ \/ h[1] = "event" /\ UNCHANGED run
           \/ /\ h[1] = "request"
              /\ run' = IF Connected /\ h[2] = link.number
                        THEN [run EXCEPT !.asked = TRUE] ELSE run
    BY <1>6 DEF Deliver, Silent, playbackVars
  <2>2. run.asked => run.asked'
    BY <2>1 DEF Runs
  <2>3. run.phase' = run.phase
    BY <2>1 DEF Runs
  <2>4. CASE h = <<"request", link.number>> /\ link.active
    <3>1. Connected /\ run.asked'
      BY <2>1, <2>4 DEF TakenIsOwed, Runs
    <3> QED BY <2>1, <3>1 DEF TakenIsOwed, Pending, Connected
  <2>5. CASE h # <<"request", link.number>>
    <3>1. /\ h = soon[1] /\ Len(soon) \in Nat
          /\ DOMAIN soon = 1..Len(soon)
          /\ DOMAIN soon' = 1..(Len(soon) - 1)
          /\ \A i \in 1..(Len(soon) - 1) : soon'[i] = soon[i + 1]
      BY <1>0, <2>1, HeadTailProperties, LenProperties
    <3> HIDE DEF h
    <3>2. ASSUME NEW i \in DOMAIN soon, soon[i] = <<"request", link.number>>
          PROVE  \E j \in DOMAIN soon' : soon'[j] = <<"request", link.number>>
      <4>1. i # 1
        BY <2>5, <3>1, <3>2
      <4>2. i - 1 \in 1..(Len(soon) - 1) /\ (i - 1) + 1 = i
        BY <3>1, <4>1
      <4>3. soon'[i - 1] = soon[i]
        BY <3>1, <4>2
      <4> QED BY <3>1, <3>2, <4>2, <4>3
    <3>3. Pending => Pending'
      BY <1>0, <2>1, <2>2, <3>2, PendingKeeps
    <3> QED BY <2>1, <2>3, <3>3 DEF TakenIsOwed, Connected
  <2>6. CASE ~link.active
    BY <2>1, <2>6 DEF TakenIsOwed
  <2> QED BY <2>4, <2>5, <2>6
<1>7. CASE UNCHANGED vars
  BY <1>0, <1>7, OwedKeeps DEF vars, voiceVars, playbackVars
<1> QED BY <1>1, <1>2, <1>3, <1>4, <1>5, <1>6, <1>7 DEF Next

-----------------------------------------------------------------------------
(* The invariant, and what follows from it.                                *)

VoiceInv == PlaybackInv /\ VoiceTyped /\ MachineInv

LEMMA VoiceInit == Init => VoiceInv
<1> SUFFICES ASSUME Init PROVE VoiceInv
  OBVIOUS
<1> USE DEF Init, PlaybackInit
<1>0. /\ 0 \in Contexts /\ None \in Threads /\ 0 \in 0..MaxPlays
      /\ MaxPlays \in Nat /\ 0 \in 0..MaxConnections
  BY PlaybackAssumption, VoiceAssumption DEF Contexts, Threads
<1>1. \A p \in Players : player[p] \in Player /\ player[p].held = 0
                         /\ ~player[p].loading
  BY <1>0 DEF Player
<1>2. \A c \in Contexts : stack[c] = << >> /\ stack[c] \in Seq(Frames)
  BY EmptySeq
<1>3. PlaybackTyped
  BY <1>0, <1>1, <1>2 DEF PlaybackTyped
<1>4. /\ \A p \in Players : Held[p] = 0
      /\ \A c \in Contexts : Owing[c] = {}
      /\ 1..plays = {}
  BY <1>0, <1>1, <1>2, OwesNothing DEF Held, Owing
<1>5. Conserved(Held, Owing, calls, plays)
  BY <1>0, <1>4 DEF Conserved
<1>6. Tokens
  BY <1>1, <1>2, <1>5, OwesNothing DEF Tokens
<1>7. Sounds
  BY <1>1 DEF Sounds, Ends
<1>8. VoiceTyped
  <2>1. link \in Link
    BY <1>0, FreshIsLink
  <2>2. machine \in Machines
    BY DEF PipelineMachine!MachineInit, Machines, PipelineMachine!States
  <2>3. done \in Seq(Callback) /\ Len(done) = plays /\ soon \in Seq(Handed)
    BY EmptySeq
  <2> QED BY <2>1, <2>2, <2>3 DEF VoiceTyped
<1>9. MachineInv
  BY <1>8 DEF VoiceTyped, MachineInv, Shown, PipelineMachine!MachineInit
<1> QED BY <1>3, <1>6, <1>7, <1>8, <1>9 DEF VoiceInv, PlaybackInv

LEMMA VoiceStep == VoiceInv /\ [Next]_vars => VoiceInv'
<1> SUFFICES ASSUME VoiceInv, [Next]_vars PROVE VoiceInv'
  OBVIOUS
<1>0. /\ PlaybackInv /\ VoiceTyped /\ MachineInv /\ DoneTyped
      /\ link \in Link /\ timers \in Nat
  BY DEF VoiceInv, VoiceTyped, DoneTyped
<1>1. PlaybackInv'
  BY <1>0, PlaybackStep
<1>2. DoneTyped'
  BY <1>0, DoneStep
<1>3. link' \in Link /\ timers' \in Nat
  BY <1>0, LinkStep
<1>4. MachineInv'
  BY <1>0, MachineStep
<1>5. VoiceTyped'
  BY <1>2, <1>3, <1>4 DEF VoiceTyped, DoneTyped, MachineInv
<1> QED BY <1>1, <1>4, <1>5 DEF VoiceInv

\* The inductive invariant: the types, where every callback is, and what
\* the machine shows (satellite.py, audio_reachy.py, pipeline.py).
THEOREM VoiceIsKnown == Spec => []VoiceInv
BY VoiceInit, VoiceStep, PTL DEF Spec

\* The variables keep their types and a frame names a play that exists.
THEOREM VoiceTypes == Spec => []TypeOK
<1>1. ASSUME VoiceInv PROVE TypeOK
  <2>1. /\ PlaybackTyped /\ VoiceTyped /\ Tokens
    BY <1>1 DEF VoiceInv, PlaybackInv
  <2>2. \A p \in Players : player[p].held <= plays
    BY <2>1 DEF Tokens, Conserved, Held
  <2>3. ASSUME NEW c \in Contexts, NEW i \in DOMAIN stack[c],
               stack[c][i][1] = "call"
        PROVE  stack[c][i][2] \in 1..plays
    <3>1. stack[c][i] \in Frames
      BY <2>1, LenProperties, ElementOfSeq DEF PlaybackTyped
    <3>2. /\ stack[c][i] = <<"call", stack[c][i][2]>>
          /\ stack[c][i][2] \in 1..MaxPlays
      BY <3>1, <2>3 DEF Frames
    <3>3. stack[c][i][2] \in Owes(stack[c])
      BY <3>2 DEF Owes
    <3>4. Owes(stack[c]) \subseteq 1..plays
      BY <2>1 DEF Tokens, Conserved, Owing
    <3> QED BY <3>3, <3>4
  <2>4. /\ link.number \in 0..MaxConnections
        /\ machine.state \in PipelineMachine!States
    BY <2>1 DEF VoiceTyped, Link, Machines
  <2>5. \A c \in Contexts : c > plays => stack[c] = << >>
    BY <2>1 DEF Tokens
  <2> QED
    BY <2>1, <2>2, <2>3, <2>4, <2>5
    DEF TypeOK, PlaybackTyped, VoiceTyped, Callback
<1> QED BY <1>1, VoiceIsKnown, PTL

\* Every callback is held, about to be called, or was called once; and what
\* a player holds will end or can be resumed: racing ends, replacements,
\* stops and releases (audio_reachy.py) neither lose nor repeat one.
THEOREM CallbacksAreCalledOnce == Spec => []CallbackOnce
<1>1. ASSUME VoiceInv PROVE CallbackOnce
  <2>1. Conserved(Held, Owing, calls, plays) /\ Sounds
    BY <1>1 DEF VoiceInv, PlaybackInv, Tokens
  <2>2. /\ \A p \in Players : Held[p] = player[p].held
        /\ \A c \in Contexts : Owing[c] = Owes(stack[c])
        /\ plays \in 0..MaxPlays /\ MaxPlays \in Nat
        /\ calls \in [1..MaxPlays -> Nat]
    BY <1>1, PlaybackAssumption
    DEF Held, Owing, VoiceInv, PlaybackInv, PlaybackTyped
  <2>3. ASSUME NEW n \in 1..plays
        PROVE  LET holders == {p \in Players : player[p].held = n}
               IN \/ calls[n] = 1 /\ holders = {} /\ Owed(n) = {}
                  \/ /\ calls[n] = 0 /\ holders = {}
                     /\ \E c \in Contexts : Owed(n) = {c}
                  \/ /\ calls[n] = 0 /\ Owed(n) = {}
                     /\ \E p \in Players : holders = {p}
    <3> DEFINE holders == {p \in Players : player[p].held = n}
    <3>1. n \in 1..MaxPlays /\ n # 0 /\ calls[n] \in {0, 1}
      BY <2>1, <2>2 DEF Conserved
    <3>2. \A c : c \in Owed(n) <=> c \in Contexts /\ n \in Owing[c]
      BY <2>2, <3>1 DEF Owed, Owes
    <3>3. \A p : p \in holders <=> p \in Players /\ Held[p] = n
      BY <2>2
    <3> HIDE DEF holders
    <3>4. CASE calls[n] = 1
      BY <3>1, <3>2, <3>3, <3>4, <2>1 DEF Conserved, holders
    <3>5. CASE calls[n] = 0 /\ \E c \in Contexts : n \in Owing[c]
      <4> PICK c \in Contexts : n \in Owing[c]
        BY <3>5
      <4>1. Owed(n) = {c}
        BY <3>2, <2>1 DEF Conserved
      <4>2. holders = {}
        BY <3>3, <2>1 DEF Conserved
      <4> QED BY <3>5, <4>1, <4>2 DEF holders
    <3>6. CASE calls[n] = 0 /\ ~\E c \in Contexts : n \in Owing[c]
      <4>1. \E p \in Players : Held[p] = n
        BY <3>6, <2>1 DEF Conserved
      <4>2. PICK p \in Players : Held[p] = n
        BY <4>1
      <4>3. holders = {p}
        BY <3>1, <3>3, <4>2, <2>1 DEF Conserved
      <4>4. Owed(n) = {}
        BY <3>2, <3>6
      <4> QED BY <3>6, <4>3, <4>4 DEF holders
    <3> QED BY <3>1, <3>4, <3>5, <3>6
  <2>4. \A p \in Players : LET r == player[p] IN
          r.held # 0 => \/ r.thread # None
                        \/ r.paused /\ (r.current \/ r.pending > 0)
    BY <2>1 DEF Sounds, Ends
  <2> QED BY <2>3, <2>4 DEF CallbackOnce
<1> QED BY <1>1, VoiceIsKnown, PTL

\* The machine shows the mute exactly while the satellite is muted
\* (_set_muted, behaviour/pipeline.py), whatever events arrive late.
THEOREM MuteIsShown == Spec => []MutedIsShown
<1>1. ASSUME VoiceInv PROVE MutedIsShown
  BY <1>1 DEF VoiceInv, MachineInv, MutedIsShown, Shown
<1> QED BY <1>1, VoiceIsKnown, PTL

\* While the pipeline is taken, by a wake word or a continued conversation,
\* what frees it is still to come (satellite.py): no order of sounds,
\* answers, mutes and lost connections leaves it taken by nothing.
THEOREM TakenPipelinesAreOwed == Spec => []TakenIsOwed
<1> DEFINE I == run \in Runs /\ TakenIsOwed
<1>1. Init => I
  BY DEF Init, NoRun, Runs, Fresh, TakenIsOwed
<1>2. VoiceInv /\ I /\ [Next]_vars => I'
  BY OwedStep, RunStep DEF VoiceInv
<1>3. I => TakenIsOwed
  OBVIOUS
<1> HIDE DEF I
<1> QED BY <1>1, <1>2, <1>3, VoiceIsKnown, PTL DEF Spec

\* A muted robot shows that it is, or that its connection is lost, and
\* nothing else: no late event makes it look as if it listened.
MutedShowsNothingElse == muted => machine.state \in {"muted", "disconnected"}

THEOREM MuteIsAllShown == Spec => []MutedShowsNothingElse
<1>1. ASSUME VoiceInv PROVE MutedShowsNothingElse
  BY <1>1 DEF VoiceInv, MachineInv, MutedShowsNothingElse, Shown, Machines
<1> QED BY <1>1, VoiceIsKnown, PTL

\* Of context c's next frame n, a call: its callback was not called yet.
LEMMA CallsFirst ==
  ASSUME PlaybackInv, NEW c \in Contexts, NEW kind, Calling(c, kind)
  PROVE  \E n \in 1..plays :
           calls[n] = 0 /\ calls' = [calls EXCEPT ![n] = 1]
<1> DEFINE n == Head(stack[c])[2]
<1>1. n \in 1..plays /\ calls' = [calls EXCEPT ![n] = @ + 1]
  BY CallingStep DEF Calling
<1>2. n \in 1..MaxPlays /\ n \in Owing[c]
  BY LeavesCalled DEF Calling, Owing
<1>3. calls[n] = 0
  BY <1>2 DEF PlaybackInv, Tokens, Conserved
<1> HIDE DEF n
<1>4. calls[n] + 1 = 1
  BY <1>3
<1> QED BY <1>1, <1>3, <1>4

\* A step calls the callback of a play made before it that was not called
\* yet, or calls none; and only the plays themselves are numbered.
CallsFollowPlays ==
  /\ \/ UNCHANGED calls
     \/ \E n \in 1..plays :
          calls[n] = 0 /\ calls' = [calls EXCEPT ![n] = 1]
  /\ plays' \in {plays, plays + 1}

LEMMA CallsStep ==
  ASSUME PlaybackInv, [Next]_vars
  PROVE  CallsFollowPlays
<1> USE DEF CallsFollowPlays
<1>0. ASSUME UNCHANGED calls, \/ UNCHANGED plays
                              \/ \E kind \in Kinds : Adds(kind)
      PROVE  CallsFollowPlays
  BY <1>0 DEF Adds
<1>1. {"wake", "tts", "timer", "resume", "idle"} \subseteq Kinds
  BY DEF Kinds
<1>2. CASE wakeup \/ play_tts \/ Announce \/ TIMER_FINISHED
  BY <1>0, <1>1, <1>2
  DEF wakeup, play_tts, Announce, TIMER_FINISHED, Plays
<1>3. CASE MediaCommand \/ MediaAnnouncement
  BY <1>0, <1>1, <1>3 DEF MediaCommand, MediaAnnouncement, Plays, Stops
<1>4. CASE stop_ \/ \E new \in BOOLEAN : _set_muted(new)
  BY <1>0, <1>4 DEF stop_, _set_muted, Stops, PlaysSound
<1>5. CASE RUN_START \/ STT_END \/ INTENT_START \/ INTENT_END
  BY <1>0, <1>5
  DEF RUN_START, STT_END, INTENT_START, INTENT_END, Silent, PlaysSound,
      playbackVars
<1>6. CASE RUN_END \/ ERROR \/ TIMER_CANCELLED
  BY <1>0, <1>6 DEF RUN_END, ERROR, TIMER_CANCELLED, Silent, playbackVars
<1>7. CASE Shutdown \/ connection_lost
  BY <1>0, <1>7 DEF Shutdown, connection_lost, Stops
<1>8. CASE \E p \in Players : PlayerSteps(p) /\ UNCHANGED voiceVars
  BY <1>0, <1>8
  DEF PlayerSteps, _resolve_and_begin, Skips, _begin, _finished, Becomes,
      Hands
<1>9. CASE \E c \in Contexts : Callbacks(c)
  <2> PICK c \in Contexts : Callbacks(c)
    BY <1>9
  <2>1. ASSUME NEW kind, Calling(c, kind), plays' \in {plays, plays + 1}
        PROVE  CallsFollowPlays
    BY <2>1, CallsFirst
  <2>2. CASE _play_timer_finished(c)
    BY <2>1, <2>2 DEF _play_timer_finished, Adds
  <2>3. CASE _on_wakeup_sound_finished(c) \/ _tts_finished(c)
             \/ MediaFinished(c)
    BY <2>1, <2>3
    DEF _on_wakeup_sound_finished, _tts_finished, MediaFinished
  <2>4. CASE Settles(c) \/ Detach(c)
    BY <1>0, <2>4 DEF Settles, Detach
  <2> QED BY <2>2, <2>3, <2>4 DEF Callbacks
<1>10. CASE HandlerResumes
  BY <1>0, <1>10 DEF HandlerResumes, Resumes, PlaysSound, Stops
<1>11. CASE \/ _start_continued_conversation \/ Authenticated \/ Deliver
            \/ ErrorShown
  BY <1>0, <1>11
  DEF _start_continued_conversation, Authenticated, Deliver, ErrorShown,
      Silent, playbackVars
<1>12. CASE UNCHANGED vars
  BY <1>0, <1>12 DEF vars, playbackVars
<1> QED
  BY <1>2, <1>3, <1>4, <1>5, <1>6, <1>7, <1>8, <1>9, <1>10, <1>11, <1>12
  DEF Next

\* No step calls two callbacks, one a second time, or that of a play yet to
\* come (_take_over and _finished, audio_reachy.py).
THEOREM CallbacksFollowPlays == Spec => [][CallsFollowPlays]_vars
<1>1. VoiceInv /\ [Next]_vars => [CallsFollowPlays]_vars
  BY CallsStep DEF VoiceInv
<1> QED BY <1>1, VoiceIsKnown, PTL DEF Spec
=============================================================================
