------------------------------ MODULE EnvdProofs ------------------------------
(***************************************************************************)
(* Theorems about envd's process service, for any number of processes,     *)
(* followers and streams and any amount of output.                         *)
(***************************************************************************)
EXTENDS EnvdProcess, TLAPS

Held(p, s) == IF reader[p][s] = "holding" THEN 1 ELSE 0

\* Before SendStart, and after wg.Wait, no goroutine is at work.
Silence == {"idle", "spawned", "listed", "failed"}
Drained == {"closed", "unlisted", "ended"}

\* What the handler knows of its process and its goroutines.
HandlerInv(p) ==
  /\ handler[p] = "idle" => process[p] = "none"
  /\ handler[p] \notin {"idle", "failed"} => process[p] # "none"
  /\ handler[p] \in Drained \cup {"reaped"} => process[p] = "exited"
  /\ \A s \in Streams :
       /\ handler[p] \in Silence <=> reader[p][s] = "none"
       /\ handler[p] \in Drained => reader[p][s] = "stopped"
       /\ handler[p] \in Drained \cup {"reaped"} => pipe[p][s] = 0
  /\ p \in done => handler[p] \in Drained

\* What the caller knows of the handler.
CallerInv(p) ==
  /\ saw[p] # "nothing" => handler[p] \notin Silence
  /\ saw[p] = "end" => handler[p] = "ended"
  /\ p \in here /\ handler[p] \in {"waiting", "reaped", "closed", "unlisted"}
       => saw[p] = "start"
  /\ LeftBehind(p) => p \notin here

\* No chunk is made up, and none is lost on the way to a caller who stays while
\* the pipes are not closed under their readers.
ChunkInv(p) ==
  \A s \in Streams :
    /\ got[p][s] + Held(p, s) + pipe[p][s] <= wrote[p][s]
    /\ p \in here /\ reader[p][s] = "stopped" =>
         process[p] = "exited" /\ pipe[p][s] = 0
    /\ p \notin cut /\ (p \in here \/ saw[p] = "end") =>
         got[p][s] + Held(p, s) + pipe[p][s] = wrote[p][s]

FollowerInv ==
  \A c \in Connectors :
    /\ follower[c] \in {"found", "following", "told"} => followed[c] \in Starts
    /\ follower[c] = "told" => followed[c] \in done

\* What the table holds, and who holds it there.
Tabled ==
  \A p \in Starts :
    /\ handler[p] \in Serving => p \in processes
    /\ p \in processes => handler[p] \in Serving \/ LeftBehind(p)

IInv ==
  /\ TypeOK
  /\ \A p \in Starts : HandlerInv(p) /\ CallerInv(p) /\ ChunkInv(p)
  /\ FollowerInv
  /\ Tabled

-----------------------------------------------------------------------------
(* Nothing has been asked for: every part holds. *)
LEMMA InitInv == Init => IInv
<1> SUFFICES ASSUME Init PROVE IInv
  OBVIOUS
<1>1. TypeOK
  BY ChunksAssumption DEF Init, TypeOK, HandlerStates, Silent
<1>2. ASSUME NEW p \in Starts
      PROVE  HandlerInv(p) /\ CallerInv(p) /\ ChunkInv(p)
  <2>1. HandlerInv(p)
    BY DEF Init, HandlerInv, Silent, Silence, Drained
  <2>2. CallerInv(p)
    BY DEF Init, CallerInv, LeftBehind, Silence
  <2>3. ChunkInv(p)
    BY DEF Init, ChunkInv, Held, Silent
  <2>. QED
    BY <2>1, <2>2, <2>3
<1>3. FollowerInv
  BY DEF Init, FollowerInv
<1>4. Tabled
  BY DEF Init, Tabled, Serving
<1>. QED
  BY <1>1, <1>2, <1>3, <1>4 DEF IInv

(* The process begins, or the request fails without one. *)
LEMMA SpawnInv ==
  ASSUME IInv, NEW p \in Starts, Spawn(p)
  PROVE  IInv'
<1> USE DEF Spawn, Goes, table, output, followers, client
<1>1. TypeOK'
  BY DEF IInv, TypeOK, HandlerStates
<1>2. ASSUME NEW q \in Starts
      PROVE  HandlerInv(q)'
  <2>1. HandlerInv(q) /\ HandlerInv(p) /\ handler[p] = "idle"
    BY DEF IInv
  <2>2. CASE q # p
    BY <2>1, <2>2 DEF IInv, TypeOK, HandlerInv
  <2>3. CASE q = p
    <3>1. /\ handler'[p] \in {"spawned", "failed"}
          /\ handler'[p] = "spawned" => process'[p] = "running"
      BY DEF IInv, TypeOK
    <3>. QED
      BY <2>1, <2>3, <3>1 DEF HandlerInv, Silence, Drained
  <2>. QED
    BY <2>2, <2>3
<1>3. ASSUME NEW q \in Starts
      PROVE  CallerInv(q)'
  BY DEF IInv, TypeOK, HandlerInv, CallerInv, LeftBehind, Silence
<1>4. ASSUME NEW q \in Starts
      PROVE  ChunkInv(q)'
  BY DEF IInv, TypeOK, HandlerInv, ChunkInv, Held
<1>5. FollowerInv'
  BY DEF IInv, TypeOK, FollowerInv
<1>6. Tabled'
  BY DEF IInv, TypeOK, Tabled, Serving, LeftBehind
<1>. QED
  BY <1>1, <1>2, <1>3, <1>4, <1>5, <1>6 DEF IInv

(* The entry and the handler that serves it begin together. *)
LEMMA RegisterInv ==
  ASSUME IInv, NEW p \in Starts, Register(p)
  PROVE  IInv'
<1> USE DEF Register, Goes, table, output, followers, client
<1>1. TypeOK'
  BY DEF IInv, TypeOK, HandlerStates
<1>2. ASSUME NEW q \in Starts
      PROVE  HandlerInv(q)'
  BY DEF IInv, HandlerInv, Silence, Drained
<1>3. ASSUME NEW q \in Starts
      PROVE  CallerInv(q)'
  BY DEF IInv, TypeOK, HandlerStates, HandlerInv, CallerInv, LeftBehind, Silence, Drained
<1>4. ASSUME NEW q \in Starts
      PROVE  ChunkInv(q)'
  BY DEF IInv, ChunkInv, Held
<1>5. FollowerInv'
  BY DEF IInv, FollowerInv
<1>6. Tabled'
  BY DEF IInv, TypeOK, Tabled, Serving, LeftBehind
<1>. QED
  BY <1>1, <1>2, <1>3, <1>4, <1>5, <1>6 DEF IInv

(* The goroutines begin, and a caller who is there has his start event. *)
LEMMA SendStartInv ==
  ASSUME IInv, NEW p \in Starts, SendStart(p)
  PROVE  IInv'
<1> USE DEF SendStart, Goes, table, output, followers, client
<1>1. TypeOK'
  BY DEF IInv, TypeOK, HandlerStates
<1>2. ASSUME NEW q \in Starts
      PROVE  HandlerInv(q)'
  BY DEF IInv, TypeOK, HandlerInv, Silence, Drained
<1>3. ASSUME NEW q \in Starts
      PROVE  CallerInv(q)'
  BY DEF IInv, TypeOK, CallerInv, LeftBehind, Silence
<1>4. ASSUME NEW q \in Starts
      PROVE  ChunkInv(q)'
  BY DEF IInv, HandlerInv, ChunkInv, Held, Silence
<1>5. FollowerInv'
  BY DEF IInv, FollowerInv
<1>6. Tabled'
  BY DEF IInv, Tabled, Serving, LeftBehind
<1>. QED
  BY <1>1, <1>2, <1>3, <1>4, <1>5, <1>6 DEF IInv

(* The entry stays, of a caller who has left. *)
LEMMA StartNotSentInv ==
  ASSUME IInv, NEW p \in Starts, StartNotSent(p)
  PROVE  IInv'
<1> USE DEF StartNotSent, Goes, table, output, followers, client
<1>1. TypeOK'
  BY DEF IInv, TypeOK, HandlerStates
<1>2. ASSUME NEW q \in Starts
      PROVE  HandlerInv(q)'
  BY DEF IInv, HandlerInv, Silence, Drained
<1>3. ASSUME NEW q \in Starts
      PROVE  CallerInv(q)'
  BY DEF IInv, CallerInv, LeftBehind, Silence
<1>4. ASSUME NEW q \in Starts
      PROVE  ChunkInv(q)'
  BY DEF IInv, ChunkInv, Held
<1>5. FollowerInv'
  BY DEF IInv, FollowerInv
<1>6. Tabled'
  BY DEF IInv, HandlerInv, Tabled, Serving, LeftBehind
<1>. QED
  BY <1>1, <1>2, <1>3, <1>4, <1>5, <1>6 DEF IInv

(* The pipes are emptied: only a goroutine that has stopped has lost nothing by it. *)
LEMMA ReapInv ==
  ASSUME IInv, NEW p \in Starts, Reap(p)
  PROVE  IInv'
<1> USE DEF Reap, Goes, table, output, followers, client
<1>1. TypeOK'
  BY ChunksAssumption DEF IInv, TypeOK, HandlerStates, Silent
<1>2. ASSUME NEW q \in Starts
      PROVE  HandlerInv(q)'
  BY DEF IInv, TypeOK, HandlerInv, Silence, Drained, Silent
<1>3. ASSUME NEW q \in Starts
      PROVE  CallerInv(q)'
  BY DEF IInv, CallerInv, LeftBehind, Silence
<1>4. ASSUME NEW q \in Starts
      PROVE  ChunkInv(q)'
  BY DEF IInv, TypeOK, CallerInv, ChunkInv, Held, Silent
<1>5. FollowerInv'
  BY DEF IInv, TypeOK, FollowerInv
<1>6. Tabled'
  BY DEF IInv, Tabled, Serving, LeftBehind
<1>. QED
  BY <1>1, <1>2, <1>3, <1>4, <1>5, <1>6 DEF IInv

(* Both goroutines have stopped before the channel is closed. *)
LEMMA CloseDoneInv ==
  ASSUME IInv, NEW p \in Starts, CloseDone(p)
  PROVE  IInv'
<1> USE DEF CloseDone, Goes, table, output, followers, client
<1>1. TypeOK'
  BY DEF IInv, TypeOK, HandlerStates
<1>2. ASSUME NEW q \in Starts
      PROVE  HandlerInv(q)'
  BY DEF IInv, TypeOK, HandlerInv, Silence, Drained
<1>3. ASSUME NEW q \in Starts
      PROVE  CallerInv(q)'
  BY DEF IInv, CallerInv, LeftBehind, Silence
<1>4. ASSUME NEW q \in Starts
      PROVE  ChunkInv(q)'
  BY DEF IInv, ChunkInv, Held
<1>5. FollowerInv'
  BY DEF IInv, FollowerInv
<1>6. Tabled'
  BY DEF IInv, Tabled, Serving, LeftBehind
<1>. QED
  BY <1>1, <1>2, <1>3, <1>4, <1>5, <1>6 DEF IInv

(* The entry goes; the handler is past the places that need it. *)
LEMMA UnlistInv ==
  ASSUME IInv, NEW p \in Starts, Unlist(p)
  PROVE  IInv'
<1> USE DEF Unlist, Goes, table, output, followers, client
<1>1. TypeOK'
  BY DEF IInv, TypeOK, HandlerStates
<1>2. ASSUME NEW q \in Starts
      PROVE  HandlerInv(q)'
  BY DEF IInv, HandlerInv, Silence, Drained
<1>3. ASSUME NEW q \in Starts
      PROVE  CallerInv(q)'
  BY DEF IInv, CallerInv, LeftBehind, Silence
<1>4. ASSUME NEW q \in Starts
      PROVE  ChunkInv(q)'
  BY DEF IInv, ChunkInv, Held
<1>5. FollowerInv'
  BY DEF IInv, FollowerInv
<1>6. Tabled'
  BY DEF IInv, TypeOK, Tabled, Serving, LeftBehind
<1>. QED
  BY <1>1, <1>2, <1>3, <1>4, <1>5, <1>6 DEF IInv

(* The caller's end event is the handler's last act. *)
LEMMA SendEndInv ==
  ASSUME IInv, NEW p \in Starts, SendEnd(p)
  PROVE  IInv'
<1> USE DEF SendEnd, Goes, table, output, followers, client
<1>1. TypeOK'
  BY DEF IInv, TypeOK, HandlerStates
<1>2. ASSUME NEW q \in Starts
      PROVE  HandlerInv(q)'
  BY DEF IInv, HandlerInv, Silence, Drained
<1>3. ASSUME NEW q \in Starts
      PROVE  CallerInv(q)'
  BY DEF IInv, TypeOK, CallerInv, LeftBehind, Silence
<1>4. ASSUME NEW q \in Starts
      PROVE  ChunkInv(q)'
  BY ChunksAssumption
     DEF IInv, TypeOK, HandlerInv, CallerInv, ChunkInv, Held, Silence, Drained, Silent
<1>5. FollowerInv'
  BY DEF IInv, TypeOK, FollowerInv
<1>6. Tabled'
  BY DEF IInv, Tabled, Serving, LeftBehind
<1>. QED
  BY <1>1, <1>2, <1>3, <1>4, <1>5, <1>6 DEF IInv

(* A chunk moves from the pipe into a goroutine's hand. *)
LEMMA ReadChunkInv ==
  ASSUME IInv, NEW p \in Starts, NEW s \in Streams, ReadChunk(p, s)
  PROVE  IInv'
<1> USE DEF ReadChunk, Reads, table, output, followers, client
<1>1. TypeOK'
  BY ChunksAssumption DEF IInv, TypeOK
<1>2. ASSUME NEW q \in Starts
      PROVE  HandlerInv(q)'
  BY DEF IInv, HandlerInv
<1>3. ASSUME NEW q \in Starts
      PROVE  CallerInv(q)'
  BY DEF IInv, CallerInv, LeftBehind
<1>4. ASSUME NEW q \in Starts
      PROVE  ChunkInv(q)'
  BY DEF IInv, TypeOK, ChunkInv, Held
<1>5. FollowerInv'
  BY DEF IInv, TypeOK, FollowerInv
<1>6. Tabled'
  BY DEF IInv, Tabled, Serving, LeftBehind
<1>. QED
  BY <1>1, <1>2, <1>3, <1>4, <1>5, <1>6 DEF IInv

(* A goroutine stops at an empty pipe of a process that has exited. *)
LEMMA ReadEndInv ==
  ASSUME IInv, NEW p \in Starts, NEW s \in Streams, ReadEnd(p, s)
  PROVE  IInv'
<1> USE DEF ReadEnd, Reads, table, output, followers, client
<1>1. TypeOK'
  BY DEF IInv, TypeOK
<1>2. ASSUME NEW q \in Starts
      PROVE  HandlerInv(q)'
  BY DEF IInv, HandlerInv
<1>3. ASSUME NEW q \in Starts
      PROVE  CallerInv(q)'
  BY DEF IInv, CallerInv, LeftBehind
<1>4. ASSUME NEW q \in Starts
      PROVE  ChunkInv(q)'
  BY DEF IInv, ChunkInv, Held
<1>5. FollowerInv'
  BY DEF IInv, FollowerInv
<1>6. Tabled'
  BY DEF IInv, Tabled, Serving, LeftBehind
<1>. QED
  BY <1>1, <1>2, <1>3, <1>4, <1>5, <1>6 DEF IInv

(* A chunk moves from a goroutine's hand to the caller. *)
LEMMA SendChunkInv ==
  ASSUME IInv, NEW p \in Starts, NEW s \in Streams, SendChunk(p, s)
  PROVE  IInv'
<1> USE DEF SendChunk, Reads, table, output, followers, client
<1>1. TypeOK'
  BY ChunksAssumption DEF IInv, TypeOK, ChunkInv, Held
<1>2. ASSUME NEW q \in Starts
      PROVE  HandlerInv(q)'
  BY DEF IInv, HandlerInv
<1>3. ASSUME NEW q \in Starts
      PROVE  CallerInv(q)'
  BY DEF IInv, CallerInv, LeftBehind
<1>4. ASSUME NEW q \in Starts
      PROVE  ChunkInv(q)'
  BY DEF IInv, TypeOK, ChunkInv, Held
<1>5. FollowerInv'
  BY DEF IInv, TypeOK, FollowerInv
<1>6. Tabled'
  BY DEF IInv, Tabled, Serving, LeftBehind
<1>. QED
  BY <1>1, <1>2, <1>3, <1>4, <1>5, <1>6 DEF IInv

(* A chunk is lost, of a caller who has left. *)
LEMMA ChunkNotSentInv ==
  ASSUME IInv, NEW p \in Starts, NEW s \in Streams, ChunkNotSent(p, s)
  PROVE  IInv'
<1> USE DEF ChunkNotSent, Reads, table, output, followers, client
<1>1. TypeOK'
  BY ChunksAssumption DEF IInv, TypeOK, HandlerStates, ChunkInv, Held, Silent
<1>2. ASSUME NEW q \in Starts
      PROVE  HandlerInv(q)'
  BY DEF IInv, HandlerInv
<1>3. ASSUME NEW q \in Starts
      PROVE  CallerInv(q)'
  BY DEF IInv, CallerInv, LeftBehind
<1>4. ASSUME NEW q \in Starts
      PROVE  ChunkInv(q)'
  BY DEF IInv, TypeOK, HandlerInv, CallerInv, ChunkInv, Held, Drained
<1>5. FollowerInv'
  BY DEF IInv, TypeOK, FollowerInv
<1>6. Tabled'
  BY DEF IInv, TypeOK, HandlerStates, HandlerInv, Tabled, Serving, LeftBehind,
         Silence, Drained
<1>. QED
  BY <1>1, <1>2, <1>3, <1>4, <1>5, <1>6 DEF IInv

(* A follower finds a listed process. *)
LEMMA ConnectInv ==
  ASSUME IInv, NEW c \in Connectors, Connect(c)
  PROVE  IInv'
<1> USE DEF Connect, table, output, followers, client
<1>1. TypeOK'
  <2>1. TypeOK /\ processes \subseteq Starts
    BY DEF IInv, TypeOK
  <2>2. /\ \/ follower' = [follower EXCEPT ![c] = "found"]
           \/ follower' = [follower EXCEPT ![c] = "failed"]
        /\ followed' = followed \/ \E p \in Starts : followed' = [followed EXCEPT ![c] = p]
    BY <2>1
  <2>3. /\ follower' \in [Connectors -> {"idle", "found", "following", "told", "failed"}]
        /\ followed' \in [Connectors -> Starts \cup {NoProcess}]
    BY <2>1, <2>2 DEF TypeOK
  <2>. QED
    BY <2>1, <2>3 DEF TypeOK
<1>2. ASSUME NEW q \in Starts
      PROVE  HandlerInv(q)'
  BY DEF IInv, HandlerInv
<1>3. ASSUME NEW q \in Starts
      PROVE  CallerInv(q)'
  BY DEF IInv, CallerInv, LeftBehind
<1>4. ASSUME NEW q \in Starts
      PROVE  ChunkInv(q)'
  BY DEF IInv, ChunkInv, Held
<1>5. FollowerInv'
  BY DEF IInv, TypeOK, FollowerInv
<1>6. Tabled'
  BY DEF IInv, TypeOK, Tabled, Serving, LeftBehind
<1>. QED
  BY <1>1, <1>2, <1>3, <1>4, <1>5, <1>6 DEF IInv

(* A follower's own start event. *)
LEMMA GreetInv ==
  ASSUME IInv, NEW c \in Connectors, Greet(c)
  PROVE  IInv'
<1> USE DEF Greet, table, output, followers, client
<1>1. TypeOK'
  BY DEF IInv, TypeOK
<1>2. ASSUME NEW q \in Starts
      PROVE  HandlerInv(q)'
  BY DEF IInv, HandlerInv
<1>3. ASSUME NEW q \in Starts
      PROVE  CallerInv(q)'
  BY DEF IInv, CallerInv, LeftBehind
<1>4. ASSUME NEW q \in Starts
      PROVE  ChunkInv(q)'
  BY DEF IInv, ChunkInv, Held
<1>5. FollowerInv'
  BY DEF IInv, FollowerInv
<1>6. Tabled'
  BY DEF IInv, Tabled, Serving, LeftBehind
<1>. QED
  BY <1>1, <1>2, <1>3, <1>4, <1>5, <1>6 DEF IInv

(* A follower's end event comes after the channel is closed. *)
LEMMA TellInv ==
  ASSUME IInv, NEW c \in Connectors, Tell(c)
  PROVE  IInv'
<1> USE DEF Tell, table, output, followers, client
<1>1. TypeOK'
  BY DEF IInv, TypeOK
<1>2. ASSUME NEW q \in Starts
      PROVE  HandlerInv(q)'
  BY DEF IInv, HandlerInv
<1>3. ASSUME NEW q \in Starts
      PROVE  CallerInv(q)'
  BY DEF IInv, CallerInv, LeftBehind
<1>4. ASSUME NEW q \in Starts
      PROVE  ChunkInv(q)'
  BY DEF IInv, ChunkInv, Held
<1>5. FollowerInv'
  BY DEF IInv, FollowerInv
<1>6. Tabled'
  BY DEF IInv, Tabled, Serving, LeftBehind
<1>. QED
  BY <1>1, <1>2, <1>3, <1>4, <1>5, <1>6 DEF IInv

(* A chunk more is written and in the pipe; the process runs, so that no end is told yet. *)
LEMMA WriteInv ==
  ASSUME IInv, NEW p \in Starts, NEW s \in Streams, Write(p, s)
  PROVE  IInv'
<1> USE DEF Write, table, output, followers, client
<1>1. TypeOK'
  <2>1. /\ wrote[p][s] \in 0..MaxChunks /\ wrote[p][s] + 1 \in 0..MaxChunks
        /\ pipe[p][s] \in 0..MaxChunks /\ got[p][s] \in 0..MaxChunks
        /\ Held(p, s) \in 0..1
    BY ChunksAssumption DEF IInv, TypeOK, Held
  <2>2. got[p][s] + Held(p, s) + pipe[p][s] <= wrote[p][s]
    BY DEF IInv, ChunkInv
  <2>3. pipe[p][s] + 1 \in 0..MaxChunks
    BY <2>1, <2>2, ChunksAssumption
  <2>. QED
    BY <2>1, <2>3 DEF IInv, TypeOK
<1>2. ASSUME NEW q \in Starts
      PROVE  HandlerInv(q)'
  BY DEF IInv, HandlerInv
<1>3. ASSUME NEW q \in Starts
      PROVE  CallerInv(q)'
  BY DEF IInv, CallerInv, LeftBehind
<1>4. ASSUME NEW q \in Starts
      PROVE  ChunkInv(q)'
  <2>1. process[p] = "running" /\ saw[p] # "end"
    BY DEF IInv, HandlerInv, CallerInv, Drained
  <2>2. CASE q # p
    BY <2>2 DEF IInv, ChunkInv, Held
  <2>3. ASSUME q = p, NEW t \in Streams
        PROVE  /\ got'[p][t] + Held(p, t)' + pipe'[p][t] <= wrote'[p][t]
               /\ reader'[p][t] = "stopped" => p \notin here
               /\ p \notin cut /\ p \in here =>
                    got'[p][t] + Held(p, t)' + pipe'[p][t] = wrote'[p][t]
    <3>1. /\ wrote[p][t] \in Nat /\ pipe[p][t] \in Nat /\ got[p][t] \in Nat
          /\ Held(p, t) \in 0..1 /\ Held(p, t)' = Held(p, t)
      BY DEF IInv, TypeOK, Held
    <3>2. \/ wrote'[p][t] = wrote[p][t] /\ pipe'[p][t] = pipe[p][t]
          \/ wrote'[p][t] = wrote[p][t] + 1 /\ pipe'[p][t] = pipe[p][t] + 1
      BY DEF IInv, TypeOK
    <3>3. /\ got[p][t] + Held(p, t) + pipe[p][t] <= wrote[p][t]
          /\ p \in here /\ reader[p][t] = "stopped" => process[p] = "exited"
          /\ p \notin cut /\ p \in here =>
               got[p][t] + Held(p, t) + pipe[p][t] = wrote[p][t]
      BY DEF IInv, ChunkInv
    <3>. QED
      BY <2>1, <3>1, <3>2, <3>3
  <2>. QED
    BY <2>1, <2>2, <2>3 DEF ChunkInv
<1>5. FollowerInv'
  BY DEF IInv, FollowerInv
<1>6. Tabled'
  BY DEF IInv, Tabled, Serving, LeftBehind
<1>. QED
  BY <1>1, <1>2, <1>3, <1>4, <1>5, <1>6 DEF IInv

(* The process exits, whoever wanted it. *)
LEMMA DiesInv ==
  ASSUME IInv, NEW p \in Starts, Dies(p)
  PROVE  IInv'
<1> USE DEF Dies, table, output, followers, client
<1>1. TypeOK'
  BY DEF IInv, TypeOK
<1>2. ASSUME NEW q \in Starts
      PROVE  HandlerInv(q)'
  BY DEF IInv, HandlerInv
<1>3. ASSUME NEW q \in Starts
      PROVE  CallerInv(q)'
  BY DEF IInv, CallerInv, LeftBehind
<1>4. ASSUME NEW q \in Starts
      PROVE  ChunkInv(q)'
  BY DEF IInv, ChunkInv, Held
<1>5. FollowerInv'
  BY DEF IInv, FollowerInv
<1>6. Tabled'
  BY DEF IInv, Tabled, Serving, LeftBehind
<1>. QED
  BY <1>1, <1>2, <1>3, <1>4, <1>5, <1>6 DEF IInv

(* Who has left is promised nothing, except what he has been told already. *)
LEMMA LeaveInv ==
  ASSUME IInv, NEW x \in Starts \cup Connectors, Leave(x)
  PROVE  IInv'
<1> USE DEF Leave, table, output, followers, client
<1>1. TypeOK'
  BY DEF IInv, TypeOK
<1>2. ASSUME NEW q \in Starts
      PROVE  HandlerInv(q)'
  BY DEF IInv, HandlerInv
<1>3. ASSUME NEW q \in Starts
      PROVE  CallerInv(q)'
  BY DEF IInv, CallerInv, LeftBehind
<1>4. ASSUME NEW q \in Starts
      PROVE  ChunkInv(q)'
  BY DEF IInv, ChunkInv, Held
<1>5. FollowerInv'
  BY DEF IInv, FollowerInv
<1>6. Tabled'
  BY DEF IInv, Tabled, Serving, LeftBehind
<1>. QED
  BY <1>1, <1>2, <1>3, <1>4, <1>5, <1>6 DEF IInv
-----------------------------------------------------------------------------
(* Every step keeps the invariant. *)
LEMMA StepInv == IInv /\ [Next]_vars => IInv'
<1> SUFFICES ASSUME IInv, [Next]_vars PROVE IInv'
  OBVIOUS
<1>1. ASSUME NEW p \in Starts, Handle(p)
      PROVE  IInv'
  BY <1>1, SpawnInv, RegisterInv, SendStartInv, StartNotSentInv, ReapInv, CloseDoneInv,
     UnlistInv, SendEndInv DEF Handle
<1>2. ASSUME NEW p \in Starts, Exit(p) \/ SendSignal(p) \/ Kill(p)
      PROVE  IInv'
  BY <1>2, DiesInv DEF Exit, SendSignal, Kill
<1>3. ASSUME NEW p \in Starts, NEW s \in Streams, Pump(p, s) \/ Write(p, s)
      PROVE  IInv'
  BY <1>3, ReadChunkInv, ReadEndInv, SendChunkInv, ChunkNotSentInv, WriteInv DEF Pump
<1>4. ASSUME NEW c \in Connectors, Follow(c)
      PROVE  IInv'
  BY <1>4, ConnectInv, GreetInv, TellInv DEF Follow
<1>5. ASSUME NEW x \in Starts \cup Connectors, Leave(x)
      PROVE  IInv'
  BY <1>5, LeaveInv
<1>6. CASE UNCHANGED vars
  <2> USE <1>6 DEF vars
  <2>1. TypeOK' /\ FollowerInv' /\ Tabled'
    BY DEF IInv, TypeOK, FollowerInv, Tabled, LeftBehind
  <2>2. ASSUME NEW p \in Starts
        PROVE  (HandlerInv(p) /\ CallerInv(p) /\ ChunkInv(p))'
    BY DEF IInv, HandlerInv, CallerInv, ChunkInv, Held, LeftBehind
  <2>. QED
    BY <2>1, <2>2 DEF IInv
<1>. QED
  BY <1>1, <1>2, <1>3, <1>4, <1>5, <1>6 DEF Next

(* So it holds always. *)
LEMMA Invariance == Spec => []IInv
BY InitInv, StepInv, PTL DEF Spec

-----------------------------------------------------------------------------
(* Every variable of the service keeps its type; in particular no process has  *)
(* more output on its way than it wrote.                                        *)
THEOREM TypeCorrect == Spec => []TypeOK
<1>1. IInv => TypeOK
  BY DEF IInv
<1>. QED
  BY <1>1, Invariance, PTL

(* The table of process.go holds what a handler serves, and what a Start left  *)
(* behind whose start event could not be sent; only a caller who has left       *)
(* without a word of the process leaves it behind.                              *)
THEOREM ListedHolds == Spec => []ListedIsServed
<1>1. IInv => ListedIsServed
  BY DEF IInv, TypeOK, HandlerInv, CallerInv, Tabled, LeftBehind, ListedIsServed, Silence, Drained
<1>. QED
  BY <1>1, Invariance, PTL

(* An end event is sent, by Start or by Connect, when the process has exited   *)
(* and both goroutines have stopped; Start's comes after the entry is gone.    *)
THEOREM EndHolds == Spec => []EndMeansEnd
<1>1. IInv => EndMeansEnd
  <2> SUFFICES ASSUME IInv PROVE EndMeansEnd
    OBVIOUS
  <2>1. ASSUME NEW p \in Starts, handler[p] \in Drained
        PROVE  process[p] = "exited" /\ \A s \in Streams : reader[p][s] = "stopped"
    BY <2>1 DEF IInv, HandlerInv
  <2>2. ASSUME NEW p \in Starts, saw[p] = "end"
        PROVE  handler[p] \in Drained /\ p \notin processes
    BY <2>2 DEF IInv, CallerInv, Tabled, Serving, LeftBehind, Drained
  <2>3. ASSUME NEW c \in Connectors, follower[c] = "told"
        PROVE  followed[c] \in Starts /\ handler[followed[c]] \in Drained
    BY <2>3 DEF IInv, FollowerInv, HandlerInv
  <2>. QED
    BY <2>1, <2>2, <2>3 DEF EndMeansEnd
<1>. QED
  BY <1>1, Invariance, PTL

(* The caller of Start has everything the process wrote when he is told of its *)
(* end, for any amount of output, unless cmd.Wait closed the pipes under the    *)
(* goroutines.                                                                   *)
THEOREM OutputHolds == Spec => []OutputArrives
<1>1. IInv => OutputArrives
  <2> SUFFICES ASSUME IInv, NEW p \in Starts, saw[p] = "end", p \notin cut
               PROVE  got[p] = wrote[p]
    BY DEF OutputArrives
  <2>1. handler[p] = "ended"
    BY DEF IInv, CallerInv
  <2>2. ASSUME NEW s \in Streams
        PROVE  got[p][s] = wrote[p][s]
    <3>1. reader[p][s] = "stopped" /\ pipe[p][s] = 0
      BY <2>1 DEF IInv, HandlerInv, Drained
    <3>2. got[p][s] + Held(p, s) + pipe[p][s] = wrote[p][s]
      BY DEF IInv, ChunkInv
    <3>3. got[p][s] \in Nat /\ wrote[p][s] \in Nat
      BY ChunksAssumption DEF IInv, TypeOK
    <3>. QED
      BY <3>1, <3>2, <3>3 DEF Held
  <2>3. got[p] \in [Streams -> 0..MaxChunks] /\ wrote[p] \in [Streams -> 0..MaxChunks]
    BY DEF IInv, TypeOK
  <2>. QED
    BY <2>2, <2>3
<1>. QED
  BY <1>1, Invariance, PTL

(* Only three actions reach the caller, each in its place: the start event is   *)
(* sent before the goroutines exist, the end event after they have stopped.      *)
THEOREM OrderHolds == Spec => EventsInOrder
<1>1. IInv /\ [Next]_vars => [InOrder]_<<saw, got>>
  <2> SUFFICES ASSUME IInv, Next
               PROVE  InOrder \/ UNCHANGED <<saw, got>>
    BY DEF vars
  <2>1. ASSUME NEW p \in Starts, SendStart(p)
        PROVE  InOrder
    <3>1. saw[p] = "nothing"
      BY <2>1 DEF IInv, TypeOK, CallerInv, SendStart, Goes, Silence
    <3>. QED
      BY <2>1, <3>1 DEF InOrder, SendStart, IInv, TypeOK
  <2>2. ASSUME NEW p \in Starts, SendEnd(p)
        PROVE  InOrder
    BY <2>2 DEF InOrder, SendEnd, IInv, TypeOK
  <2>3. ASSUME NEW p \in Starts, NEW s \in Streams, SendChunk(p, s)
        PROVE  InOrder
    <3>1. handler[p] \in {"waiting", "reaped"} /\ p \in here
      BY <2>3 DEF IInv, TypeOK, HandlerStates, HandlerInv, SendChunk, Reads, Silence, Drained
    <3>2. saw[p] = "start"
      BY <3>1 DEF IInv, CallerInv
    <3>. QED
      BY <2>3, <3>2 DEF InOrder, SendChunk, IInv, TypeOK
  <2>4. ASSUME NEW p \in Starts, Handle(p), ~SendStart(p), ~SendEnd(p)
        PROVE  UNCHANGED <<saw, got>>
    BY <2>4 DEF Handle, Spawn, Register, StartNotSent, Reap, CloseDone, Unlist, client
  <2>5. ASSUME NEW p \in Starts, Exit(p) \/ SendSignal(p) \/ Kill(p)
        PROVE  UNCHANGED <<saw, got>>
    BY <2>5 DEF Exit, SendSignal, Kill, Dies, client
  <2>6. ASSUME NEW p \in Starts, NEW s \in Streams, Pump(p, s) \/ Write(p, s), ~SendChunk(p, s)
        PROVE  UNCHANGED <<saw, got>>
    BY <2>6 DEF Pump, ReadChunk, ReadEnd, ChunkNotSent, Write, client
  <2>7. ASSUME NEW c \in Connectors, Follow(c)
        PROVE  UNCHANGED <<saw, got>>
    BY <2>7 DEF Follow, Connect, Greet, Tell, client
  <2>8. ASSUME NEW x \in Starts \cup Connectors, Leave(x)
        PROVE  UNCHANGED <<saw, got>>
    BY <2>8 DEF Leave
  <2>. QED
    BY <2>1, <2>2, <2>3, <2>4, <2>5, <2>6, <2>7, <2>8 DEF Next
<1>. QED
  BY <1>1, Invariance, PTL DEF Spec, EventsInOrder

-----------------------------------------------------------------------------
(* What FollowersAreTold and AbandonedIsCleared rest on: once a process has     *)
(* exited, its handler and its goroutines only go forward, and always can.       *)

DoneIsClosed == \A p \in Starts : handler[p] \in Drained => p \in done

LEMMA DoneInit == Init => DoneIsClosed
BY DEF Init, DoneIsClosed, Drained

LEMMA DoneStep == TypeOK /\ DoneIsClosed /\ [Next]_vars => DoneIsClosed'
<1> SUFFICES ASSUME TypeOK, DoneIsClosed, [Next]_vars PROVE DoneIsClosed'
  OBVIOUS
<1>1. ASSUME NEW p \in Starts, Handle(p) PROVE DoneIsClosed'
  <2>1. \A q \in Starts \ {p} : handler'[q] = handler[q]
    BY <1>1 DEF Handle, Spawn, Register, SendStart, StartNotSent, Reap, CloseDone, Unlist, SendEnd,
                Goes, TypeOK
  <2>2. done \subseteq done'
    BY <1>1 DEF Handle, Spawn, Register, SendStart, StartNotSent, Reap, CloseDone, Unlist, SendEnd,
                table
  <2>3. handler'[p] \in Drained => handler[p] \in Drained \/ p \in done'
    BY <1>1 DEF Handle, Spawn, Register, SendStart, StartNotSent, Reap, CloseDone, Unlist, SendEnd,
                Goes, TypeOK, Drained
  <2>. QED
    BY <2>1, <2>2, <2>3 DEF DoneIsClosed
<1>2. CASE UNCHANGED <<handler, done>>
  BY <1>2 DEF DoneIsClosed
<1>. QED
  BY <1>1, <1>2
     DEF Next, Exit, SendSignal, Kill, Dies, Pump, ReadChunk, ReadEnd, SendChunk, ChunkNotSent,
         Write, Follow, Connect, Greet, Tell, Leave, vars, table

\* The handler of an exited process is at a step that waits for nobody, or at
\* wg.Wait, and then the goroutines have stopped or one of them can go on: it holds
\* a chunk, or its pipe has one or has ended.
HandlerGoesOn(p) ==
  \/ handler[p] \in {"spawned", "listed", "waiting", "closed", "unlisted"}
  \/ /\ handler[p] = "reaped"
     /\ \/ \A s \in Streams : reader[p][s] = "stopped"
        \/ \E s \in Streams : reader[p][s] \in {"reading", "holding"}

LEMMA StreamShape ==
  ASSUME TypeOK, NEW p \in Starts, NEW s \in Streams
  PROVE  pipe[p][s] \in Nat /\ reader[p][s] \in {"none", "reading", "holding", "stopped"}
BY ChunksAssumption DEF TypeOK

\* Nobody waits in vain for a process that has exited: for its Done channel, which
\* is closed or will be, or for its entry to go.
NobodyWaitsInVain ==
  \A p \in Starts : process[p] = "exited" /\ ~LeftBehind(p) =>
    /\ p \in done \/ HandlerGoesOn(p)
    /\ p \in processes => HandlerGoesOn(p)

(* Whoever waits for an exited process that was not left behind waits for a
   handler that can go on. *)
THEOREM WaitsEnd == Spec => []NobodyWaitsInVain
<1>1. IInv /\ DoneIsClosed => NobodyWaitsInVain
  <2> SUFFICES ASSUME IInv, DoneIsClosed, NEW p \in Starts, process[p] = "exited", ~LeftBehind(p)
               PROVE  /\ p \in done \/ HandlerGoesOn(p)
                      /\ p \in processes => HandlerGoesOn(p)
    BY DEF NobodyWaitsInVain
  <2>1. handler[p] \in HandlerStates \ {"idle", "failed"}
    BY DEF IInv, TypeOK, HandlerInv, LeftBehind
  <2>2. CASE handler[p] = "reaped"
    <3>1. ASSUME NEW s \in Streams PROVE reader[p][s] \in {"reading", "holding", "stopped"}
      <4>1. reader[p][s] # "none"
        BY <2>2 DEF IInv, HandlerInv, Silence
      <4>2. TypeOK
        BY DEF IInv
      <4>. QED
        BY <4>1, <4>2, StreamShape
    <3>. QED
      BY <2>2, <3>1 DEF HandlerGoesOn
  <2>3. CASE handler[p] = "ended"
    BY <2>3 DEF DoneIsClosed, Drained, IInv, Tabled, Serving
  <2>. QED
    BY <2>1, <2>2, <2>3 DEF HandlerStates, HandlerGoesOn
<1>2. IInv => TypeOK
  BY DEF IInv
<1>3. Spec => []DoneIsClosed
  BY <1>2, DoneInit, DoneStep, Invariance, PTL DEF Spec
<1>. QED
  BY <1>1, <1>3, Invariance, PTL

Place == [idle |-> 0, spawned |-> 1, listed |-> 2, waiting |-> 3, reaped |-> 4, closed |-> 5,
          unlisted |-> 6, ended |-> 7, failed |-> 7]
Load == [none |-> 3, holding |-> 2, reading |-> 1, stopped |-> 0]

\* What there is left to do for a goroutine: two steps for a chunk in its pipe, one
\* for a chunk it holds, one to stop.
Left(p, s) == 2 * pipe[p][s] + Load[reader[p][s]]

WindsDown ==
  \A p \in Starts : process[p] = "exited" =>
    /\ process'[p] = "exited"
    /\ handler'[p] # handler[p] => Place[handler'[p]] > Place[handler[p]]
    /\ \A s \in Streams :
         pipe'[p][s] # pipe[p][s] \/ reader'[p][s] # reader[p][s] => Left(p, s)' < Left(p, s)

LEMMA HandlerWindsDown ==
  ASSUME IInv, TypeOK', NEW q \in Starts, Handle(q)
  PROVE  WindsDown
<1> SUFFICES ASSUME NEW p \in Starts, process[p] = "exited"
             PROVE  /\ process'[p] = "exited"
                    /\ handler'[p] # handler[p] => Place[handler'[p]] > Place[handler[p]]
                    /\ \A s \in Streams :
                         pipe'[p][s] # pipe[p][s] \/ reader'[p][s] # reader[p][s]
                           => Left(p, s)' < Left(p, s)
  BY DEF WindsDown
<1>0. TypeOK
  BY DEF IInv
<1>1. handler[p] # "idle"
  BY DEF IInv, HandlerInv
<1>2. process'[p] = "exited"
  BY <1>0, <1>1 DEF Handle, Spawn, Register, SendStart, StartNotSent, Reap, CloseDone, Unlist,
                    SendEnd, Goes, TypeOK
<1>3. handler'[p] # handler[p] => Place[handler'[p]] > Place[handler[p]]
  <2>1. \/ handler'[p] = handler[p]
        \/ <<handler[p], handler'[p]>> \in
             {<<"idle", "spawned">>, <<"idle", "failed">>, <<"spawned", "listed">>,
              <<"listed", "waiting">>, <<"listed", "failed">>, <<"waiting", "reaped">>,
              <<"reaped", "closed">>, <<"closed", "unlisted">>, <<"unlisted", "ended">>}
    BY <1>0 DEF Handle, Spawn, Register, SendStart, StartNotSent, Reap, CloseDone, Unlist,
                SendEnd, Goes, TypeOK
  <2>. QED
    BY <2>1 DEF Place
<1>4. ASSUME NEW s \in Streams, pipe'[p][s] # pipe[p][s] \/ reader'[p][s] # reader[p][s]
      PROVE  Left(p, s)' < Left(p, s)
  <2>0. /\ pipe[p][s] \in Nat /\ reader[p][s] \in {"none", "reading", "holding", "stopped"}
        /\ pipe'[p][s] \in Nat
    BY <1>0, ChunksAssumption DEF TypeOK
  <2>1. CASE SendStart(q)
    <3>1. p = q /\ handler[p] = "listed" /\ reader'[p][s] = "reading" /\ pipe'[p][s] = pipe[p][s]
      BY <1>0, <1>4, <2>1 DEF SendStart, Goes, TypeOK
    <3>2. reader[p][s] = "none"
      BY <3>1 DEF IInv, HandlerInv, Silence
    <3>. QED
      BY <2>0, <3>1, <3>2 DEF Left, Load
  <2>2. CASE Reap(q)
    <3>1. pipe'[p][s] = 0 /\ reader'[p][s] = reader[p][s] /\ pipe[p][s] # 0
      BY <1>0, <1>4, <2>2 DEF Reap, Silent, TypeOK
    <3>. QED
      BY <2>0, <3>1 DEF Left, Load
  <2>3. CASE ~SendStart(q) /\ ~Reap(q)
    BY <1>4, <2>3 DEF Handle, Spawn, Register, StartNotSent, CloseDone, Unlist, SendEnd, output
  <2>. QED
    BY <2>1, <2>2, <2>3
<1>. QED
  BY <1>2, <1>3, <1>4

LEMMA PumpWindsDown ==
  ASSUME TypeOK, TypeOK', NEW q \in Starts, NEW t \in Streams, Pump(q, t)
  PROVE  WindsDown
<1>1. UNCHANGED <<process, handler>>
  BY DEF Pump, ReadChunk, ReadEnd, SendChunk, ChunkNotSent
<1>2. ASSUME NEW p \in Starts, NEW s \in Streams,
             pipe'[p][s] # pipe[p][s] \/ reader'[p][s] # reader[p][s]
      PROVE  Left(p, s)' < Left(p, s)
  <2>1. pipe[p][s] \in Nat /\ p = q /\ s = t
    BY <1>2, StreamShape
       DEF Pump, ReadChunk, ReadEnd, SendChunk, ChunkNotSent, Reads, TypeOK
  <2>2. \/ /\ reader[p][s] = "reading" /\ reader'[p][s] = "holding"
           /\ pipe[p][s] > 0 /\ pipe'[p][s] = pipe[p][s] - 1
        \/ /\ pipe'[p][s] = pipe[p][s]
           /\ <<reader[p][s], reader'[p][s]>> \in
                {<<"reading", "stopped">>, <<"holding", "reading">>, <<"holding", "stopped">>}
    BY <2>1 DEF Pump, ReadChunk, ReadEnd, SendChunk, ChunkNotSent, Reads, TypeOK
  <2>. QED
    BY <2>1, <2>2 DEF Left, Load
<1>. QED
  BY <1>1, <1>2 DEF WindsDown

(* After a process has exited its handler and its goroutines only come nearer to
   their ends: the output left to forward never grows, every step on it counts. *)
THEOREM ExitWindsDown == Spec => [][WindsDown]_vars
<1>1. IInv /\ [Next]_vars /\ TypeOK' => [WindsDown]_vars
  <2> SUFFICES ASSUME IInv, Next, TypeOK' PROVE WindsDown
    OBVIOUS
  <2>0. TypeOK
    BY DEF IInv
  <2>1. ASSUME NEW q \in Starts, Handle(q) PROVE WindsDown
    BY <2>1, HandlerWindsDown
  <2>2. ASSUME NEW q \in Starts, NEW t \in Streams, Pump(q, t) PROVE WindsDown
    BY <2>0, <2>2, PumpWindsDown
  <2>3. ASSUME NEW q \in Starts, Dies(q) PROVE WindsDown
    BY <2>0, <2>3 DEF Dies, output, WindsDown, TypeOK
  <2>4. ASSUME NEW q \in Starts, NEW t \in Streams, Write(q, t) PROVE WindsDown
    <3>1. UNCHANGED <<handler, process, reader>> /\ process[q] = "running"
          /\ \A p \in Starts : p # q => pipe'[p] = pipe[p]
      BY <2>0, <2>4 DEF Write, TypeOK
    <3>. QED
      BY <3>1 DEF WindsDown
  <2>5. CASE UNCHANGED <<handler, process, pipe, reader>>
    BY <2>5 DEF WindsDown
  <2>. QED
    BY <2>1, <2>2, <2>3, <2>4, <2>5
       DEF Next, Exit, SendSignal, Kill, Follow, Connect, Greet, Tell, Leave, output
<1>2. IInv => TypeOK
  BY DEF IInv
<1>. QED
  BY <1>1, <1>2, Invariance, PTL DEF Spec
=============================================================================
