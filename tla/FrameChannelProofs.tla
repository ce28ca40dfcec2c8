-------------------------- MODULE FrameChannelProofs --------------------------
(***************************************************************************)
(* Frames have one owner, and only two ways to be lost, until a dequeue    *)
(* fails.                                                                  *)
(*                                                                         *)
(* The inductive invariant orders the frames in use: the one main sends is *)
(* older than all in the channel, which are in the order of their capture  *)
(* and older than the one of the camera thread.  No two of them are then   *)
(* the same, and what is allocated is theirs or was dropped.               *)
(***************************************************************************)
EXTENDS FrameChannel, SequenceTheorems, TLAPS

Holds == cam \in {"stamp", "clock", "send"}
Serves == main \in {"send", "free"}
Sound == failures = 0 /\ process = "running"

Numbers ==
  /\ cam \in {"select", "frame", "stamp", "clock", "send", "ended"}
  /\ main \in {"poll", "send", "free"}
  /\ frame \in 0..MaxFrames /\ taken \in 0..MaxFrames
  /\ channel \in Seq(FrameId) /\ Len(channel) <= ChannelSize
  /\ live \subseteq FrameId /\ spoilt \subseteq FrameId
  /\ process \in {"running", "crashed", "aborted", "killed", "exited"}
  /\ captured \in 0..MaxFrames /\ failures \in 0..MaxFailures
  /\ early \subseteq FrameId /\ unwatched \subseteq FrameId
  /\ sent \in 0..MaxFrames

Switches ==
  good \in BOOLEAN /\ connected \in BOOLEAN /\ polled \in BOOLEAN /\ active_ \in BOOLEAN

(* A frame that is timed or sent has an address, ...                       *)
Named == cam \in {"clock", "send"} => frame # 0

(* ... and a length, unless the dequeue failed.                            *)
Stamped ==
  /\ failures = 0 => spoilt = {}
  /\ failures = 0 /\ cam = "stamp" => good

Ordered ==
  /\ live \subseteq 1..captured
  /\ Holds => frame = captured /\ frame # 0 /\ sent < frame
  /\ \A i \in 1..Len(channel) :
       channel[i] <= captured /\ sent < channel[i] /\ (Holds => channel[i] < frame)
  /\ \A i, j \in 1..Len(channel) : i < j => channel[i] < channel[j]
  /\ Serves => /\ taken <= captured /\ (Holds => taken < frame)
               /\ \A i \in 1..Len(channel) : taken < channel[i]
  /\ main = "send" => sent < taken
  /\ sent <= captured

Owned ==
  /\ OfCamera \cup InChannel \cup OfMain \subseteq live
  /\ live \ (OfCamera \cup InChannel \cup OfMain) = early \cup unwatched

Inv ==
  /\ Numbers /\ Switches /\ Named /\ Stamped /\ DiesOnlyAfterFailure
  /\ Sound => Ordered /\ Owned

-----------------------------------------------------------------------------

LEMMA TypeOKSplit == TypeOK <=> Numbers /\ Switches
BY Zenon DEF TypeOK, Numbers, Switches

LEMMA InitInv == Init => Inv
<1> SUFFICES ASSUME Init PROVE Inv
  OBVIOUS
<1>1. Numbers
  BY ChannelAssumption DEF Init, Numbers, FrameId
<1>2. Switches
  BY Zenon DEF Init, Switches
<1>3. Named /\ Stamped /\ DiesOnlyAfterFailure
  BY Zenon DEF Init, Named, Stamped, DiesOnlyAfterFailure
<1>4. Ordered
  BY DEF Init, Ordered, Holds, Serves
<1>5. Owned
  BY DEF Init, Owned, OfCamera, OfMain, InChannel
<1> QED BY <1>1, <1>2, <1>3, <1>4, <1>5 DEF Inv

-----------------------------------------------------------------------------
(* The camera thread *)

LEMMA SelectInv == Inv /\ Select => Inv'
<1> SUFFICES ASSUME Inv, Select PROVE Inv'
  OBVIOUS
<1> USE DEF Select, Camera, proc, heap, server, history
<1>1. Numbers' /\ Named'
  BY DEF Inv, Numbers, Named
<1>2. Switches' /\ Stamped' /\ DiesOnlyAfterFailure'
  BY Zenon DEF Inv, Switches, Stamped, DiesOnlyAfterFailure
<1>3. Sound' => Ordered' /\ Owned'
  BY DEF Inv, Sound, Ordered, Owned, Holds, Serves, OfCamera, OfMain, InChannel
<1> QED BY <1>1, <1>2, <1>3 DEF Inv

LEMMA CaptureInv == Inv /\ Capture => Inv'
<1> SUFFICES ASSUME Inv, Capture PROVE Inv'
  OBVIOUS
<1> USE DEF Capture, Camera, proc, server
<1>1. Numbers' /\ Named'
  BY ChannelAssumption DEF Inv, Numbers, Named, FrameId
<1>2. Switches' /\ Stamped' /\ DiesOnlyAfterFailure'
  BY Zenon DEF Inv, Switches, Stamped, DiesOnlyAfterFailure
<1>3. ASSUME Sound' PROVE Ordered' /\ Owned'
  <2>1. Ordered /\ Owned
    BY <1>3 DEF Inv, Sound
  <2>2. /\ captured \in Nat /\ sent \in Nat /\ channel \in Seq(FrameId)
        /\ \A i \in 1..Len(channel) : channel[i] \in Nat
        /\ taken \in Nat
    <3>1. \A i \in 1..Len(channel) : channel[i] \in FrameId
      BY ElementOfSeq DEF Inv, Numbers
    <3> QED BY <3>1, ChannelAssumption DEF Inv, Numbers, FrameId
  <2>3. Ordered'
    BY <2>1, <2>2 DEF Ordered, Holds, Serves
  <2>4. frame' \notin live
    BY <2>1, <2>2 DEF Ordered
  <2>5. OfCamera = {} /\ OfCamera' = {frame'} /\ InChannel' = InChannel /\ OfMain' = OfMain
    BY DEF OfCamera, InChannel, OfMain
  <2>6. Owned'
    BY <2>1, <2>4, <2>5 DEF Owned
  <2> QED BY <2>3, <2>6
<1> QED BY <1>1, <1>2, <1>3 DEF Inv

LEMMA CaptureFailsInv == Inv /\ CaptureFails => Inv'
<1> SUFFICES ASSUME Inv, CaptureFails PROVE Inv'
  OBVIOUS
<1> USE DEF CaptureFails, Camera, proc, heap, server
<1>1. Numbers' /\ Named' /\ failures' # 0
  BY ChannelAssumption DEF Inv, Numbers, Named
<1>2. Switches' /\ Stamped'
  BY <1>1, Zenon DEF Inv, Switches, Stamped
<1>3. DiesOnlyAfterFailure' /\ ~Sound'
  BY <1>1 DEF DiesOnlyAfterFailure, Sound
<1> QED BY <1>1, <1>2, <1>3 DEF Inv

LEMMA StampInv == Inv /\ Stamp => Inv'
<1> SUFFICES ASSUME Inv, Stamp PROVE Inv'
  OBVIOUS
<1> USE DEF Stamp, Camera, proc, server, history
<1>1. spoilt' = spoilt \/ spoilt' = spoilt \cup {frame}
  BY Zenon
<1>2. Numbers' /\ Named'
  BY <1>1, ChannelAssumption DEF Inv, Numbers, Named, FrameId
<1>3. Switches' /\ DiesOnlyAfterFailure'
  BY Zenon DEF Inv, Switches, DiesOnlyAfterFailure
<1>4. Stamped'
  BY Zenon DEF Inv, Stamped
<1>5. Sound' => Ordered' /\ Owned'
  BY DEF Inv, Sound, Ordered, Owned, Holds, Serves, OfCamera, OfMain, InChannel
<1> QED BY <1>2, <1>3, <1>4, <1>5 DEF Inv

LEMMA StampFaultsInv == Inv /\ StampFaults => Inv'
<1> SUFFICES ASSUME Inv, StampFaults PROVE Inv'
  OBVIOUS
<1> USE DEF StampFaults, Camera, thread, proc, heap, server, history
<1>1. Numbers' /\ Named'
  BY DEF Inv, Numbers, Named
<1>2. Switches' /\ Stamped'
  BY Zenon DEF Inv, Switches, Stamped
<1>3. failures # 0
  BY DEF Inv, Sound, Owned, OfCamera
<1>4. DiesOnlyAfterFailure' /\ ~Sound'
  BY <1>1, <1>3 DEF Numbers, DiesOnlyAfterFailure, Sound
<1> QED BY <1>1, <1>2, <1>4 DEF Inv

LEMMA DueInv == Inv /\ Due => Inv'
<1> SUFFICES ASSUME Inv, Due PROVE Inv'
  OBVIOUS
<1> USE DEF Due, Camera, proc, heap, server, history
<1>1. Numbers' /\ Named'
  BY DEF Inv, Numbers, Named
<1>2. Switches' /\ Stamped' /\ DiesOnlyAfterFailure'
  BY Zenon DEF Inv, Switches, Stamped, DiesOnlyAfterFailure
<1>3. Sound' => Ordered' /\ Owned'
  BY DEF Inv, Sound, Ordered, Owned, Holds, Serves, OfCamera, OfMain, InChannel
<1> QED BY <1>1, <1>2, <1>3 DEF Inv

(* Two facts about frames in the order that tells owners apart.            *)
LEMMA Apart ==
  ASSUME Inv, Sound
  PROVE  /\ OfCamera \cap (InChannel \cup OfMain) = {} /\ InChannel \cap OfMain = {}
         /\ \A i, j \in 1..Len(channel) : i # j => channel[i] # channel[j]
<1>1. Ordered
  BY DEF Inv
<1>2. /\ frame \in Nat /\ taken \in Nat /\ Len(channel) \in Nat
      /\ \A i \in 1..Len(channel) : channel[i] \in Nat
  <2>1. channel \in Seq(FrameId)
    BY DEF Inv, Numbers
  <2>2. \A i \in 1..Len(channel) : channel[i] \in FrameId
    BY <2>1, ElementOfSeq
  <2> QED BY <2>1, <2>2, LenProperties DEF Inv, Numbers, FrameId
<1>3. \A i \in 1..Len(channel) : Holds => channel[i] # frame
  BY <1>1, <1>2 DEF Ordered
<1>4. Holds /\ Serves => taken # frame
  BY <1>1, <1>2 DEF Ordered
<1>5. \A i \in 1..Len(channel) : Serves => channel[i] # taken
  BY <1>1, <1>2 DEF Ordered
<1>6. \A i, j \in 1..Len(channel) : i # j => channel[i] # channel[j]
  <2> SUFFICES ASSUME NEW i \in 1..Len(channel), NEW j \in 1..Len(channel), i # j
               PROVE  channel[i] # channel[j]
    OBVIOUS
  <2>1. i < j \/ j < i
    BY <1>2
  <2>2. (i < j => channel[i] < channel[j]) /\ (j < i => channel[j] < channel[i])
    BY <1>1 DEF Ordered
  <2> QED BY <1>2, <2>1, <2>2
<1> QED BY <1>3, <1>4, <1>5, <1>6 DEF OfCamera, OfMain, InChannel, Holds, Serves

LEMMA TooEarlyInv == Inv /\ TooEarly => Inv'
<1> SUFFICES ASSUME Inv, TooEarly PROVE Inv'
  OBVIOUS
<1> USE DEF TooEarly, Camera, proc, heap, server
<1>1. Numbers' /\ Named'
  BY ChannelAssumption DEF Inv, Numbers, Named, FrameId
<1>2. Switches' /\ Stamped' /\ DiesOnlyAfterFailure'
  BY Zenon DEF Inv, Switches, Stamped, DiesOnlyAfterFailure
<1>3. ASSUME Sound' PROVE Ordered' /\ Owned'
  <2>1. Sound /\ Ordered /\ Owned
    BY <1>3 DEF Inv, Sound
  <2>2. Ordered'
    BY <2>1 DEF Ordered, Holds, Serves
  <2>3. OfCamera = {frame} /\ OfCamera' = {} /\ InChannel' = InChannel /\ OfMain' = OfMain
    BY DEF OfCamera, InChannel, OfMain
  <2>4. OfCamera \cap (InChannel \cup OfMain) = {}
    BY <2>1, Apart
  <2>5. Owned'
    BY <2>1, <2>3, <2>4 DEF Owned
  <2> QED BY <2>2, <2>5
<1> QED BY <1>1, <1>2, <1>3 DEF Inv

LEMMA SendInv == Inv /\ Send => Inv'
<1> SUFFICES ASSUME Inv, Send PROVE Inv'
  OBVIOUS
<1> USE DEF Send, Camera, proc, heap, server, history
<1>1. channel \in Seq(FrameId) /\ frame \in FrameId
  BY ChannelAssumption DEF Inv, Numbers, Named, FrameId
<1>2. /\ channel' \in Seq(FrameId) /\ Len(channel') = Len(channel) + 1
      /\ \A i \in 1..Len(channel) : channel'[i] = channel[i]
      /\ channel'[Len(channel) + 1] = frame
  BY <1>1, AppendProperties
<1>3. Len(channel) \in Nat
  BY <1>1, LenProperties
<1>4. Numbers' /\ Named'
  BY <1>1, <1>2, <1>3, ChannelAssumption DEF Inv, Numbers, Named, FrameId
<1>5. Switches' /\ Stamped' /\ DiesOnlyAfterFailure'
  BY Zenon DEF Inv, Switches, Stamped, DiesOnlyAfterFailure
<1>6. ASSUME Sound' PROVE Ordered' /\ Owned'
  <2>1. Ordered /\ Owned
    BY <1>6 DEF Inv, Sound
  <2>2. ~Holds' /\ Holds /\ Serves' = Serves
    BY DEF Holds, Serves
  <2>3. Ordered'
    <3> DEFINE n == Len(channel)
    <3>1. /\ frame = captured /\ sent < frame /\ captured \in Nat /\ sent \in Nat
          /\ taken \in Nat
          /\ \A i \in 1..n : channel[i] \in Nat /\ channel[i] < frame
      <4>1. \A i \in 1..n : channel[i] \in FrameId
        BY <1>1, ElementOfSeq
      <4> QED BY <2>1, <2>2, <4>1 DEF Ordered, Inv, Numbers, FrameId
    <3>2. \A i \in 1..Len(channel') : i = n + 1 \/ i \in 1..n
      BY <1>2, <1>3
    <3>3. \A i \in 1..Len(channel') :
            channel'[i] <= captured /\ sent < channel'[i]
      BY <1>2, <2>1, <3>1, <3>2 DEF Ordered
    <3>4. \A i, j \in 1..Len(channel') : i < j => channel'[i] < channel'[j]
      <4> SUFFICES ASSUME NEW i \in 1..Len(channel'), NEW j \in 1..Len(channel'), i < j
                   PROVE  channel'[i] < channel'[j]
        OBVIOUS
      <4>1. i \in 1..n
        BY <1>2, <1>3
      <4>2. CASE j \in 1..n
        BY <1>2, <2>1, <4>1, <4>2 DEF Ordered
      <4>3. CASE j = n + 1
        BY <1>2, <3>1, <4>1, <4>3
      <4> QED BY <3>2, <4>2, <4>3
    <3>5. Serves' => /\ taken <= captured
                     /\ \A i \in 1..Len(channel') : taken < channel'[i]
      BY <1>2, <2>1, <2>2, <3>1, <3>2 DEF Ordered
    <3>6. /\ live' = live /\ captured' = captured /\ sent' = sent
          /\ taken' = taken /\ main' = main
      OBVIOUS
    <3> QED BY <2>1, <2>2, <3>3, <3>4, <3>5, <3>6 DEF Ordered
  <2>4. InChannel' = InChannel \cup {frame}
    BY <1>2, <1>3 DEF InChannel
  <2>5. OfCamera = {frame} /\ OfCamera' = {} /\ OfMain' = OfMain
    BY DEF OfCamera, OfMain
  <2>6. Owned'
    BY <2>1, <2>4, <2>5 DEF Owned
  <2> QED BY <2>3, <2>6
<1> QED BY <1>4, <1>5, <1>6 DEF Inv

LEMMA SendFailsInv == Inv /\ SendFails => Inv'
<1> SUFFICES ASSUME Inv, SendFails PROVE Inv'
  OBVIOUS
<1> USE DEF SendFails, Camera, proc, server, history
<1>1. Numbers' /\ Named'
  BY DEF Inv, Numbers, Named
<1>2. Switches' /\ Stamped'
  BY Zenon DEF Inv, Switches, Stamped
<1>3. failures = 0 => frame \in live
  BY DEF Inv, Sound, Owned, OfCamera
<1>4. DiesOnlyAfterFailure'
  BY <1>3 DEF Inv, Numbers, DiesOnlyAfterFailure
<1>5. ASSUME Sound' PROVE Ordered' /\ Owned'
  <2>1. Sound /\ Ordered /\ Owned
    BY <1>5 DEF Inv, Sound
  <2>2. Ordered'
    BY <2>1 DEF Ordered, Holds, Serves
  <2>3. OfCamera = {frame} /\ OfCamera' = {} /\ InChannel' = InChannel /\ OfMain' = OfMain
    BY DEF OfCamera, InChannel, OfMain
  <2>4. OfCamera \cap (InChannel \cup OfMain) = {}
    BY <2>1, Apart
  <2>5. Owned'
    BY <2>1, <2>3, <2>4 DEF Owned
  <2> QED BY <2>2, <2>5
<1> QED BY <1>1, <1>2, <1>4, <1>5 DEF Inv

-----------------------------------------------------------------------------
(* The main thread *)

LEMMA RecvInv == Inv /\ Recv => Inv'
<1> SUFFICES ASSUME Inv, Recv PROVE Inv'
  OBVIOUS
<1> USE DEF Main, thread, heap, server
<1>1. /\ process = "running" /\ main = "poll" /\ channel # <<>>
      /\ taken' = Head(channel) /\ channel' = Tail(channel)
      /\ cam' = cam /\ frame' = frame /\ live' = live /\ spoilt' = spoilt
      /\ process' = process /\ captured' = captured /\ failures' = failures
      /\ early' = early /\ sent' = sent
      /\ \/ main' = "send" /\ unwatched' = unwatched
         \/ main' = "poll" /\ unwatched' = unwatched \cup {Head(channel)}
  BY Zenon DEF Recv
<1>2. channel \in Seq(FrameId) /\ Len(channel) \in Nat
  BY LenProperties DEF Inv, Numbers
<1>3. /\ Head(channel) \in FrameId /\ Head(channel) = channel[1] /\ Len(channel) # 0
      /\ Tail(channel) \in Seq(FrameId) /\ Len(Tail(channel)) = Len(channel) - 1
      /\ \A i \in 1..Len(Tail(channel)) : Tail(channel)[i] = channel[i + 1]
  BY <1>1, <1>2, EmptySeq, HeadTailProperties, ElementOfSeq
<1>4. Numbers' /\ Named'
  <2>1. Numbers
    BY DEF Inv
  <2>2. Len(channel') <= ChannelSize /\ channel' \in Seq(FrameId)
    BY <1>1, <1>2, <1>3, <2>1, ChannelAssumption DEF Numbers
  <2>3. taken' \in 0..MaxFrames
    BY <1>1, <1>3, ChannelAssumption DEF FrameId
  <2>4. unwatched' \subseteq FrameId /\ main' \in {"poll", "send", "free"}
    BY <1>1, <1>3, <2>1 DEF Numbers
  <2>5. Numbers'
    BY <1>1, <2>1, <2>2, <2>3, <2>4 DEF Numbers
  <2> QED BY <1>1, <2>5 DEF Inv, Named
<1>5. Switches' /\ Stamped' /\ DiesOnlyAfterFailure'
  BY Zenon DEF Recv, Inv, Switches, Stamped, DiesOnlyAfterFailure
<1>6. ASSUME Sound' PROVE Ordered' /\ Owned'
  <2>1. Sound /\ Ordered /\ Owned
    BY <1>1, <1>6 DEF Inv, Sound
  <2>2. \A i \in 1..Len(channel) : channel[i] \in Nat
    <3>1. \A i \in 1..Len(channel) : channel[i] \in FrameId
      BY <1>2, ElementOfSeq
    <3> QED BY <3>1 DEF FrameId
  <2>3. 1 \in 1..Len(channel)
    BY <1>2, <1>3
  <2>4. \A i \in 1..Len(channel') : i + 1 \in 1..Len(channel) /\ channel'[i] = channel[i + 1]
    BY <1>1, <1>2, <1>3
  <2>5. Ordered'
    <3>1. /\ live' \subseteq 1..captured'
          /\ (Holds => frame = captured /\ frame # 0 /\ sent < frame)'
          /\ (sent <= captured)'
      BY <1>1, <2>1 DEF Ordered, Holds
    <3>2. \A i \in 1..Len(channel') :
            /\ channel'[i] <= captured' /\ sent' < channel'[i]
            /\ Holds' => channel'[i] < frame'
      BY <1>1, <2>1, <2>4 DEF Ordered, Holds
    <3>3. \A i, j \in 1..Len(channel') : i < j => channel'[i] < channel'[j]
      BY <1>1, <1>2, <2>1, <2>4 DEF Ordered
    <3>4. taken' <= captured' /\ (Holds' => taken' < frame') /\ sent' < taken'
      BY <1>1, <1>3, <2>1, <2>3 DEF Ordered, Holds
    <3>5. \A i \in 1..Len(channel') : taken' < channel'[i]
      <4> SUFFICES ASSUME NEW i \in 1..Len(channel') PROVE taken' < channel'[i]
        OBVIOUS
      <4>1. 1 < i + 1
        OBVIOUS
      <4> QED BY <1>1, <1>3, <2>1, <2>3, <2>4, <4>1 DEF Ordered
    <3> QED BY <3>1, <3>2, <3>3, <3>4, <3>5 DEF Ordered
  <2>6. InChannel = InChannel' \cup {taken'} /\ OfMain = {} /\ OfCamera' = OfCamera
    <3>1. InChannel = InChannel' \cup {taken'}
      <4>1. \A k \in 1..Len(channel) :
              k = 1 \/ (k - 1 \in 1..Len(channel') /\ channel'[k - 1] = channel[k])
        BY <1>1, <1>2, <1>3
      <4> QED BY <1>1, <1>3, <2>3, <2>4, <4>1 DEF InChannel
    <3> QED BY <1>1, <3>1 DEF OfMain, OfCamera
  <2>7. taken' \notin InChannel' /\ taken' \notin OfCamera
    <3>1. taken' = channel[1] /\ \A i \in 1..Len(channel') : channel'[i] # channel[1]
      BY <1>1, <1>2, <1>3, <2>1, <2>3, <2>4, Apart
    <3>2. taken' \in InChannel
      BY <2>3, <3>1 DEF InChannel
    <3> QED BY <2>1, <3>1, <3>2, Apart DEF InChannel
  <2>8. Owned'
    <3>1. CASE main' = "send"
      <4>1. OfMain' = {taken'} /\ unwatched' = unwatched
        BY <1>1, <3>1 DEF OfMain
      <4> QED BY <1>1, <2>1, <2>6, <4>1 DEF Owned
    <3>2. CASE main' = "poll"
      <4>1. OfMain' = {} /\ unwatched' = unwatched \cup {taken'}
        BY <1>1, <3>2 DEF OfMain
      <4> QED BY <1>1, <2>1, <2>6, <2>7, <4>1 DEF Owned
    <3> QED BY <1>1, <3>1, <3>2
  <2> QED BY <2>5, <2>8
<1> QED BY <1>4, <1>5, <1>6 DEF Inv

LEMMA SendToClientInv == Inv /\ SendToClient => Inv'
<1> SUFFICES ASSUME Inv, SendToClient PROVE Inv'
  OBVIOUS
<1> USE DEF Main, thread, heap
<1>1. /\ process = "running" /\ main = "send" /\ sent' = taken /\ main' = "free"
      /\ taken' = taken /\ cam' = cam /\ frame' = frame /\ channel' = channel
      /\ live' = live /\ spoilt' = spoilt /\ process' = process /\ captured' = captured
      /\ failures' = failures /\ early' = early /\ unwatched' = unwatched
  BY Zenon DEF SendToClient
<1>2. Numbers' /\ Named'
  BY <1>1 DEF Inv, Numbers, Named
<1>3. Stamped' /\ DiesOnlyAfterFailure'
  BY Zenon DEF SendToClient, Inv, Stamped, DiesOnlyAfterFailure
<1>4. Switches'
  BY DEF SendToClient, Inv, Switches
<1>5. Sound' => Ordered' /\ Owned'
  BY <1>1 DEF Inv, Sound, Ordered, Owned, Holds, Serves, OfCamera, OfMain, InChannel
<1> QED BY <1>2, <1>3, <1>4, <1>5 DEF Inv

LEMMA FreeInv == Inv /\ Free => Inv'
<1> SUFFICES ASSUME Inv, Free PROVE Inv'
  OBVIOUS
<1> USE DEF Free, Main, thread, server, history
<1>1. Numbers' /\ Named'
  BY DEF Inv, Numbers, Named
<1>2. Switches' /\ Stamped'
  BY Zenon DEF Inv, Switches, Stamped
<1>3. failures = 0 => taken \in live
  BY DEF Inv, Sound, Owned, OfMain
<1>4. DiesOnlyAfterFailure'
  BY <1>3 DEF Inv, Numbers, DiesOnlyAfterFailure
<1>5. ASSUME Sound' PROVE Ordered' /\ Owned'
  <2>1. Sound /\ Ordered /\ Owned
    BY <1>5 DEF Inv, Sound
  <2>2. Ordered'
    BY <2>1 DEF Ordered, Holds, Serves
  <2>3. OfMain = {taken} /\ OfMain' = {} /\ InChannel' = InChannel /\ OfCamera' = OfCamera
    BY DEF OfCamera, InChannel, OfMain
  <2>4. OfMain \cap (InChannel \cup OfCamera) = {}
    BY <2>1, Apart
  <2>5. Owned'
    BY <2>1, <2>3, <2>4 DEF Owned
  <2> QED BY <2>2, <2>5
<1> QED BY <1>1, <1>2, <1>4, <1>5 DEF Inv

(* The steps that change neither frames nor their owners.                  *)
LEMMA OtherInv ==
  Inv /\ (SendKilled \/ Exit \/ ClientComesOrGoes \/ signal_handler \/ UNCHANGED vars) => Inv'
<1> SUFFICES ASSUME Inv,
                    SendKilled \/ Exit \/ ClientComesOrGoes \/ signal_handler \/ UNCHANGED vars
             PROVE  Inv'
  OBVIOUS
<1> USE DEF SendKilled, Exit, ClientComesOrGoes, signal_handler, Main, vars, thread, proc,
            heap, server, history
<1>1. /\ cam' = cam /\ main' = main /\ frame' = frame /\ taken' = taken
      /\ channel' = channel /\ live' = live /\ spoilt' = spoilt /\ captured' = captured
      /\ failures' = failures /\ early' = early /\ unwatched' = unwatched /\ sent' = sent
      /\ process' \in {process, "killed", "exited"}
  BY Zenon
<1>2. Numbers' /\ Named'
  BY <1>1 DEF Inv, Numbers, Named
<1>3. Switches'
  <2>1. good' = good /\ active_' \in {active_, FALSE} /\ connected' \in {connected, ~connected}
    BY Zenon
  <2>2. polled' \in {polled, FALSE}
    BY Zenon
  <2> QED BY <2>1, <2>2, Zenon DEF Inv, Switches
<1>4. Stamped'
  BY Zenon DEF Inv, Stamped
<1>5. DiesOnlyAfterFailure'
  BY <1>1, Zenon DEF Inv, DiesOnlyAfterFailure
<1>6. Sound' => Ordered' /\ Owned'
  BY <1>1 DEF Inv, Sound, Ordered, Owned, Holds, Serves, OfCamera, OfMain, InChannel
<1> QED BY <1>2, <1>3, <1>4, <1>5, <1>6 DEF Inv

LEMMA NextInv == Inv /\ [Next]_vars => Inv'
BY SelectInv, CaptureInv, CaptureFailsInv, StampInv, StampFaultsInv, DueInv, TooEarlyInv,
   SendInv, SendFailsInv, RecvInv, SendToClientInv, FreeInv, OtherInv, Zenon
   DEF Next, CameraStep, MainStep

LEMMA SpecInv == Spec => []Inv
BY InitInv, NextInv, PTL DEF Spec

-----------------------------------------------------------------------------

(* camera.c:43-114, main.c:126-167: the variables keep their types, and    *)
(* the channel never holds more than the socket pair.                      *)
THEOREM FrameTypeOK == Spec => []TypeOK
<1>1. Inv => TypeOK
  BY TypeOKSplit DEF Inv
<1> QED BY <1>1, SpecInv, PTL

(* camera.c:88-108, main.c:134-164: until a dequeue fails, no frame is     *)
(* used by two threads, or after it was freed, and no use of one is fatal. *)
THEOREM FrameOwnedUntilFailure == Spec => []OwnedUntilFailure
<1>1. Inv => OwnedUntilFailure
  <2> SUFFICES ASSUME Inv PROVE OneOwner /\ DiesOnlyAfterFailure
    BY DEF OwnedUntilFailure
  <2>1. DiesOnlyAfterFailure
    BY DEF Inv
  <2>2. ASSUME Sound PROVE OfCamera \cup InChannel \cup OfMain \subseteq live /\ spoilt = {}
    BY <2>2 DEF Inv, Owned, Stamped, Sound
  <2> QED BY <2>1, <2>2, Apart DEF OneOwner, Sound
<1> QED BY <1>1, SpecInv, PTL

(* camera.c:96, main.c:154-156: frames are lost only in the two places     *)
(* where the code drops them.                                              *)
THEOREM FrameLeaksExplained == Spec => []LeaksExplained
<1>1. Inv => LeaksExplained
  BY DEF Inv, Sound, Owned, LeaksExplained
<1> QED BY <1>1, SpecInv, PTL

(* camera.c:96-108, main.c:134-160: the frames a client gets are in the    *)
(* order of their capture, for any size of the channel.                    *)
THEOREM FrameSentInOrder == Spec => SentInOrder
<1>1. Inv /\ [Next]_vars => [SendToClient /\ failures = 0 => taken > sent]_vars
  <2> SUFFICES ASSUME Inv, SendToClient, failures = 0 PROVE taken > sent
    OBVIOUS
  <2>1. Sound /\ main = "send"
    BY DEF SendToClient, Main, Sound
  <2>2. sent < taken
    BY <2>1 DEF Inv, Ordered
  <2> QED BY <2>2 DEF Inv, Numbers
<1> QED BY <1>1, SpecInv, PTL DEF Spec, SentInOrder

-----------------------------------------------------------------------------
(* Who waits for whom: what SendGoesOn rests on beside fairness.           *)

(* The camera thread is in a send for which there is no room, and the      *)
(* event loop still comes to the other end of the channel.                 *)
Blocked == Camera("send") /\ Len(channel) = ChannelSize /\ polled

(* What main has to do before it is back in its loop with nothing to read. *)
MainRank ==
  3 * Len(channel) + (IF main = "send" THEN 2 ELSE IF main = "free" THEN 1 ELSE 0)

(* Main does not wait for the camera thread: it has a frame to read, to    *)
(* send or to free.                                                        *)
MainGoes == (Main("poll") /\ channel # <<>>) \/ Main("send") \/ Main("free")

(* Main is nearer to that, or the camera thread is no longer in the send,  *)
(* or the loop no longer comes to it, or the process has ended; the steps  *)
(* of others set main back by nothing.                                     *)
MainNearer ==
  \/ MainRank' < MainRank
  \/ cam' # "send" \/ ~polled' \/ process' # "running"
  \/ ~MainStep /\ MainRank' = MainRank

LEMMA BlockedMainGoes == ASSUME Inv PROVE Blocked => MainGoes
<1> SUFFICES ASSUME Blocked PROVE MainGoes
  OBVIOUS
<1>1. main \in {"poll", "send", "free"}
  BY DEF Inv, Numbers
<1>2. process = "running" /\ Len(channel) = ChannelSize
  BY DEF Blocked, Camera
<1>3. channel # <<>>
  BY <1>2, ChannelAssumption, EmptySeq
<1> QED BY <1>1, <1>2, <1>3 DEF MainGoes, Main

LEMMA BlockedStep == ASSUME Inv, Blocked, [Next]_vars PROVE MainNearer \/ UNCHANGED vars
<1>0. /\ channel \in Seq(FrameId) /\ Len(channel) \in Nat /\ Len(channel) = ChannelSize
      /\ cam = "send" /\ main \in {"poll", "send", "free"}
  BY LenProperties DEF Inv, Numbers, Blocked, Camera
<1>1. CASE CameraStep
  <2>1. SendFails
    BY <1>0, <1>1 DEF CameraStep, Camera, Select, Capture, CaptureFails, Stamp, StampFaults,
       Due, TooEarly, Send
  <2> QED BY <2>1 DEF SendFails, MainNearer
<1>2. CASE Recv
  <2>1. channel' = Tail(channel) /\ channel # <<>> /\ main = "poll" /\ main' \in {"poll", "send"}
    BY <1>2 DEF Recv, Main
  <2>2. Len(channel') = Len(channel) - 1
    BY <1>0, <2>1, HeadTailProperties, Zenon
  <2>3. MainRank' < MainRank
    BY <1>0, <2>1, <2>2 DEF MainRank
  <2> QED BY <2>3, Zenon DEF MainNearer
<1>3. CASE SendToClient
  <2>1. channel' = channel /\ main = "send" /\ main' = "free"
    BY <1>3 DEF SendToClient, Main
  <2>2. MainRank' < MainRank
    BY <1>0, <2>1 DEF MainRank
  <2> QED BY <2>2, Zenon DEF MainNearer
<1>4. CASE Free
  <2>1. channel' = channel /\ main = "free" /\ main' = "poll"
    BY <1>4 DEF Free, Main
  <2>2. MainRank' < MainRank
    BY <1>0, <2>1 DEF MainRank
  <2> QED BY <2>2, Zenon DEF MainNearer
<1>5. CASE SendKilled \/ Exit
  BY <1>5 DEF SendKilled, Exit, MainNearer
<1>6. CASE ClientComesOrGoes \/ signal_handler
  <2>1. channel' = channel /\ main' = main
    BY <1>6 DEF ClientComesOrGoes, signal_handler, proc
  <2>2. MainRank' = MainRank
    BY <2>1 DEF MainRank
  <2>3. CASE MainStep
    BY <1>2, <1>3, <1>4, <1>5, <2>3 DEF MainStep
  <2>4. CASE ~MainStep
    BY <2>2, <2>4, Zenon DEF MainNearer
  <2> QED BY <2>3, <2>4
<1> QED BY <1>1, <1>2, <1>3, <1>4, <1>5, <1>6, Zenon DEF Next, MainStep

(* camera.c:97, main.c:134-164: as long as the event loop comes to the     *)
(* poller of the channel, the two threads do not wait for each other:      *)
(* while the camera thread is blocked each step of main brings the next    *)
(* read nearer, and no other step puts it off.                             *)
THEOREM FrameSendNotInVain ==
  Spec => [](Blocked => MainGoes) /\ [][Blocked => MainNearer]_vars
<1>1. Inv => (Blocked => MainGoes)
  BY BlockedMainGoes
<1>2. Inv /\ [Next]_vars => [Blocked => MainNearer]_vars
  BY BlockedStep
<1> QED BY <1>1, <1>2, SpecInv, PTL DEF Spec
=============================================================================
