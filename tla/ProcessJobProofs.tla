-------------------------- MODULE ProcessJobProofs --------------------------
(* Proofs about ProcessJob for every value of its constants: any set of    *)
(* plugin outputs, any number of lines in flight, any cut of the           *)
(* transmission.                                                           *)
EXTENDS ProcessJob, TLAPS

-----------------------------------------------------------------------------
(* The data                                                                *)

(* Setting one property to a value of its own keeps the properties typed.  *)
LEMMA PropMapUpdate ==
  ASSUME NEW f \in PropMap, NEW p \in Props, NEW v \in ValuesOf(p)
  PROVE  [f EXCEPT ![p] = v] \in PropMap
<1> DEFINE g == [f EXCEPT ![p] = v]
<1>1. v \in Values
  BY DEF ValuesOf, Values, Props
<1>2. g \in [Props -> Values]
  BY <1>1 DEF PropMap
<1>3. \A q \in Props : g[q] \in ValuesOf(q)
  BY DEF PropMap
<1> QED
  BY <1>2, <1>3 DEF PropMap

(* What a Job is constructed with.                                         *)
LEMMA InitPropsTyped == InitProps \in PropMap
<1>1. 0 \in Percents
  BY ConstantsAssumption
<1>2. \A p \in Props : InitProps[p] \in ValuesOf(p)
  BY <1>1 DEF InitProps, ValuesOf, ErrorCodes, Props
<1>3. \A p \in Props : ValuesOf(p) \subseteq Values
  BY DEF ValuesOf, Values
<1>4. InitProps \in [Props -> Values]
  BY <1>2, <1>3 DEF InitProps
<1> QED
  BY <1>2, <1>4 DEF PropMap

(* A line about a property carries a value of that property.               *)
LEMMA LineValue ==
  ASSUME NEW m \in Line, m.prop \in Props
  PROVE  m.val \in ValuesOf(m.prop)
BY DEF Line, Garbage, Props

(* Reading removes one line at the front, *)
LEMMA TailLine ==
  ASSUME NEW s \in Seq(Line), Len(s) > 0
  PROVE  /\ Head(s) \in Line
         /\ Tail(s) \in Seq(Line)
         /\ Len(Tail(s)) = Len(s) - 1
         /\ \A i \in 1 .. Len(Tail(s)) : Tail(s)[i] = s[i + 1]
<1>1. s # <<>>
  BY Len(s) > 0
<1> QED
  BY <1>1

(* writing adds one at the end, *)
LEMMA AppendLine ==
  ASSUME NEW s \in Seq(Line), NEW m \in Line
  PROVE  /\ Append(s, m) \in Seq(Line)
         /\ Len(Append(s, m)) = Len(s) + 1
         /\ \A i \in 1 .. Len(s) : Append(s, m)[i] = s[i]
         /\ Append(s, m)[Len(s) + 1] = m
OBVIOUS

(* and the end of the process cuts off what it had not sent.               *)
LEMMA CutLines ==
  ASSUME NEW s \in Seq(Line), NEW n \in 0 .. Len(s)
  PROVE  /\ SubSeq(s, 1, n) \in Seq(Line)
         /\ Len(SubSeq(s, 1, n)) = n
         /\ n = Len(s) => SubSeq(s, 1, n) = s
<1>1. SubSeq(s, 1, n) \in Seq(Line) /\ Len(SubSeq(s, 1, n)) = n
  OBVIOUS
<1>2. n = Len(s) => SubSeq(s, 1, n) = s
  OBVIOUS
<1> QED
  BY <1>1, <1>2

-----------------------------------------------------------------------------
(* Type correctness                                                        *)

(* What the end of the process does to the variables it touches.           *)
LEMMA ExitTyped ==
  ASSUME TypeOK, NEW code \in {0, 1}, Exit(code)
  PROVE  /\ cpc' = "exited" /\ exitCode' = code
         /\ stream' \in Seq(Line) /\ Len(stream') = flushed
         /\ lost' \subseteq {"before_connect", "at_exit"}
         /\ lost \subseteq lost'
         /\ lost' = {} => lost = {} /\ stream' = stream
BY CutLines DEF Exit, TypeOK

(* One line of readSocket.                                                 *)
LEMMA ReadLineTyped ==
  ASSUME TypeOK, ReadLine
  PROVE  TypeOK'
<1>1. stream \in Seq(Line) /\ Len(stream) > 0 /\ flushed \in 1 .. Len(stream)
  BY DEF TypeOK, ReadLine
<1>2. /\ stream' \in Seq(Line)
      /\ flushed' \in 0 .. Len(stream')
  BY <1>1, TailLine DEF ReadLine
<1>3. mirror' \in PropMap
  <2>1. CASE Head(stream).prop \in Props
    BY <1>1, <2>1, TailLine, LineValue, PropMapUpdate DEF ReadLine, TypeOK
  <2>2. CASE Head(stream).prop \notin Props
    BY <2>2 DEF ReadLine, TypeOK
  <2> QED
    BY <2>1, <2>2
<1> QED
  BY <1>2, <1>3 DEF ReadLine, TypeOK, childVars, exe

(* start() of the plugin's job.                                            *)
LEMMA RunPluginTyped ==
  ASSUME TypeOK, RunPlugin
  PROVE  TypeOK'
BY DEF RunPlugin, TypeOK, hostVars, socketVars, exe

LEMMA InitTyped == Init => TypeOK
BY InitPropsTyped, ConstantsAssumption DEF Init, TypeOK

LEMMA TypeStep == TypeOK /\ SocketOrder /\ [Next]_vars => TypeOK'
<1> SUFFICES ASSUME TypeOK, SocketOrder, [Next]_vars
             PROVE  TypeOK'
  OBVIOUS
<1> USE ConstantsAssumption DEF hostVars, socketVars, childVars, exe
<1>1. CASE Start
  BY <1>1 DEF Start, TypeOK
<1>2. CASE ProcessUp
  BY <1>2 DEF ProcessUp, TypeOK
<1>3. CASE FailedToStart
  BY <1>3 DEF FailedToStart, EnterDrain, TypeOK
<1>4. CASE WriteSocket
  BY <1>4 DEF WriteSocket, SocketOrder, TypeOK
<1>5. CASE SendRest
  BY <1>5 DEF SendRest, TypeOK
<1>6. CASE ReadSocket
  BY <1>6, ReadLineTyped DEF ReadSocket
<1>7. CASE ProcessStateChanged
  BY <1>7 DEF ProcessStateChanged, EnterDrain, TypeOK
<1>8. CASE Drain
  BY <1>8, ReadLineTyped DEF Drain
<1>9. CASE EmitResult
  BY <1>9 DEF EmitResult, Draining, TypeOK
<1>10. CASE Destroy
  <2>1. CASE proc = "NotRunning" \/ cpc = "exited"
    BY <1>10, <2>1 DEF Destroy, EnterDrain, TypeOK
  <2>2. CASE proc # "NotRunning" /\ cpc # "exited"
    <3>1. Exit(1)
      BY <1>10, <2>2 DEF Destroy
    <3> QED
      BY <1>10, <2>2, <3>1, ExitTyped DEF Destroy, EnterDrain, TypeOK
  <2> QED
    BY <2>1, <2>2
<1>11. CASE Connect
  BY <1>11 DEF Connect, TypeOK
<1>12. CASE ReadHeader
  BY <1>12 DEF ReadHeader, TypeOK
<1>13. CASE ReadPayload
  BY <1>13 DEF ReadPayload, TypeOK
<1>14. CASE StartPlugin
  BY <1>14, RunPluginTyped DEF StartPlugin
<1>15. CASE NoPlugin
  BY <1>15, ExitTyped DEF NoPlugin, TypeOK
<1>16. CASE ReadTimeout
  <2>1. CASE Exit(1) /\ UNCHANGED <<hostVars, conn, delivered, flushed, exe, pos,
                                   cjob, child>>
    BY <2>1, ExitTyped DEF TypeOK
  <2> QED
    BY <1>16, <2>1, RunPluginTyped DEF ReadTimeout
<1>17. CASE ReportChange
  <2>1. PICK p \in Props : \E v \in ValuesOf(p) :
          /\ child' = [child EXCEPT ![p] = v]
          /\ stream' = Append(stream, [prop |-> p, val |-> v])
    BY <1>17 DEF ReportChange, Send
  <2>2. PICK v \in ValuesOf(p) :
          /\ child' = [child EXCEPT ![p] = v]
          /\ stream' = Append(stream, [prop |-> p, val |-> v])
    BY <2>1
  <2>3. [prop |-> p, val |-> v] \in Line
    BY DEF Line, Values, ValuesOf
  <2>4. child' \in PropMap
    BY <2>2, PropMapUpdate DEF TypeOK
  <2>5. stream' \in Seq(Line) /\ flushed \in 0 .. Len(stream')
    BY <2>2, <2>3, AppendLine DEF TypeOK
  <2> QED
    BY <1>17, <2>4, <2>5 DEF ReportChange, TypeOK
<1>18. CASE ReportResult
  <2>1. PICK e \in ErrorCodes :
          /\ child' = [child EXCEPT !["error"] = e]
          /\ stream' = Append(stream, [prop |-> "error", val |-> e])
    BY <1>18 DEF ReportResult, Send
  <2>2. "error" \in Props /\ e \in ValuesOf("error")
    BY DEF Props, ValuesOf
  <2>3. [prop |-> "error", val |-> e] \in Line
    BY <2>2 DEF Line, Values
  <2>4. child' \in PropMap
    BY <2>1, <2>2, PropMapUpdate DEF TypeOK
  <2>5. stream' \in Seq(Line) /\ flushed \in 0 .. Len(stream')
    BY <2>1, <2>3, AppendLine DEF TypeOK
  <2> QED
    BY <1>18, <2>4, <2>5 DEF ReportResult, TypeOK
<1>19. CASE Flush
  BY <1>19 DEF Flush, TypeOK
<1>20. CASE Quit
  BY <1>20, ExitTyped DEF Quit, TypeOK
<1>21. CASE ScriptConnect
  BY <1>21 DEF ScriptConnect, TypeOK
<1>22. CASE ScriptWrite
  <2>1. PICK m \in Line :
          /\ stream' = Append(stream, m)
          /\ child' = IF m.prop \in Props THEN [child EXCEPT ![m.prop] = m.val]
                                          ELSE child
    BY <1>22 DEF ScriptWrite, Send
  <2>2. child' \in PropMap
    BY <2>1, LineValue, PropMapUpdate DEF TypeOK
  <2>3. stream' \in Seq(Line) /\ flushed + 1 \in 0 .. Len(stream')
    BY <2>1, AppendLine DEF TypeOK
  <2> QED
    BY <1>22, <2>2, <2>3 DEF ScriptWrite, TypeOK
<1>23. CASE ScriptExit
  BY <1>23, ExitTyped DEF ScriptExit, TypeOK
<1>24. CASE Crash
  BY <1>24, ExitTyped DEF Crash, TypeOK
<1>25. CASE UNCHANGED vars
  BY <1>25 DEF TypeOK, vars
<1> QED
  BY <1>1, <1>2, <1>3, <1>4, <1>5, <1>6, <1>7, <1>8, <1>9, <1>10, <1>11, <1>12,
     <1>13, <1>14, <1>15, <1>16, <1>17, <1>18, <1>19, <1>20, <1>21, <1>22,
     <1>23, <1>24, <1>25 DEF Next, Host, PurposeProcess, Script

-----------------------------------------------------------------------------
(* The control part of the invariant                                       *)

Control == /\ QuietBeforePlugin /\ SocketOrder /\ NothingAfterExit
           /\ ResultAfterExit /\ PayloadComplete

LEMMA InitControl == Init => Control
BY DEF Init, Control, QuietBeforePlugin, SocketOrder, NothingAfterExit,
       ResultAfterExit, PayloadComplete, Draining, Alive, Library

LEMMA ControlStep == TypeOK /\ Control /\ [Next]_vars => Control'
<1> SUFFICES ASSUME TypeOK, Control, [Next]_vars
             PROVE  Control'
  OBVIOUS
<1> USE ConstantsAssumption
    DEF hostVars, socketVars, childVars, exe, Control, QuietBeforePlugin,
        SocketOrder, NothingAfterExit, ResultAfterExit, PayloadComplete,
        Draining, Alive, Library, TypeOK
<1>1. CASE Start
  BY <1>1 DEF Start
<1>2. CASE ProcessUp
  BY <1>2 DEF ProcessUp
<1>3. CASE FailedToStart
  BY <1>3 DEF FailedToStart, EnterDrain
<1>4. CASE WriteSocket
  BY <1>4 DEF WriteSocket
<1>5. CASE SendRest
  BY <1>5 DEF SendRest
<1>6. CASE ReadSocket
  BY <1>6, ReadLineTyped DEF ReadSocket, ReadLine
<1>7. CASE ProcessStateChanged
  BY <1>7 DEF ProcessStateChanged, EnterDrain
<1>8. CASE Drain
  BY <1>8, ReadLineTyped DEF Drain, ReadLine
<1>9. CASE EmitResult
  BY <1>9 DEF EmitResult
<1>10. CASE Destroy
  <2>1. CASE proc = "NotRunning" \/ cpc = "exited"
    BY <1>10, <2>1 DEF Destroy, EnterDrain
  <2>2. CASE proc # "NotRunning" /\ cpc # "exited"
    <3>1. Exit(1)
      BY <1>10, <2>2 DEF Destroy
    <3> QED
      BY <1>10, <2>2, <3>1, ExitTyped DEF Destroy, EnterDrain
  <2> QED
    BY <2>1, <2>2
<1>11. CASE Connect
  BY <1>11 DEF Connect
<1>12. CASE ReadHeader
  BY <1>12 DEF ReadHeader
<1>13. CASE ReadPayload
  BY <1>13 DEF ReadPayload
<1>14. CASE StartPlugin
  BY <1>14 DEF StartPlugin, RunPlugin
<1>15. CASE NoPlugin
  BY <1>15, ExitTyped DEF NoPlugin
<1>16. CASE ReadTimeout
  <2>1. CASE Exit(1) /\ UNCHANGED <<hostVars, conn, delivered, flushed, exe, pos,
                                   cjob, child>>
    BY <1>16, <2>1, ExitTyped DEF ReadTimeout
  <2>2. CASE ~asserts /\ RunPlugin
    BY <1>16, <2>2 DEF ReadTimeout, RunPlugin
  <2> QED
    BY <1>16, <2>1, <2>2 DEF ReadTimeout
<1>17. CASE ReportChange
  BY <1>17 DEF ReportChange, JobRunning, Send
<1>18. CASE ReportResult
  BY <1>18 DEF ReportResult, JobRunning, Send
<1>19. CASE Flush
  BY <1>19 DEF Flush
<1>20. CASE Quit
  BY <1>20, ExitTyped DEF Quit
<1>21. CASE ScriptConnect
  BY <1>21 DEF ScriptConnect
<1>22. CASE ScriptWrite
  BY <1>22 DEF ScriptWrite, Send
<1>23. CASE ScriptExit
  BY <1>23, ExitTyped DEF ScriptExit
<1>24. CASE Crash
  BY <1>24, ExitTyped DEF Crash
<1>25. CASE UNCHANGED vars
  BY <1>25 DEF vars
<1> QED
  BY <1>1, <1>2, <1>3, <1>4, <1>5, <1>6, <1>7, <1>8, <1>9, <1>10, <1>11, <1>12,
     <1>13, <1>14, <1>15, <1>16, <1>17, <1>18, <1>19, <1>20, <1>21, <1>22,
     <1>23, <1>24, <1>25 DEF Next, Host, PurposeProcess, Script

-----------------------------------------------------------------------------
(* The socket as a queue of assignments                                    *)

(* Reading a line moves it from what is to be read to what is shown.       *)
LEMMA ReadKeeps ==
  ASSUME NEW s \in Seq(Line), Len(s) > 0, NEW shown \in PropMap, NEW told,
         CatchesUp(s, shown, told)
  PROVE  CatchesUp(Tail(s),
                   IF Head(s).prop \in Props
                     THEN [shown EXCEPT ![Head(s).prop] = Head(s).val]
                     ELSE shown,
                   told)
<1> DEFINE now == IF Head(s).prop \in Props
                    THEN [shown EXCEPT ![Head(s).prop] = Head(s).val]
                    ELSE shown
           t == Tail(s)
<1>1. /\ Len(t) \in Nat /\ Len(s) = Len(t) + 1
      /\ Head(s) = s[1]
      /\ \A i \in 1 .. Len(t) : t[i] = s[i + 1]
  BY TailLine
<1> SUFFICES ASSUME NEW p \in Props
             PROVE  /\ (\A i \in 1 .. Len(t) : t[i].prop # p) => now[p] = told[p]
                    /\ \A i \in 1 .. Len(t) :
                         /\ t[i].prop = p
                         /\ \A j \in i + 1 .. Len(t) : t[j].prop # p
                         => t[i].val = told[p]
  BY DEF CatchesUp
<1>2. \A i \in 1 .. Len(s) :
        s[i].prop = p /\ (\A j \in i + 1 .. Len(s) : s[j].prop # p)
          => s[i].val = told[p]
  BY DEF CatchesUp
<1>3. ASSUME \A i \in 1 .. Len(t) : t[i].prop # p
      PROVE  now[p] = told[p]
  <2>1. \A j \in 2 .. Len(s) : s[j].prop # p
    <3> TAKE j \in 2 .. Len(s)
    <3>1. j - 1 \in 1 .. Len(t) /\ t[j - 1] = s[j]
      BY <1>1
    <3> QED
      BY <3>1, <1>3
  <2>2. CASE s[1].prop = p
    <3>1. s[1].val = told[p]
      BY <1>1, <1>2, <2>1, <2>2
    <3>2. now[p] = s[1].val
      BY <1>1, <2>2 DEF PropMap
    <3> QED
      BY <3>1, <3>2
  <2>3. CASE s[1].prop # p
    <3>1. \A j \in 1 .. Len(s) : s[j].prop # p
      BY <1>1, <2>1, <2>3
    <3>2. shown[p] = told[p]
      BY <3>1 DEF CatchesUp
    <3>3. now[p] = shown[p]
      BY <1>1, <2>3 DEF PropMap
    <3> QED
      BY <3>2, <3>3
  <2> QED
    BY <2>2, <2>3
<1>4. ASSUME NEW i \in 1 .. Len(t), t[i].prop = p,
             \A j \in i + 1 .. Len(t) : t[j].prop # p
      PROVE  t[i].val = told[p]
  <2>1. i + 1 \in 1 .. Len(s) /\ s[i + 1] = t[i]
    BY <1>1
  <2>2. ASSUME NEW j \in (i + 1) + 1 .. Len(s) PROVE s[j].prop # p
    <3>1. j - 1 \in i + 1 .. Len(t) /\ j - 1 \in 1 .. Len(t)
      BY <1>1
    <3>2. t[j - 1] = s[j]
      BY <1>1, <3>1
    <3> QED
      BY <3>1, <3>2, <1>4
  <2> QED
    BY <1>2, <1>4, <2>1, <2>2
<1> QED
  BY <1>3, <1>4

(* Writing a line keeps the queue in step with what the plugin told.       *)
LEMMA WriteKeeps ==
  ASSUME NEW s \in Seq(Line), NEW m \in Line, NEW shown, NEW told \in PropMap,
         CatchesUp(s, shown, told)
  PROVE  CatchesUp(Append(s, m), shown,
                   IF m.prop \in Props THEN [told EXCEPT ![m.prop] = m.val]
                                       ELSE told)
<1> DEFINE now == IF m.prop \in Props THEN [told EXCEPT ![m.prop] = m.val]
                                      ELSE told
           t == Append(s, m)
<1>1. /\ Len(s) \in Nat /\ Len(t) = Len(s) + 1
      /\ t[Len(t)] = m
      /\ \A i \in 1 .. Len(s) : t[i] = s[i]
  BY AppendLine
<1>2. Len(t) \in 1 .. Len(t)
  BY <1>1
<1> SUFFICES ASSUME NEW p \in Props
             PROVE  /\ (\A i \in 1 .. Len(t) : t[i].prop # p) => shown[p] = now[p]
                    /\ \A i \in 1 .. Len(t) :
                         /\ t[i].prop = p
                         /\ \A j \in i + 1 .. Len(t) : t[j].prop # p
                         => t[i].val = now[p]
  BY DEF CatchesUp
<1>3. m.prop = p => now[p] = m.val
  BY DEF PropMap
<1>4. m.prop # p => now[p] = told[p]
  BY DEF PropMap
<1>5. ASSUME \A i \in 1 .. Len(t) : t[i].prop # p
      PROVE  shown[p] = now[p]
  <2>1. \A i \in 1 .. Len(s) : s[i].prop # p
    BY <1>1, <1>5
  <2>2. shown[p] = told[p]
    BY <2>1 DEF CatchesUp
  <2> QED
    BY <1>1, <1>2, <1>4, <1>5, <2>2
<1>6. ASSUME NEW i \in 1 .. Len(t), t[i].prop = p,
             \A j \in i + 1 .. Len(t) : t[j].prop # p
      PROVE  t[i].val = now[p]
  <2>1. CASE i = Len(t)
    BY <1>1, <1>3, <1>6, <2>1
  <2>2. CASE i # Len(t)
    <3>1. i \in 1 .. Len(s) /\ Len(t) \in i + 1 .. Len(t)
      BY <1>1, <2>2
    <3>2. m.prop # p
      BY <1>1, <1>6, <3>1
    <3>3. \A j \in i + 1 .. Len(s) : s[j].prop # p
      BY <1>1, <1>6, <3>1
    <3>4. s[i].val = told[p]
      BY <1>1, <1>6, <3>1, <3>3 DEF CatchesUp
    <3> QED
      BY <1>1, <1>4, <3>1, <3>2, <3>4
  <2> QED
    BY <2>1, <2>2
<1> QED
  BY <1>5, <1>6

(* With nothing in between, both sides show the same.                      *)
LEMMA EmptyCatchesUp ==
  ASSUME NEW f \in PropMap
  PROVE  CatchesUp(<<>>, f, f)
BY DEF CatchesUp

LEMMA CaughtUp ==
  ASSUME NEW shown \in PropMap, NEW told \in PropMap, CatchesUp(<<>>, shown, told)
  PROVE  shown = told
<1>1. \A p \in Props : shown[p] = told[p]
  BY DEF CatchesUp
<1> QED
  BY <1>1 DEF PropMap

-----------------------------------------------------------------------------
(* The mirror part of the invariant                                        *)

LEMMA InitMirror == Init => MirrorCatchesUp
BY InitPropsTyped, EmptyCatchesUp DEF Init, MirrorCatchesUp

(* A step that neither reads, writes nor changes a property.               *)
LEMMA MirrorUntouched ==
  ASSUME MirrorCatchesUp, lost' = {} => lost = {} /\ stream' = stream,
         UNCHANGED <<mirror, child>>
  PROVE  MirrorCatchesUp'
BY DEF MirrorCatchesUp

LEMMA MirrorReadLine ==
  ASSUME TypeOK, MirrorCatchesUp, ReadLine
  PROVE  MirrorCatchesUp'
<1> SUFFICES ASSUME lost = {}
             PROVE  CatchesUp(stream', mirror', child)
  BY DEF MirrorCatchesUp, ReadLine, childVars
<1>1. stream \in Seq(Line) /\ Len(stream) > 0 /\ mirror \in PropMap
  BY DEF TypeOK, ReadLine
<1> QED
  BY <1>1, ReadKeeps DEF MirrorCatchesUp, ReadLine

(* The plugin starts unheard: harmless only if it has changed nothing yet. *)
LEMMA MirrorRunPlugin ==
  ASSUME QuietBeforePlugin, cpc \in {"header", "payload"}, RunPlugin
  PROVE  MirrorCatchesUp'
<1> SUFFICES ASSUME lost' = {}
             PROVE  CatchesUp(stream', mirror', child')
  BY DEF MirrorCatchesUp
<1>1. child' = InitProps
  BY DEF RunPlugin
<1>2. stream' = <<>> /\ mirror' = InitProps
  BY DEF RunPlugin, QuietBeforePlugin, hostVars, socketVars
<1> QED
  BY <1>1, <1>2, EmptyCatchesUp, InitPropsTyped

LEMMA MirrorSend ==
  ASSUME TypeOK, MirrorCatchesUp, NEW m \in Line, Send(m),
         child' = IF m.prop \in Props THEN [child EXCEPT ![m.prop] = m.val]
                                      ELSE child,
         UNCHANGED <<mirror, lost>>
  PROVE  MirrorCatchesUp'
<1> SUFFICES ASSUME lost = {}
             PROVE  CatchesUp(stream', mirror, child')
  BY DEF MirrorCatchesUp
<1>1. stream \in Seq(Line) /\ child \in PropMap
  BY DEF TypeOK
<1> QED
  BY <1>1, WriteKeeps DEF MirrorCatchesUp, Send

LEMMA MirrorStep ==
  TypeOK /\ Control /\ MirrorCatchesUp /\ [Next]_vars => MirrorCatchesUp'
<1> SUFFICES ASSUME TypeOK, Control, MirrorCatchesUp, [Next]_vars
             PROVE  MirrorCatchesUp'
  OBVIOUS
<1> USE DEF hostVars, socketVars, childVars, exe
<1>1. CASE \/ Start \/ ProcessUp \/ FailedToStart \/ WriteSocket \/ SendRest
           \/ ProcessStateChanged \/ EmitResult
  BY <1>1, MirrorUntouched
     DEF Start, ProcessUp, FailedToStart, WriteSocket, SendRest,
         ProcessStateChanged, EmitResult
<1>2. CASE ReadSocket \/ Drain
  BY <1>2, MirrorReadLine DEF ReadSocket, Drain
<1>3. CASE Destroy
  <2>1. CASE proc = "NotRunning" \/ cpc = "exited"
    BY <1>3, <2>1, MirrorUntouched DEF Destroy
  <2>2. CASE proc # "NotRunning" /\ cpc # "exited"
    <3>1. Exit(1) /\ UNCHANGED <<mirror, child>>
      BY <1>3, <2>2 DEF Destroy
    <3> QED
      BY <3>1, ExitTyped, MirrorUntouched
  <2> QED
    BY <2>1, <2>2
<1>4. CASE Connect \/ ReadHeader \/ ReadPayload \/ Flush \/ ScriptConnect
  BY <1>4, MirrorUntouched
     DEF Connect, ReadHeader, ReadPayload, Flush, ScriptConnect
<1>5. CASE StartPlugin
  BY <1>5, MirrorRunPlugin DEF StartPlugin, Control
<1>6. CASE NoPlugin \/ Quit \/ ScriptExit \/ Crash
  <2>1. PICK code \in {0, 1} : Exit(code) /\ UNCHANGED <<mirror, child>>
    BY <1>6 DEF NoPlugin, Quit, ScriptExit, Crash
  <2> QED
    BY <2>1, ExitTyped, MirrorUntouched
<1>7. CASE ReadTimeout
  <2>1. CASE RunPlugin
    BY <1>7, <2>1, MirrorRunPlugin DEF ReadTimeout, Control
  <2>2. CASE Exit(1) /\ UNCHANGED <<hostVars, conn, delivered, flushed, exe, pos,
                                   cjob, child>>
    BY <2>2, ExitTyped, MirrorUntouched
  <2> QED
    BY <1>7, <2>1, <2>2 DEF ReadTimeout
<1>8. CASE ReportChange
  <2>1. PICK p \in Props : \E v \in ValuesOf(p) :
          child' = [child EXCEPT ![p] = v] /\ Send([prop |-> p, val |-> v])
    BY <1>8 DEF ReportChange
  <2>2. PICK v \in ValuesOf(p) :
          child' = [child EXCEPT ![p] = v] /\ Send([prop |-> p, val |-> v])
    BY <2>1
  <2>3. [prop |-> p, val |-> v] \in Line
    BY DEF Line, Values, ValuesOf
  <2> QED
    BY <1>8, <2>2, <2>3, MirrorSend DEF ReportChange
<1>9. CASE ReportResult
  <2>1. PICK e \in ErrorCodes :
          /\ child' = [child EXCEPT !["error"] = e]
          /\ Send([prop |-> "error", val |-> e])
    BY <1>9 DEF ReportResult
  <2>2. "error" \in Props /\ e \in ValuesOf("error")
    BY DEF Props, ValuesOf
  <2>3. [prop |-> "error", val |-> e] \in Line
    BY <2>2 DEF Line, Values
  <2> QED
    BY <1>9, <2>1, <2>2, <2>3, MirrorSend DEF ReportResult
<1>10. CASE ScriptWrite
  BY <1>10, MirrorSend DEF ScriptWrite
<1>11. CASE UNCHANGED vars
  BY <1>11, MirrorUntouched DEF vars
<1> QED
  BY <1>1, <1>2, <1>3, <1>4, <1>5, <1>6, <1>7, <1>8, <1>9, <1>10, <1>11
     DEF Next, Host, PurposeProcess, Script

-----------------------------------------------------------------------------
(* The theorems                                                            *)

LEMMA InitInvariant == Init => IInv
BY InitTyped, InitControl, InitMirror DEF IInv, Control

LEMMA StepInvariant == IInv /\ [Next]_vars => IInv'
<1> SUFFICES ASSUME IInv, [Next]_vars
             PROVE  IInv'
  OBVIOUS
<1>1. TypeOK /\ Control /\ MirrorCatchesUp
  BY DEF IInv, Control
<1>2. TypeOK'
  BY <1>1, TypeStep DEF Control
<1>3. Control'
  BY <1>1, ControlStep
<1>4. MirrorCatchesUp'
  BY <1>1, MirrorStep
<1> QED
  BY <1>2, <1>3, <1>4 DEF IInv, Control

(* The inductive invariant of host, socket and process.                    *)
THEOREM Invariant == Spec => []IInv
<1> QED
  BY InitInvariant, StepInvariant, PTL DEF Spec

(* Every variable keeps its type: in particular the process never reads    *)
(* past what the host wrote, and the host never reads a line that is still *)
(* in the process (pos <= delivered, flushed <= Len(stream)).              *)
THEOREM TypeCorrect == Spec => []TypeOK
<1>1. IInv => TypeOK
  BY DEF IInv
<1> QED
  BY <1>1, Invariant, PTL

(* A library plugin's job is created only from the whole payload, for any  *)
(* number of pieces the transmission is cut into.                          *)
THEOREM PluginHasItsArguments == Spec => []PayloadComplete
<1>1. IInv => PayloadComplete
  BY DEF IInv
<1> QED
  BY <1>1, Invariant, PTL

(* A finished job shows what the plugin's job ended with, unless a report  *)
(* was lost before it reached the socket, for any number of lines.         *)
THEOREM FinishedShowsTheEnd == Spec => []FinalMirror
<1>1. ASSUME IInv, job = "finished", lost = {}
      PROVE  mirror = child
  <2>1. mirror \in PropMap /\ child \in PropMap
    BY <1>1 DEF IInv, TypeOK
  <2>2. CatchesUp(<<>>, mirror, child)
    BY <1>1 DEF IInv, ResultAfterExit, MirrorCatchesUp
  <2> QED
    BY <2>1, <2>2, CaughtUp
<1>2. IInv => FinalMirror
  BY <1>1 DEF FinalMirror
<1> QED
  BY <1>2, Invariant, PTL

-----------------------------------------------------------------------------
(* The contract of Job                                                     *)

LEMMA PhaseValue ==
  ASSUME TypeOK
  PROVE  /\ ppc = "crashed" => Phase = "crashed"
         /\ ppc # "crashed" =>
              /\ job = "created"   <=> Phase = "idle"
              /\ job = "started"   <=> Phase = "running"
              /\ job = "finished"  <=> Phase = "done"
              /\ job = "destroyed" <=> Phase = "gone"
BY DEF Phase, TypeOK

LEMMA ContractInit == Init => Contract!Init
BY DEF Init, Contract!Init, Phase

(* Every step of host, socket and process is a step of the contract, or    *)
(* leaves what the client sees alone.                                      *)
LEMMA ContractStep ==
  IInv /\ IInv' /\ [Next]_vars => [Contract!Next]_(Contract!vars)
<1> SUFFICES ASSUME IInv, IInv', [Next]_vars
             PROVE  Contract!Next \/ UNCHANGED Contract!vars
  OBVIOUS
<1> USE DEF hostVars, socketVars, childVars, exe
<1>1. TypeOK /\ TypeOK' /\ QuietBeforePlugin /\ SocketOrder /\ ResultAfterExit
  BY DEF IInv
<1>2. CASE Start
  <2>1. Contract!Start
    BY <1>1, <1>2 DEF Start, Phase, Contract!Start
  <2> QED
    BY <2>1 DEF Contract!Next
<1>3. CASE \/ ProcessUp \/ WriteSocket \/ SendRest
           \/ Connect \/ ReadHeader \/ ReadPayload \/ Flush \/ ScriptConnect
  <2>1. UNCHANGED <<job, ppc, mirror, child, lost>>
    BY <1>3 DEF ProcessUp, WriteSocket, SendRest, Connect, ReadHeader,
                ReadPayload, Flush, ScriptConnect
  <2>2. (cpc = "exited") = (cpc' = "exited")
    BY <1>3, <1>1
       DEF ProcessUp, WriteSocket, SendRest, Connect, ReadHeader,
           ReadPayload, Flush, ScriptConnect, SocketOrder
  <2> QED
    BY <2>1, <2>2 DEF Contract!vars, Phase
<1>4. CASE FailedToStart \/ ProcessStateChanged
  <2>1. /\ job = "started" /\ ppc = "loop"
        /\ ppc' \in {"drain", "crashed"}
        /\ UNCHANGED <<job, mirror, child, cpc, lost>>
    BY <1>4 DEF FailedToStart, ProcessStateChanged, EnterDrain
  <2>2. CASE ppc' = "drain"
    BY <2>1, <2>2 DEF Contract!vars, Phase
  <2>3. CASE ppc' = "crashed"
    <3>1. Contract!Abort
      BY <2>1, <2>3 DEF Contract!Abort, Phase
    <3> QED
      BY <3>1 DEF Contract!Next
  <2> QED
    BY <2>1, <2>2, <2>3
<1>5. CASE ReadSocket \/ Drain
  <2>1. Contract!Report
    BY <1>1, <1>5
       DEF ReadSocket, Drain, ReadLine, Draining, ResultAfterExit, Phase,
           TypeOK, Contract!Report
  <2> QED
    BY <2>1 DEF Contract!Next
<1>6. CASE EmitResult
  <2>1. job = "started" /\ cpc = "exited" /\ stream = <<>>
    BY <1>6 DEF EmitResult, IInv, ResultAfterExit, NothingAfterExit, TypeOK
  <2>2. lost = {} => mirror = child
    <3>1. lost = {} => CatchesUp(<<>>, mirror, child)
      BY <2>1 DEF IInv, MirrorCatchesUp
    <3> QED
      BY <1>1, <3>1, CaughtUp DEF TypeOK
  <2>3. CASE ppc = "drain"
    <3>1. Contract!Finish
      BY <1>6, <2>1, <2>2, <2>3 DEF EmitResult, Phase, Contract!Finish
    <3> QED
      BY <3>1 DEF Contract!Next
  <2>4. CASE ppc # "drain"
    <3>1. Contract!Delete
      BY <1>6, <2>1, <2>4 DEF EmitResult, Draining, Phase, Contract!Delete
    <3> QED
      BY <3>1 DEF Contract!Next
  <2> QED
    BY <2>3, <2>4
<1>7. CASE Destroy
  <2>1. CASE proc = "NotRunning"
    <3>1. Contract!Delete
      BY <1>1, <1>7, <2>1 DEF Destroy, Phase, TypeOK, Contract!Delete
    <3> QED
      BY <3>1 DEF Contract!Next
  <2>2. CASE proc # "NotRunning"
    <3>1. /\ job = "started" /\ ppc = "loop"
          /\ ppc' \in {"drainInDestructor", "crashed"}
          /\ UNCHANGED <<job, mirror, child>>
      BY <1>1, <1>7, <2>2 DEF Destroy, EnterDrain, ResultAfterExit, TypeOK
    <3>2. cpc' = "exited" /\ (lost' = {} => lost = {})
      BY <1>1, <1>7, <2>2, ExitTyped DEF Destroy
    <3>3. CASE ppc' = "crashed"
      <4>1. Contract!Abort
        BY <3>1, <3>2, <3>3 DEF Contract!Abort, Phase
      <4> QED
        BY <4>1 DEF Contract!Next
    <3>4. CASE ppc' # "crashed" /\ cpc # "exited"
      <4>1. Contract!End
        BY <3>1, <3>2, <3>4 DEF Contract!End, Phase
      <4> QED
        BY <4>1 DEF Contract!Next
    <3>5. CASE ppc' # "crashed" /\ cpc = "exited"
      <4>1. lost' = lost
        BY <1>7, <2>2, <3>5 DEF Destroy
      <4> QED
        BY <3>1, <3>2, <3>5, <4>1 DEF Contract!vars, Phase
    <3> QED
      BY <3>3, <3>4, <3>5
  <2> QED
    BY <2>1, <2>2
<1>8. ASSUME Alive, NEW code \in {0, 1}, Exit(code), UNCHANGED <<hostVars, child>>
      PROVE  Contract!Next
  <2>1. Contract!End
    BY <1>1, <1>8, ExitTyped DEF Alive, Phase, Contract!End
  <2> QED
    BY <2>1 DEF Contract!Next
<1>9. CASE NoPlugin \/ Quit \/ ScriptExit \/ Crash
  <2>1. PICK code \in {0, 1} : Exit(code) /\ UNCHANGED <<hostVars, child>>
    BY <1>9 DEF NoPlugin, Quit, ScriptExit, Crash
  <2>2. Alive
    BY <1>9 DEF NoPlugin, Quit, ScriptExit, Crash, Alive
  <2> QED
    BY <1>8, <2>1, <2>2
<1>10. ASSUME cpc \in {"header", "payload", "exec"}, cpc' = "exec",
              UNCHANGED <<job, ppc, mirror>>,
              lost' = {} => lost = {}
       PROVE  Contract!Next
  <2>1. job = "started" /\ ppc = "loop"
    BY <1>1, <1>10 DEF Alive, ResultAfterExit
  <2>2. Phase = "running" /\ Phase' = Phase
    BY <1>10, <2>1 DEF Phase
  <2>3. cpc # "exited" /\ (cpc = "exited") = (cpc' = "exited")
    BY <1>10
  <2>4. (lost' = {}) \in {lost = {}, FALSE}
    BY <1>10
  <2>5. child' \in PropMap
    BY <1>1 DEF TypeOK
  <2>6. Contract!Work
    BY <1>10, <2>2, <2>3, <2>4, <2>5 DEF Contract!Work
  <2> QED
    BY <2>6 DEF Contract!Next
<1>11. ASSUME cpc \in {"header", "payload"}, RunPlugin
       PROVE  Contract!Next
  BY <1>10, <1>11 DEF RunPlugin
<1>12. CASE StartPlugin
  BY <1>11, <1>12 DEF StartPlugin
<1>13. CASE ReadTimeout
  <2>1. CASE Exit(1) /\ UNCHANGED <<hostVars, conn, delivered, flushed, exe, pos,
                                   cjob, child>>
    BY <1>8, <1>13, <2>1 DEF ReadTimeout, Alive
  <2> QED
    BY <1>11, <1>13, <2>1 DEF ReadTimeout
<1>14. CASE ReportChange \/ ReportResult \/ ScriptWrite
  BY <1>10, <1>14 DEF ReportChange, ReportResult, ScriptWrite, JobRunning
<1>15. CASE UNCHANGED vars
  BY <1>15 DEF vars, Contract!vars, Phase
<1> QED
  BY <1>2, <1>3, <1>4, <1>5, <1>6, <1>7, <1>9, <1>12, <1>13, <1>14, <1>15
     DEF Next, Host, PurposeProcess, Script

(* ProcessJob implements the contract of a job that runs elsewhere: its    *)
(* properties change only between start and result, the result comes once  *)
(* and after the plugin has stopped, and it is the plugin's unless a       *)
(* report was lost.                                                        *)
THEOREM ImplementsContract == Spec => ContractSpec
<1> QED
  BY ContractInit, ContractStep, Invariant, PTL
     DEF Spec, ContractSpec, Contract!Spec
=============================================================================
