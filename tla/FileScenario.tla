---------------------------- MODULE FileScenario ----------------------------
(***************************************************************************)
(* The scenarios on files: vf_core_run_all and vf_core_run_by_flag parse   *)
(* the configuration and, for each scenario, build two pools and a pipeline*)
(* of three units - file_in (1), conversion (2), file_out (3) - and run it *)
(* once per frame of the scenario's set, on one thread.                    *)
(*                                                                         *)
(* With one thread nobody can end a wait: an acquire on an empty pool, a   *)
(* pop from an empty queue would be for ever.  Their actions are enabled   *)
(* only when the call returns, so that such a wait is a deadlock here.     *)
(***************************************************************************)
EXTENDS ConfigParser, Conversion

CONSTANTS Commands,      \* which of them are given: 0 is run_all, n the n-th flag
          PoolSlots,     \* POOL_SLOT_COUNT
          ImageFile(_, _)  \* the bytes of a file of the directory of a set

\* g_scenarios.  Every second one splits its output into a file per frame.
ScenarioTable ==
    LET Pair(set, from, to) ==
            <<[set |-> set, from |-> from, to |-> to, split |-> FALSE],
              [set |-> set, from |-> from, to |-> to, split |-> TRUE]>>
    IN  Pair("rgb", "RGB888", "YUV420P") \o Pair("yuv", "YUV420P", "RGB888")
        \o Pair("raw", "RAW8", "RGB888") \o Pair("raw", "RAW8", "YUV420P")

UnknownFlag == Len(ScenarioTable) + 1

ASSUME ScenarioAssumption ==
    /\ Commands \subseteq 0 .. UnknownFlag
    /\ PoolSlots \in Nat \ {0}

\* What a configuration may name, files among it, and that files are of bytes.
Names == UNION {{t[i].value : i \in DOMAIN t} : t \in Texts}

ASSUME FilesAssumption ==
    \A n \in 1 .. Len(ScenarioTable) : \A f \in Names :
        LET file == ImageFile(ScenarioTable[n].set, f)
        IN  \A k \in DOMAIN file : file[k] \in Byte

VARIABLES
    command,     \* how the program was started
    pc,          \* where its one thread is
    scen,        \* the scenario being run
    failed,      \* how many scenarios failed
    err,         \* whether this one has failed
    set,         \* its frame set
    turn,        \* the frame run_pipeline_for_frames is at
    unit,        \* the unit being created, run or destroyed
    pool,        \* 1: pool_in, 2: pool_out; slots with in_use and contents
    queue,       \* queue i joins units i and i + 1
    fb,          \* current_fb of file_in, in_fb, out_fb, current_fb of file_out
    index,       \* frame_idx of the two file units
    stream,      \* their vf_file_t
    disk,        \* the scenario's output directory: the images written to each file
    lost,        \* output files whose last bytes fclose could not write
    subscribed,  \* whether on_frame_ready is subscribed to file_in's notifier
    announced    \* how often it was called

unitVars == <<pool, queue, fb, index, stream, disk, lost, subscribed, announced>>
runVars  == <<command, scen, failed, err, set, turn>>
vars == <<parserVars, runVars, pc, unit, unitVars>>

In     == 1
InFb   == 2
OutFb  == 3
Out    == 4
NoSlot == 0
Slots  == 1 .. PoolSlots
\* Mutant: FILE_OUT is configured with the input pool.
PoolOfOneMixed == <<1, 1, 2, 1>>

\* The pool each hand gives its slot back to.
PoolOf == <<1, 1, 2, 2>>

This   == ScenarioTable[scen]
Frames == sets[set].frames
Width  == Frames[1].width
Height == Frames[1].height
InPlanes  == Planes(This.from, Width, Height)
OutPlanes == Planes(This.to, Width, Height)

FileBytes(f) == ImageFile(This.set, Frames[f].file)

ConcatPath == "frame_out"
OutPath(f) == IF This.split THEN Frames[f].file ELSE ConcatPath

-----------------------------------------------------------------------------
(* vf_file_t.  A failed fclose leaves is_open and fp as they were, although *)
(* the stream is gone.                                                     *)

Shut == [open |-> FALSE, gone |-> FALSE]
Opened == [open |-> TRUE, gone |-> FALSE]
Gone == [open |-> TRUE, gone |-> TRUE]

AfterClose(s) == IF s.open THEN {Shut, Gone} ELSE {Shut}

\* fopen with "wb" makes the file empty.
Truncated(path) ==
    [p \in DOMAIN disk \cup {path} |-> IF p = path THEN << >> ELSE disk[p]]

FreeSlots(p) == {i \in Slots : ~pool[p][i].used}
FirstFree(p) == Least(FreeSlots(p))

BlankPool(planes) == [i \in Slots |-> [used |-> FALSE, data |-> BlankBuffer(planes)]]

\* The slots in hands hs go back to their pools, and the hands are empty.
Drop(hs) ==
    /\ pool' = [p \in 1 .. 2 |-> [i \in Slots |->
                  IF \E h \in hs : PoolOf[h] = p /\ fb[h] = i
                  THEN [pool[p][i] EXCEPT !.used = FALSE] ELSE pool[p][i]]]
    /\ fb' = [h \in 1 .. 4 |-> IF h \in hs THEN NoSlot ELSE fb[h]]

-----------------------------------------------------------------------------
Init ==
    /\ ParserInit
    /\ command \in Commands
    /\ pc = "parse"
    /\ scen = 0
    /\ failed = 0
    /\ err = FALSE
    /\ set = 0
    /\ turn = 1
    /\ unit = 0
    /\ pool = << << >>, << >> >>
    /\ queue = << << >>, << >> >>
    /\ fb = [h \in 1 .. 4 |-> NoSlot]
    /\ index = <<1, 1>>
    /\ stream = <<Shut, Shut>>
    /\ disk = << >>
    /\ lost = {}
    /\ subscribed = FALSE
    /\ announced = 0

\* run_by_flag looks the flag up before it parses.
RefuseFlag ==
    /\ pc = "parse"
    /\ command = UnknownFlag
    /\ failed' = 1
    /\ pc' = "done"
    /\ UNCHANGED <<parserVars, command, scen, err, set, turn, unit, unitVars>>

Parse ==
    /\ pc = "parse"
    /\ command # UnknownFlag
    /\ ParserNext
    /\ pc' = CASE parsing' = "loaded"   -> "find"
               [] parsing' = "rejected" -> "done"
               [] OTHER                 -> "parse"
    /\ scen' = IF parsing' = "loaded" THEN IF command = 0 THEN 1 ELSE command ELSE scen
    /\ failed' = IF parsing' = "rejected" THEN 1 ELSE failed
    /\ UNCHANGED <<command, err, set, turn, unit, unitVars>>

\* find_frame_set; a set that is not there is an error before anything is built.
FindSet ==
    /\ pc = "find"
    /\ LET hits == {i \in 1 .. Len(sets) : sets[i].name = This.set}
       IN  IF hits = {}
           THEN /\ err' = TRUE
                /\ pc' = "end"
                /\ UNCHANGED set
           ELSE /\ set' = Least(hits)
                /\ pc' = "pools"
                /\ UNCHANGED err
    /\ UNCHANGED <<parserVars, command, scen, failed, turn, unit, unitVars>>

\* Both pools, or none: when pool_out fails, pool_in is deinited.
InitPools ==
    /\ pc = "pools"
    /\ \/ /\ pool' = <<BlankPool(InPlanes), BlankPool(OutPlanes)>>
          /\ unit' = 1
          /\ pc' = "create"
          /\ UNCHANGED err
       \/ /\ err' = TRUE
          /\ pc' = "end"
          /\ UNCHANGED <<pool, unit>>
    /\ UNCHANGED <<parserVars, command, scen, failed, set, turn,
                   queue, fb, index, stream, disk, lost, subscribed, announced>>

\* vf_pipeline_create: a file unit opens its file, file_out only when it
\* writes them all to one; the conversion must be in the table.
CreateUnit ==
    /\ pc = "create"
    /\ unit # 2 \/ <<This.from, This.to>> \in Supported
    /\ stream' = CASE unit = 1 -> [stream EXCEPT ![1] = Opened]
                   [] unit = 3 /\ ~This.split -> [stream EXCEPT ![2] = Opened]
                   [] OTHER -> stream
    /\ disk' = IF unit = 3 /\ ~This.split THEN Truncated(ConcatPath) ELSE disk
    /\ unit' = IF unit < 3 THEN unit + 1 ELSE 1
    /\ pc' = IF unit < 3 THEN "create" ELSE "get"
    /\ subscribed' = (unit = 3)
    /\ UNCHANGED <<parserVars, runVars, pool, queue, fb, index, lost, announced>>

CreateFails ==
    /\ pc = "create"
    /\ err' = TRUE
    /\ unit' = unit - 1
    /\ pc' = "unwind"
    /\ UNCHANGED <<parserVars, command, scen, failed, set, turn, unitVars>>

-----------------------------------------------------------------------------
(* vf_unit_run of the three units, in the order of vf_pipeline_run_once.    *)

Goto(u, step) == unit' = u /\ pc' = step /\ UNCHANGED <<err, turn>>

\* Mutant: the cleanup's success is what is returned.
FailsUnreported == unit' = 1 /\ pc' = "destroy" /\ UNCHANGED <<err, turn>>

Fails == err' = TRUE /\ unit' = 1 /\ pc' = "destroy" /\ UNCHANGED turn

\* FILE_IN get_data: the last frame's file is closed, this one's opened, a
\* slot acquired and filled.  A file that is too short is an error, and so
\* may any read be; the slot goes back.
FileInGet ==
    /\ pc = "get" /\ unit = 1
    /\ \E s \in AfterClose(stream[1]) :
        \/ /\ stream' = [stream EXCEPT ![1] = s]
           /\ Fails
           /\ UNCHANGED <<pool, fb, index>>
        \/ /\ ~s.open
           /\ FreeSlots(1) # {}
           /\ stream' = [stream EXCEPT ![1] = Opened]
           /\ \/ /\ Fails
                 /\ fb' = [fb EXCEPT ![In] = NoSlot]
                 /\ UNCHANGED <<pool, index>>
              \/ /\ 0 .. FileSize(InPlanes) - 1 \subseteq DOMAIN FileBytes(index[1])
                 /\ pool' = [pool EXCEPT ![1][FirstFree(1)] =
                        [used |-> TRUE,
                         data |-> ReadFromFile(InPlanes, @.data, FileBytes(index[1]))]]
                 /\ fb' = [fb EXCEPT ![In] = FirstFree(1)]
                 /\ index' = [index EXCEPT ![1] = @ + 1]
                 /\ Goto(1, "send")
    /\ UNCHANGED <<parserVars, command, scen, failed, set, queue, disk, lost,
                   subscribed, announced>>

\* FILE_IN send_data: push, then publish to who subscribed.
FileInSend ==
    /\ pc = "send" /\ unit = 1
    /\ queue' = [queue EXCEPT ![1] = Append(@, fb[In])]
    /\ announced' = IF subscribed THEN announced + 1 ELSE announced
    /\ fb' = [fb EXCEPT ![In] = NoSlot]
    /\ Goto(2, "get")
    /\ UNCHANGED <<parserVars, command, scen, failed, set, pool, index, stream,
                   disk, lost, subscribed>>

ConversionGet ==
    /\ pc = "get" /\ unit = 2
    /\ queue[1] # << >>
    /\ fb' = [fb EXCEPT ![InFb] = Head(queue[1])]
    /\ queue' = [queue EXCEPT ![1] = Tail(@)]
    /\ Goto(2, "process")
    /\ UNCHANGED <<parserVars, command, scen, failed, set, pool, index, stream,
                   disk, lost, subscribed, announced>>

\* The formats and sizes of the pools are those of the scenario, so that
\* vf_conversion_process has nothing to refuse.
ConversionProcess ==
    /\ pc = "process"
    /\ FreeSlots(2) # {}
    /\ LET to == FirstFree(2)
       IN  /\ pool' = [pool EXCEPT ![2][to] =
                [used |-> TRUE,
                 data |-> Convert(This.from, This.to, Width, Height,
                                  pool[1][fb[InFb]].data, @.data)]]
           /\ fb' = [fb EXCEPT ![OutFb] = to]
    /\ Goto(2, "send")
    /\ UNCHANGED <<parserVars, command, scen, failed, set, queue, index, stream,
                   disk, lost, subscribed, announced>>

\* The output frame is pushed; nobody took a reference to the input frame, so
\* that vf_framebuffer_unref releases it at once.
ConversionSend ==
    /\ pc = "send" /\ unit = 2
    /\ queue' = [queue EXCEPT ![2] = Append(@, fb[OutFb])]
    /\ pool' = [pool EXCEPT ![1][fb[InFb]].used = FALSE]
    /\ fb' = [fb EXCEPT ![InFb] = NoSlot, ![OutFb] = NoSlot]
    /\ Goto(3, "get")
    /\ UNCHANGED <<parserVars, command, scen, failed, set, index, stream,
                   disk, lost, subscribed, announced>>

FileOutGet ==
    /\ pc = "get" /\ unit = 3
    /\ queue[2] # << >>
    /\ fb' = [fb EXCEPT ![Out] = Head(queue[2])]
    /\ queue' = [queue EXCEPT ![2] = Tail(@)]
    /\ Goto(3, "send")
    /\ UNCHANGED <<parserVars, command, scen, failed, set, pool, index, stream,
                   disk, lost, subscribed, announced>>

\* Mutant: the loop over the frames goes one too far.
WritePastLast(files, path) ==
    /\ disk' = [files EXCEPT ![path] =
                  Append(@, WriteToFile(OutPlanes, pool[2][fb[Out]].data))]
    /\ unit' = 1
    /\ IF turn <= Len(Frames)
       THEN turn' = turn + 1 /\ pc' = "get"
       ELSE pc' = "destroy" /\ UNCHANGED turn
    /\ UNCHANGED err

\* One more image in the file on path, and the next frame, if there is one.
Write(files, path) ==
    /\ disk' = [files EXCEPT ![path] =
                  Append(@, WriteToFile(OutPlanes, pool[2][fb[Out]].data))]
    /\ unit' = 1
    /\ IF turn < Len(Frames)
       THEN turn' = turn + 1 /\ pc' = "get"
       ELSE pc' = "destroy" /\ UNCHANGED turn
    /\ UNCHANGED err

\* FILE_OUT send_data.  With one file per frame the last frame's is closed and
\* this one's opened; when that fails the index stays.  The image is written,
\* or its writing fails; the slot goes back either way, and the index moves.
FileOutSend ==
    /\ pc = "send" /\ unit = 3
    /\ Drop({Out})
    /\ \/ /\ This.split
          /\ \E s \in AfterClose(stream[2]) :
              /\ lost' = IF s.gone THEN lost \cup {OutPath(index[2] - 1)} ELSE lost
              /\ \/ /\ stream' = [stream EXCEPT ![2] = s]
                    /\ Fails
                    /\ UNCHANGED <<index, disk>>
                 \/ /\ ~s.open
                    /\ stream' = [stream EXCEPT ![2] = Opened]
                    /\ index' = [index EXCEPT ![2] = @ + 1]
                    /\ \/ Write(Truncated(OutPath(index[2])), OutPath(index[2]))
                       \/ disk' = Truncated(OutPath(index[2])) /\ Fails
       \/ /\ ~This.split
          /\ index' = [index EXCEPT ![2] = @ + 1]
          /\ \/ Write(disk, ConcatPath)
             \/ Fails /\ UNCHANGED disk
          /\ UNCHANGED <<stream, lost>>
    /\ UNCHANGED <<parserVars, command, scen, failed, set, queue, subscribed, announced>>

-----------------------------------------------------------------------------
(* vf_pipeline_destroy and the end of the scenario.                         *)

\* What each unit's deinit gives back.
HandsOf  == <<{In}, {InFb, OutFb}, {Out}>>
StreamOf(u) == IF u = 1 THEN 1 ELSE 2

\* To close a stream that is gone is undefined: it may seem to succeed, fail
\* again, or end the process.
DestroyUnit ==
    /\ pc \in {"destroy", "unwind"}
    /\ unit \in 1 .. 3
    /\ Drop(HandsOf[unit])
    /\ IF unit = 2 THEN UNCHANGED <<stream, lost>>
       ELSE \E s \in AfterClose(stream[StreamOf(unit)]) :
              /\ stream' = [stream EXCEPT ![StreamOf(unit)] = s]
              /\ lost' = IF unit = 3 /\ s.gone
                         THEN lost \cup {OutPath(index[2] - 1)} ELSE lost
    /\ subscribed' = IF unit = 1 THEN FALSE ELSE subscribed
    /\ unit' = IF pc = "unwind" THEN unit - 1 ELSE unit + 1
    /\ UNCHANGED <<parserVars, runVars, pc, queue, index, disk, announced>>

CloseTwice ==
    /\ pc \in {"destroy", "unwind"}
    /\ unit \in {1, 3}
    /\ stream[StreamOf(unit)].gone
    /\ pc' = "aborted"
    /\ UNCHANGED <<parserVars, runVars, unit, unitVars>>

\* The units are gone; the queues go, then the pools.
DeinitPools ==
    /\ pc \in {"destroy", "unwind"}
    /\ unit \notin 1 .. 3
    /\ pc' = "end"
    /\ UNCHANGED <<parserVars, runVars, unit, unitVars>>

\* run_all goes on with the next scenario, whatever became of this one.
EndScenario ==
    /\ pc = "end"
    /\ failed' = IF err THEN failed + 1 ELSE failed
    /\ err' = FALSE
    /\ set' = 0
    /\ turn' = 1
    /\ unit' = 0
    /\ pool' = << << >>, << >> >>
    /\ queue' = << << >>, << >> >>
    /\ fb' = [h \in 1 .. 4 |-> NoSlot]
    /\ index' = <<1, 1>>
    /\ stream' = <<Shut, Shut>>
    /\ disk' = << >>
    /\ lost' = {}
    /\ subscribed' = FALSE
    /\ announced' = 0
    /\ IF command = 0 /\ scen < Len(ScenarioTable)
       THEN /\ scen' = scen + 1
            /\ pc' = "find"
            /\ UNCHANGED parserVars
       ELSE /\ pc' = "done"
            /\ FreeConfig
            /\ UNCHANGED scen
    /\ UNCHANGED command

\* The program has returned; it reports success if nothing failed.
Returned == pc \in {"done", "aborted"} /\ UNCHANGED vars

Next ==
    \/ RefuseFlag \/ Parse \/ FindSet \/ InitPools \/ CreateUnit \/ CreateFails
    \/ FileInGet \/ FileInSend
    \/ ConversionGet \/ ConversionProcess \/ ConversionSend
    \/ FileOutGet \/ FileOutSend
    \/ DestroyUnit \/ CloseTwice \/ DeinitPools \/ EndScenario
    \/ Returned

Spec == Init /\ [][Next]_vars

-----------------------------------------------------------------------------
(* Properties.                                                              *)

\* Every variable keeps the shape the code gives it: hands hold slots, frame
\* indices stay within the set while they are used, and the parser's memory
\* is what its tables need.
TypeOK ==
    /\ parsing \in {"read", "count", "set", "frame", "loaded", "rejected"}
    /\ cursor \in 1 .. Len(text) + 1
    /\ blocks \in 0 .. 3 + Len(sets)
    /\ Len(sets) <= todo
    /\ pc \in {"parse", "find", "pools", "create", "unwind", "get", "process", "send",
              "destroy", "end", "done", "aborted"}
    /\ scen \in 0 .. Len(ScenarioTable)
    /\ failed \in 0 .. Len(ScenarioTable)
    /\ set \in 0 .. Len(sets)
    /\ unit \in 0 .. 4
    /\ fb \in [1 .. 4 -> Slots \cup {NoSlot}]
    /\ \A i \in 1 .. 2 : queue[i] \in Seq(Slots) /\ stream[i] \in {Shut, Opened, Gone}
    /\ pc = "get" /\ unit = 1 => index[1] \in 1 .. Len(Frames)
    /\ pc = "send" /\ unit = 3 => index[2] \in 1 .. Len(Frames)

\* How many of the first n keys of the configuration are k.
Named(k, n) == Cardinality({j \in 1 .. n : text[j].key = k})

\* Every set of an accepted configuration has its own name, and frames that end
\* before the next name.
SetsUnmixed ==
    parsing = "loaded" =>
        \A i \in 1 .. Len(sets) :
            /\ Named("name", sets[i].at) = i
            /\ Len(sets[i].frames) >= 1
            /\ \A f \in 1 .. Len(sets[i].frames) :
                    Named("name", sets[i].frames[f].at[3]) = i

\* The files named between the i-th name of the configuration and the next.
FilesOf(i) == {j \in 1 .. Len(text) : text[j].key = "file" /\ Named("name", j) = i}

\* Files are named in the array of frames of a set, behind the rest of its head,
\* and a set has only one.
ArraysWhole ==
    LET Before(keys, j) == {l \in 1 .. j - 1 : text[l].key \in keys}
    IN  /\ \A j \in 1 .. Len(text) : text[j].key = "file" =>
              \E l \in Before({"frames"}, j) :
                  \A m \in Before({"name", "format", "frames", "]"}, j) : m <= l
        /\ \A j \in 1 .. Len(text) : text[j].key = "frames" =>
              \A l \in Before({"frames"}, j) :
                  \E m \in Before({"name"}, j) : l < m

\* A set that has a frame for each of its files names no file between the file
\* and the height of a frame; and so it is for every set if the arrays are whole.
FilesUnmixed ==
    parsing = "loaded" =>
        \A i \in 1 .. Len(sets) :
            ArraysWhole \/ Cardinality(FilesOf(i)) <= Len(sets[i].frames) =>
                /\ \A f \in 1 .. Len(sets[i].frames) :
                      LET at == sets[i].frames[f].at
                      IN  Named("file", at[1]) = Named("file", at[3])
                /\ FilesOf(i) = {sets[i].frames[f].at[1] : f \in 1 .. Len(sets[i].frames)}

\* A configuration that is accepted mixes nothing: although a missing key is
\* looked for in whatever follows, a key taken from further on leaves a later
\* search without one (vf_parser_load_frames_cfg).  Of the sets this is so for
\* every text.  Of the frames of a set it is so for texts that lack keys of
\* frames or heads, or have them in another order, as long as the arrays are
\* whole: the files of the array are counted, and each of as many searches
\* that skips one comes out one short at the end.  A set whose array is counted
\* elsewhere may take fewer frames than it has files, and mix those.
AcceptedIsUnmixed == SetsUnmixed /\ FilesUnmixed

\* The images of the scenario's frames that are in the output directory.
OnDisk(f) ==
    /\ OutPath(f) \in DOMAIN disk
    /\ Len(disk[OutPath(f)]) >= IF This.split THEN 1 ELSE f
Image(f) == disk[OutPath(f)][IF This.split THEN 1 ELSE f]

NamesDiffer ==
    \A f, g \in 1 .. Len(Frames) : Frames[f].file = Frames[g].file => f = g

\* A scenario that succeeds has written an image for each frame of its set, has
\* announced each frame once and has missed no failing close but the last (of
\* which vf_file_unit_deinit drops the result); one that fails has written the
\* images of the frames before the one it failed at, and nothing else.  (Of two
\* frames of one name the second overwrites the first when the output is split.)
FramesWritten ==
    pc = "end" /\ set # 0 /\ (This.split => NamesDiffer) =>
        LET whole == {f \in 1 .. Len(Frames) : OnDisk(f)}
        IN  /\ whole = 1 .. Cardinality(whole)
            /\ ~err => /\ whole = 1 .. Len(Frames)
                       /\ announced = Len(Frames)
                       /\ lost \subseteq {OutPath(Len(Frames))}
            /\ err  => /\ Cardinality(whole) < Len(Frames)
                       /\ announced - Cardinality(whole) \in {0, 1}
            /\ \A p \in DOMAIN disk : Len(disk[p]) <= IF This.split THEN 1 ELSE Len(Frames)

\* Every image written is its frame's, pixel by pixel: read from its file and
\* written to its own without padding, converted in between from one layout of
\* planes and strides to another.  The file is read in the size of the set's
\* first frame, whatever the configuration gives for this one.
ImagesConverted ==
    pc = "end" /\ set # 0 /\ Fits(This.from, Width, Height) /\ Fits(This.to, Width, Height) =>
        \A f \in 1 .. Len(Frames) :
            OnDisk(f) =>
                FileConverted(This.from, This.to, Width, Height, FileBytes(f), Image(f))

\* Whichever step failed, when the pools are freed every slot has come back,
\* the queues are empty and no stream that could be closed is open; when the
\* program returns, the configuration is freed.
AllGivenBack ==
    /\ pc = "end" =>
        /\ \A p \in 1 .. 2 : \A i \in DOMAIN pool[p] : ~pool[p][i].used
        /\ \A i \in 1 .. 2 : queue[i] = << >> /\ (stream[i].open => stream[i].gone)
    /\ pc = "done" => blocks = 0
=============================================================================
