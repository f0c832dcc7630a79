---------------------------- MODULE ConfigParser ----------------------------
(***************************************************************************)
(* vf_parser_load_frames_cfg: a scan of a JSON text for the keys it knows, *)
(* always forward from where the last key was found.  It does not look at  *)
(* braces, so a key that is missing is looked for in what follows: in the  *)
(* next frame, or in the next set.                                         *)
(*                                                                         *)
(* A text is a sequence of the keys the parser looks for, each with its    *)
(* value, and of the brackets that end arrays.  The value of a string is a *)
(* name, or Bad when it is no string or too long for its field; the number *)
(* of a width or a height is what atoi makes of it.                        *)
(***************************************************************************)
EXTENDS Integers, Sequences, FiniteSets

CONSTANTS Texts,      \* the configuration files that are tried
          MaxText,    \* MAX_FILE_SIZE, in keys
          Bad

ASSUME ParserAssumption ==
    /\ MaxText \in Nat
    /\ \A t \in Texts : /\ t \in Seq({t[i] : i \in DOMAIN t})
                        /\ \A i \in DOMAIN t : t[i].number \in Int

VARIABLES text,       \* what was read of the file
          cursor,     \* the key the scan has come to
          todo,       \* set_count
          want,       \* frame_count of the set being parsed
          sets,       \* frame_sets: finished sets, then the one being parsed
          blocks,     \* how many blocks of memory the parser holds
          parsing     \* what the parser does next

parserVars == <<text, cursor, todo, want, sets, blocks, parsing>>

ParserFormats == {"RAW8", "RGB888", "YUV420"}

Least(S) == CHOOSE i \in S : \A j \in S : i <= j

\* Mutant: every search starts at the beginning of the text.
FindFromStart(k, i) ==
    LET hits == {j \in 1 .. Len(text) : text[j].key = k}
    IN  IF i = 0 \/ hits = {} THEN 0 ELSE Least(hits)

\* strstr: the first key k at or after place i; 0 stands for NULL.
Find(k, i) ==
    LET hits == {j \in i .. Len(text) : text[j].key = k}
    IN  IF i = 0 \/ hits = {} THEN 0 ELSE Least(hits)

ParserInit ==
    /\ text = << >>
    /\ cursor = 1
    /\ todo = 0
    /\ want = 0
    /\ sets = << >>
    /\ blocks = 0
    /\ parsing = "read"

\* Every error gives back what is held: the text, the configuration once it is
\* there and, by vf_parser_free_frames_cfg, the sets and the frames of each.
Reject(held) ==
    /\ parsing' = "rejected"
    /\ blocks' = blocks - held
    /\ UNCHANGED <<text, cursor, todo, want, sets>>

\* vf_parser_read_file, and the allocation of the configuration.
ReadConfig ==
    /\ parsing = "read"
    /\ \/ \E t \in Texts :
            /\ text' = SubSeq(t, 1, Least({Len(t), MaxText}))
            /\ blocks' = 2
            /\ parsing' = "count"
            /\ UNCHANGED <<cursor, todo, want, sets>>
       \/ Reject(0)

\* The sets are counted by their names, and allocated.
CountSets ==
    /\ parsing = "count"
    /\ LET names == {i \in 1 .. Len(text) : text[i].key = "name"}
       IN  \/ /\ names # {}
              /\ todo' = Cardinality(names)
              /\ blocks' = blocks + 1
              /\ parsing' = "set"
              /\ UNCHANGED <<text, cursor, want, sets>>
           \/ Reject(2)

\* The head of a set, and its frames counted by the files named before the
\* next bracket.
ParseSet ==
    /\ parsing = "set"
    /\ LET name   == Find("name", cursor)
           path   == Find("base_path", name)
           format == Find("format", path)
           first  == Find("frames", format)
           end    == Find("]", first)
           files  == {i \in first .. end : text[i].key = "file"}
       IN  \/ /\ end # 0
              /\ Bad \notin {text[name].value, text[path].value}
              /\ text[format].value \in ParserFormats
              /\ files # {}
              /\ cursor' = format
              /\ want' = Cardinality(files)
              /\ sets' = Append(sets, [name |-> text[name].value, at |-> name,
                                       frames |-> << >>])
              /\ blocks' = blocks + 1
              /\ parsing' = "frame"
              /\ UNCHANGED <<text, todo>>
           \/ Reject(3 + Len(sets))

\* One frame: its file, width and height.
ParseFrame ==
    /\ parsing = "frame"
    /\ LET file   == Find("file", cursor)
           width  == Find("width", file)
           height == Find("height", width)
           this   == Len(sets)
           frame  == [file |-> text[file].value, width |-> text[width].number,
                      height |-> text[height].number, at |-> <<file, width, height>>]
       IN  IF /\ height # 0
              /\ frame.file # Bad
              /\ frame.width > 0
              /\ frame.height > 0
           THEN /\ cursor' = height
                /\ sets' = [sets EXCEPT ![this].frames = Append(@, frame)]
                /\ IF Len(sets'[this].frames) < want
                   THEN parsing' = "frame" /\ UNCHANGED blocks
                   ELSE IF this < todo
                        THEN parsing' = "set" /\ UNCHANGED blocks
                        ELSE parsing' = "loaded" /\ blocks' = blocks - 1
                /\ UNCHANGED <<text, todo, want>>
           ELSE Reject(3 + Len(sets))

ParserNext == ReadConfig \/ CountSets \/ ParseSet \/ ParseFrame

\* vf_parser_free_frames_cfg, when the caller is done.
FreeConfig ==
    /\ blocks' = blocks - (Len(sets) + 2)
    /\ UNCHANGED <<text, cursor, todo, want, sets, parsing>>
=============================================================================
