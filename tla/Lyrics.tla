------------------------------- MODULE Lyrics -------------------------------
(***************************************************************************)
(* The lyrics that processTrack puts into what it announces of a track: a  *)
(* YouTube track's own captions (plugins/youtube), or what Musixmatch has  *)
(* for any other track (src/mxmlyrics), each turned into lines that the    *)
(* client shows from their time on.  Both put two answers of a service     *)
(* together, the lines and their translation, which need not fit.          *)
(*                                                                         *)
(* The steps of one call touch nothing that is shared, so that a fetch is  *)
(* one action here.                                                        *)
(***************************************************************************)
EXTENDS Naturals, Sequences, SequencesExt

CONSTANTS Text,      \* texts of a line, the empty one not among them
          NoText,    \* the empty text
          MaxTime,   \* bound: seconds at which lines begin, and how long they last
          MaxLine    \* bound: lines a service gives

Second == 0 .. MaxTime
AnyText == Text \cup {NoText}

\* What is given of a track: by whom, and what; and the lyrics made of it.
VARIABLES given, lyrics

lyricsVars == <<given, lyrics>>

Lines(set) == UNION {[1 .. n -> set] : n \in 0 .. MaxLine}

Line == [time : Nat, text : AnyText, translated : AnyText, original : AnyText]

EndLine(t) == [time |-> t, text |-> NoText, translated |-> NoText, original |-> NoText]

-----------------------------------------------------------------------------
(* YouTube. *)

\* A list of captions, with the lines that the service gives for each; none when
\* the request fails or the answer is unreadable.
CaptionLine == [start : Second, duration : 1 .. MaxTime, text : AnyText]
Caption     == [language : {"en", "other"}, default : BOOLEAN, lines : Lines(CaptionLine)]
CaptionLists == UNION {[1 .. n -> Caption] : n \in 0 .. 2}

\* The lines of the first of the captions that are meant; getLyricsWithLang refuses
\* when there is none.
FirstLines(captions, meant) == IF meant = {} THEN <<>> ELSE captions[Min(meant)].lines

DefaultCaptions(captions) == {i \in DOMAIN captions : captions[i].default}

DefaultCaption(captions) == FirstLines(captions, DefaultCaptions(captions))

EnglishCaptions(captions) == {i \in DOMAIN captions : captions[i].language = "en"}

\* The captions in English, unless the default ones are.
TranslatedCaption(captions) ==
    LET default == DefaultCaptions(captions)
    IN  IF default # {} /\ Min(default) \in EnglishCaptions(captions) THEN <<>>
        ELSE FirstLines(captions, EnglishCaptions(captions))

\* Variant of CaptionText: a translation of as many lines is taken to fit.
CaptionTextByIndex(def, trans, i) ==
    IF Len(trans) = Len(def) THEN trans[i].text ELSE def[i].text

CaptionText(def, trans, i) ==
    IF Len(trans) = Len(def) /\ trans[i].start = def[i].start THEN trans[i].text
                                                              ELSE def[i].text

CaptionLyrics(captions) ==
    LET def   == DefaultCaption(captions)
        trans == TranslatedCaption(captions)
    IN  IF def = <<>> THEN <<>>
        ELSE Append([i \in DOMAIN def |-> [EndLine(def[i].start) EXCEPT
                                             !.text = CaptionText(def, trans, i)]],
                    EndLine(Last(def).start + Last(def).duration))

-----------------------------------------------------------------------------
(* Musixmatch. *)

SubtitleLine   == [time : Second, text : AnyText]
TranslatedLine == [time : Second, text : AnyText, original : AnyText]

\* Its answer holds a list of subtitles, and the first one may hold a translation:
\* none, or a list of lines, or what cannot be read as one.
Untranslated == [kind |-> "none", lines |-> <<>>]
Translation  == {Untranslated, [kind |-> "unreadable", lines |-> <<>>]}
                  \cup [kind : {"lines"}, lines : Lines(TranslatedLine)]
Subtitle     == [language : {"en", "other"}, lines : Lines(SubtitleLine), translation : Translation]
SubtitleLists == UNION {[1 .. n -> Subtitle] : n \in 0 .. 1}

\* The texts of the lines themselves are filled in by position.
TranslatedLyrics(subtitle) ==
    LET trans == subtitle.translation.lines
    IN  [i \in DOMAIN trans |->
           [time |-> trans[i].time, text |-> trans[i].original, translated |-> trans[i].text,
            original |-> IF Len(trans) = Len(subtitle.lines) THEN subtitle.lines[i].text
                                                             ELSE NoText]]

OriginalLyrics(subtitle) ==
    [i \in DOMAIN subtitle.lines |->
       [EndLine(subtitle.lines[i].time) EXCEPT !.text = subtitle.lines[i].text]]

\* Lyrics that end in a text are given an end, 10 s later.
Ended(lines) ==
    IF lines = <<>> \/ Last(lines) = EndLine(Last(lines).time) THEN lines
    ELSE Append(lines, EndLine(Last(lines).time + 10))

\* An answer without subtitles makes GetLyrics panic, and recover, with no lyrics;
\* an unreadable translation is an error.
SubtitleLyrics(subtitles) ==
    IF subtitles = <<>> THEN <<>>
    ELSE LET subtitle == subtitles[1]
             wanted   == subtitle.language # "en" /\ subtitle.translation # Untranslated
         IN  CASE wanted /\ subtitle.translation.kind = "unreadable" -> <<>>
               [] wanted /\ subtitle.translation.lines # <<>> -> Ended(TranslatedLyrics(subtitle))
               [] OTHER -> Ended(OriginalLyrics(subtitle))

-----------------------------------------------------------------------------
(* processTrack. *)

NothingGiven == [by |-> "nobody", captions |-> <<>>, subtitles |-> <<>>]

LyricsTypeOK ==
    /\ given.by \in {"nobody", "youtube", "musixmatch", "noservice"}
    /\ lyrics \in Seq(Line)

LyricsInit == given = NothingGiven /\ lyrics = <<>>

\* A track with lyrics of its own gets those or none ...
GetCaptions ==
    /\ given = NothingGiven
    /\ \E captions \in CaptionLists :
         /\ given' = [by |-> "youtube", captions |-> captions, subtitles |-> <<>>]
         /\ lyrics' = CaptionLyrics(captions)

\* ... for any other one Musixmatch is asked, if the server has an account there.
GetSubtitles ==
    /\ given = NothingGiven
    /\ \E subtitles \in SubtitleLists :
         /\ given' = [by |-> "musixmatch", captions |-> <<>>, subtitles |-> subtitles]
         /\ lyrics' = SubtitleLyrics(subtitles)

\* The service cannot be reached, or nobody is asked.
GetNothing ==
    /\ given = NothingGiven
    /\ given' = [NothingGiven EXCEPT !.by = "noservice"]
    /\ UNCHANGED lyrics

LyricsNext == GetCaptions \/ GetSubtitles \/ GetNothing

LyricsSpec == LyricsInit /\ [][LyricsNext]_lyricsVars

-----------------------------------------------------------------------------
(* Properties. *)

\* The captions, the subtitle, say this from this second on.
CaptionsSay(captions, line) ==
    \E c \in ToSet(captions) : \E l \in ToSet(c.lines) :
        l.start = line.time /\ l.text = line.text

SubtitleSays(subtitle, line) ==
    \/ \E l \in ToSet(subtitle.lines) :
         l.time = line.time /\ l.text = line.text /\ line.translated = NoText
    \/ \E l \in ToSet(subtitle.translation.lines) :
         l.time = line.time /\ l.original = line.text /\ l.text = line.translated

Said(line) ==
    \/ CaptionsSay(given.captions, line)
    \/ \E subtitle \in ToSet(given.subtitles) : SubtitleSays(subtitle, line)

\* A client shows nothing at a time that the service did not give it for, with
\* whatever translation; it stops showing the last line some time; and it has the
\* lines of a subtitle, translated or not, unless the translation is unreadable.
\* (The "original" of a translated line is excepted: it is found by position.)
LyricsKeepTime ==
    /\ \A i \in DOMAIN lyrics : Said(lyrics[i]) \/ (i = Len(lyrics) /\ i > 1)
    /\ lyrics # <<>> => Last(lyrics) = EndLine(Last(lyrics).time)
    /\ \A subtitle \in ToSet(given.subtitles) :
         subtitle.lines # <<>> /\ subtitle.translation.kind # "unreadable" => lyrics # <<>>
=============================================================================
