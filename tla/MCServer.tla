-------------------------------- MODULE MCServer --------------------------------
\* The instances of the modules about the server itself that TLC checks: how a request is
\* translated and leaves, how what comes back is translated, and how the program is
\* updated, started and replaced.  They share no state, so a behaviour is one of a single
\* module, the others left as they start.
EXTENDS RequestTranslation, TupleSchemas, Answers, Server, TLC

VARIABLE focus

vars ==
    <<turns, schemaVars, curlVars, transportVars, translationVars, passVars,
      updateVars, desktopVars, processVars>>

ServerInit ==
    /\ focus \in {"request", "schema", "curl", "transport", "response", "pass", "updates",
                  "desktop", "processes"}
    /\ IF focus = "schema" THEN TRUE ELSE original = [schema |-> Leaf, def |-> Leaf]
    /\ IF focus = "curl" THEN TRUE
       ELSE forced = FALSE /\ setting = "auto" /\ curlSetting = "auto" /\ present = {} /\ loads = {}
    /\ IF focus = "transport" THEN TRUE ELSE proxied = FALSE /\ http = "cli" /\ way = "cli"
    /\ IF focus = "response" THEN TRUE ELSE wants = [reasoning |-> FALSE, tuple |-> FALSE]
    /\ ConversationInit /\ SchemaInit /\ CurlInit /\ TransportInit /\ TranslationInit
    /\ PassInit /\ UpdateInit /\ DesktopInit /\ ProcessesInit
    /\ loads \subseteq present      \* what is not there is not loaded
    /\ focus # "pass" => ~held
    /\ focus # "desktop" => isMac
    /\ focus # "processes" => port = Free

ServerNext ==
    /\ UNCHANGED focus
    /\ \/ /\ focus = "request" /\ ConversationNext
          /\ UNCHANGED <<schemaVars, curlVars, transportVars, translationVars, passVars,
                         updateVars, desktopVars, processVars>>
       \/ /\ focus = "schema" /\ SchemaNext
          /\ UNCHANGED <<turns, curlVars, transportVars, translationVars, passVars,
                         updateVars, desktopVars, processVars>>
       \/ /\ focus = "curl" /\ CurlNext
          /\ UNCHANGED <<turns, schemaVars, transportVars, translationVars, passVars,
                         updateVars, desktopVars, processVars>>
       \/ /\ focus = "transport" /\ TransportNext
          /\ UNCHANGED <<turns, schemaVars, curlVars, translationVars, passVars,
                         updateVars, desktopVars, processVars>>
       \/ /\ focus = "response" /\ TranslationNext
          /\ UNCHANGED <<turns, schemaVars, curlVars, transportVars, passVars, updateVars,
                         desktopVars, processVars>>
       \/ /\ focus = "pass" /\ PassNext
          /\ UNCHANGED <<turns, schemaVars, curlVars, transportVars, translationVars,
                         updateVars, desktopVars, processVars>>
       \/ /\ focus = "updates" /\ UpdateNext
          /\ UNCHANGED <<turns, schemaVars, curlVars, transportVars, translationVars,
                         passVars, desktopVars, processVars>>
       \/ /\ focus = "desktop" /\ DesktopNext
          /\ UNCHANGED <<turns, schemaVars, curlVars, transportVars, translationVars,
                         passVars, updateVars, processVars>>
       \/ /\ focus = "processes" /\ ProcessesNext
          /\ UNCHANGED <<turns, schemaVars, curlVars, transportVars, translationVars,
                         passVars, updateVars, desktopVars>>

ServerSpec == ServerInit /\ [][ServerNext]_<<vars, focus>>

Symmetry == Permutations(Request) \cup Permutations(Tool)

\* New commits and new versions are not explored in one behaviour, their checks are.
OneKindOfUpdate == origin = 0 \/ published = 0

\* Of the checks under way and the children that earlier processes left, two at a time.
TwoAtWork == Cardinality({c \in Checker : checker[c] # NoCheck}) + Cardinality(survivors) <= 2

\* One turn of a conversation brings more than words or results: an image, words with
\* results, or results that leave out their call.
OneMixedTurn ==
    Cardinality({n \in DOMAIN turns :
        \/ turns[n].image \/ (turns[n].by = "results" /\ turns[n].text)
        \/ \E i \in DOMAIN turns[n].results :
              turns[n].results[i].shown \/ ~turns[n].results[i].named}) <= 1

\* One item of an answer comes in several parts.
OneLongItem == Cardinality({i \in DOMAIN items : items[i].n > 1}) <= 1

\* What comes after the client has gone changes nothing for it, and the collectors have no
\* streaming client.
WhileClientThere == client
=============================================================================
