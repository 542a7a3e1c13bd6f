----------------------------- MODULE Publishing -----------------------------
(***************************************************************************)
(* Publishing appliances: POST /api/tis and the setup of the integration   *)
(* (src/__init__.py) over the life cycle of its config entry (ConfigEntry).*)
(*                                                                         *)
(* A post truncates appliance_data.json, writes it, answers "success" and  *)
(* leaves the reload to a task.  A setup connects, which makes the endpoint*)
(* answer (the views of the first setup do so for good), and has the       *)
(* platforms read the file one by one.  A setup ends loaded or, when it    *)
(* cannot connect, in error; it is never retried, and unloading succeeds:  *)
(* exceptions in the platforms are caught on the way.                      *)
(***************************************************************************)
EXTENDS ConfigEntry

CONSTANTS Published,   \* the content of the file before the first post
          Torn         \* a content that is no JSON, as an empty file is

ContentsOK ==
  /\ EntryConstantsOK
  /\ Published # Torn /\ Published \notin Callers /\ Torn \notin Callers

VARIABLES file,       \* the content: each caller posts its own
          post,       \* the post of each caller, if it makes one
          connected,  \* the last setup to begin has connected
          read,       \* what the platforms of the last setup have read
          endpoint,   \* the views are registered
          overlapped, \* history: another post came while the file was being written
          refused     \* history: a reload was refused, and no setup began since

entryVars == vars
publishingVars == <<file, post, connected, read, endpoint, overlapped, refused>>
allVars == <<entryVars, publishingVars>>

Content == Callers \cup {Published, Torn}

\* The callers that have the file open.
Writers == {c \in Callers : post[c] = "writing"}

PublishingTypeOK ==
  /\ TypeOK
  /\ file \in Content
  /\ post \in [Callers -> {"none", "writing", "written", "done"}]
  /\ connected \in BOOLEAN
  /\ read \in SUBSET Content
  /\ endpoint \in BOOLEAN
  /\ overlapped \in BOOLEAN
  /\ refused \in BOOLEAN

PublishingInit ==
  /\ Init
  /\ file = Published
  /\ post = [c \in Callers |-> "none"]
  /\ connected = FALSE
  /\ read = {}
  /\ endpoint = FALSE
  /\ overlapped = FALSE
  /\ refused = FALSE

-----------------------------------------------------------------------------
\* What a step of the entry means for the setup: a new one reads nothing yet,
\* and heals what a refused reload has missed.
Restarts(c) ==
  IF at'[c] = "setup"
    THEN connected' = FALSE /\ read' = {} /\ refused' = FALSE
    ELSE UNCHANGED <<connected, read, refused>>

\* post() opens the file, which empties it.
Open(c) ==
  /\ endpoint
  /\ at[c] = "nothing" /\ post[c] = "none"
  /\ post' = [post EXCEPT ![c] = "writing"]
  /\ file' = Torn
  /\ overlapped' = (Writers # {})
  /\ UNCHANGED <<entryVars, connected, read, endpoint, refused>>

\* It has written and closed the file, and answers.  If another post was
\* writing meanwhile, what is left of the two need not be JSON.
Write(c) ==
  /\ post[c] = "writing"
  /\ post' = [post EXCEPT ![c] = "written"]
  /\ file' \in IF overlapped THEN {c, Torn} ELSE {c}
  /\ UNCHANGED <<entryVars, connected, read, endpoint, overlapped, refused>>

\* Mutation: no reload while another is under way.
ReloadUnlessBusy(c) ==
  /\ post[c] = "written"
  /\ post' = [post EXCEPT ![c] = "done"]
  /\ IF reloadLock # <<>>
       THEN UNCHANGED <<entryVars, connected, read, refused>>
       ELSE Reload(c) /\ Restarts(c)
  /\ UNCHANGED <<file, endpoint, overlapped>>

\* reload_platforms(), the task the post has left.
ReloadPlatforms(c) ==
  /\ post[c] = "written"
  /\ post' = [post EXCEPT ![c] = "done"]
  /\ Reload(c)
  /\ IF at'[c] = "nothing"
       THEN refused' = TRUE /\ UNCHANGED <<connected, read>>
       ELSE Restarts(c)
  /\ UNCHANGED <<file, endpoint, overlapped>>

\* The user reloads the integration.
UserReload(c) ==
  /\ post[c] \in {"none", "done"}
  /\ Reload(c)
  /\ Restarts(c)
  /\ UNCHANGED <<file, post, endpoint, overlapped>>

\* async_setup_entry has connected, and registers the views.
Connect(c) ==
  /\ at[c] = "setup" /\ ~connected
  /\ connected' = TRUE
  /\ endpoint' = TRUE
  /\ UNCHANGED <<entryVars, file, post, read, overlapped, refused>>

\* A platform reads the file (get_entities of the library, called once for each
\* kind of appliance: the lights alone, in light.py, do it three times).
ReadAppliances(c) ==
  /\ at[c] = "setup" /\ connected
  /\ read' = read \cup {file}
  /\ UNCHANGED <<entryVars, file, post, connected, endpoint, overlapped, refused>>

\* All platforms have: the entry is loaded.
Loaded(c) ==
  /\ read # {}
  /\ SetupSucceeds(c)
  /\ UNCHANGED publishingVars

\* connect() has failed.
NotLoaded(c) ==
  /\ ~connected
  /\ SetupFails(c)
  /\ UNCHANGED publishingVars

\* The steps of the entry that await neither the file nor the socket.
EntryStep(c) ==
  /\ GetsLock(c) \/ UnloadSucceeds(c) \/ CleanedUp(c)
  /\ Restarts(c)
  /\ UNCHANGED <<file, post, endpoint, overlapped>>

PublishingNext ==
  \E c \in Callers :
    \/ Open(c) \/ Write(c) \/ ReloadPlatforms(c) \/ UserReload(c)
    \/ Connect(c) \/ ReadAppliances(c) \/ Loaded(c) \/ NotLoaded(c)
    \/ EntryStep(c)

PublishingSpec == PublishingInit /\ [][PublishingNext]_allVars

-----------------------------------------------------------------------------
\* No post, no reload and no setup is under way, and the entry is loaded.
Settled ==
  /\ state = "loaded"
  /\ \A c \in Callers : at[c] = "nothing" /\ post[c] \in {"none", "done"}

\* What is loaded is what was posted last: however posts, reloads and the reads
\* of the platforms interleave, no platform is left with a content that is not
\* the file's, unless the last reload was refused; and that content is one that
\* was posted, unless two posts wrote at once.
LoadedIsPublished ==
  Settled => /\ ~refused => read = {file}
             /\ ~overlapped => file # Torn

\* What the comments at src/__init__.py:97 and 104 say: a post that was
\* answered reloads the platforms.
PostIsLoaded == Settled => read = {file}
=============================================================================
