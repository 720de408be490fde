------------------------------ MODULE Console ------------------------------
(***************************************************************************)
(* What an administrator does before and around the management of keys:    *)
(* logging in, working in a session with its reviewed SMTP test, and       *)
(* the pages it is done from, and mailing keys.  The four share no rows; a *)
(* behaviour looks at one.                                                 *)
(***************************************************************************)
EXTENDS AdminLogin, AdminConsole, AdminPages, EmailDelivery

VARIABLE scene   \* what this behaviour looks at

sceneVars == <<loginVars, consoleVars, pageVars, mailVars, scene>>

Scenes == {"login", "session", "pages", "mail"}

SceneInit ==
    /\ scene \in Scenes
    /\ LoginInit
    /\ ConsoleInit
    /\ PagesInit
    /\ MailInit
    /\ scene # "pages" => auth.tab = CHOOSE t \in Tab : TRUE
    /\ scene # "mail" => \A d \in Delivery : row[d] = Absent

SceneNext ==
    /\ \/ scene = "login" /\ LoginNext /\ UNCHANGED <<consoleVars, pageVars, mailVars>>
       \/ scene = "session" /\ ConsoleNext /\ UNCHANGED <<loginVars, pageVars, mailVars>>
       \/ scene = "pages" /\ PagesNext /\ UNCHANGED <<loginVars, consoleVars, mailVars>>
       \/ scene = "mail" /\ MailNext /\ UNCHANGED <<loginVars, consoleVars, pageVars>>
    /\ UNCHANGED scene

SceneSpec == SceneInit /\ [][SceneNext]_sceneVars

=============================================================================
