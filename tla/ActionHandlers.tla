--------------------------- MODULE ActionHandlers ---------------------------
(***************************************************************************)
(* What the action handlers of src/app/engine/actions.c make of a request: *)
(* did it take effect at the recipient, and is a failure recorded in the   *)
(* event log (LOG_ACTION_ERR) or only in the system log (LOG_WARN, or not  *)
(* at all)?  A request q is                                                *)
(*   complete  the settings the handler insists on are there               *)
(*   shot      the camera delivers a JPEG                                  *)
(*   attach    the action asks for a snapshot                              *)
(*   reply     "ok"; "refused": the peer answers with an error; "none": no *)
(*             answer                                                      *)
(* and the outcome is [took, error, failed]: failed says whether the       *)
(* handler goes on to its on_failure actions.                              *)
(***************************************************************************)

Request == [complete : BOOLEAN, shot : BOOLEAN, attach : BOOLEAN,
            reply : {"ok", "refused", "none"}]

Took(b)  == [took |-> b, error |-> FALSE, failed |-> FALSE]
Done     == Took(TRUE)
Ignored  == Took(FALSE)
Errs     == [took |-> FALSE, error |-> TRUE, failed |-> FALSE]

\* remote_vapix_post, _get, _post_path, _put_path and _get_path return the body of any
\* answer, an error page too; nothing only if the transfer fails.
Transferred(q) == q.reply # "none"

(***************************************************************************)
(* Messages to other systems.                                              *)
(***************************************************************************)

\* Every answer outside 2xx is a failure and runs on_failure; a missing URL only errs.
HttpRequest(q) ==
  IF ~q.complete THEN Errs ELSE IF q.reply = "ok" THEN Done ELSE [Errs EXCEPT !.failed = TRUE]

\* Without a topic nothing happens; refused: MQTT_Publish returns 0.
MqttPublish(q) ==
  IF ~q.complete THEN Ignored ELSE IF q.reply = "ok" THEN Done ELSE [Errs EXCEPT !.failed = TRUE]

SparkplugPublish(q) == IF q.complete /\ q.reply = "ok" THEN Done ELSE Errs

\* Only the transfer is looked at: a chat service that answers with an HTTP error counts
\* as success.
ChatPost(q) ==
  IF ~q.complete \/ ~Transferred(q) THEN Errs ELSE Took(q.reply = "ok")

SlackWebhook(q) == ChatPost(q)

TeamsWebhook(q) == ChatPost(q)

\* A snapshot that cannot be taken is an error, but the message goes out without it.
Telegram(q) ==
  LET sent == ChatPost(q) IN
  IF q.complete /\ q.attach /\ ~q.shot THEN [sent EXCEPT !.error = TRUE] ELSE sent

InfluxdbWrite(q) == IF q.complete /\ q.reply = "ok" THEN Done ELSE Errs

\* The mail server's refusal is a failed transfer.
Email(q) ==
  IF ~q.complete \/ q.reply # "ok" THEN Errs
  ELSE [Done EXCEPT !.error = q.attach /\ ~q.shot]

\* No failure is recorded.
FtpUpload(q) == Took(q.complete /\ q.shot /\ q.reply = "ok")

SnapshotUpload(q) == Took(q.complete /\ q.shot /\ q.reply = "ok")

(***************************************************************************)
(* Requests to this or another Axis device.                                *)
(***************************************************************************)

\* VAPIX_GET and VAPIX_POST whose result is thrown away.
Vapix(q) == Took(q.complete /\ q.reply = "ok")

PtzPreset(q) == IF q.complete THEN Vapix(q) ELSE Errs

AudioClip(q) == Vapix(q)

SirenLight(q) == Vapix(q)

\* Slots are scanned until one does not answer: a tour or mask that is not found warns.
GuardTour(q) == Vapix(q)

PrivacyMask(q) == Vapix(q)

SetDeviceParam(q) == Vapix(q)

IrCutFilter(q) == Vapix([q EXCEPT !.complete = TRUE])

SpeakerDisplay(q) == Vapix([q EXCEPT !.complete = TRUE])

Wiper(q) == Vapix([q EXCEPT !.complete = TRUE])

AcapControl(q) == Vapix(q)

ModbusWrite(q) == Vapix([q EXCEPT !.complete = TRUE])

\* A remote device's error page is an answer.
PagingConsoleExecute(q) ==
  IF ~q.complete \/ ~Transferred(q) THEN Errs ELSE Took(q.reply = "ok")

\* The page is read first: an error page holds no layout.
PagingConsoleButton(q) == IF q.complete /\ q.reply = "ok" THEN Done ELSE Errs

FireVapixEvent(q) == IF q.complete /\ q.reply = "ok" THEN Done ELSE Errs

SendSyslog(q) == Took(q.complete)

\* The synchronous actions of execute_from_ex that change nothing inside the engine.
Handlers == {"http_request", "mqtt_publish", "sparkplug_publish", "slack_webhook",
  "teams_webhook", "telegram", "influxdb_write", "email", "ftp_upload", "snapshot_upload",
  "ptz_preset", "audio_clip", "siren_light", "guard_tour", "privacy_mask", "set_device_param",
  "ir_cut_filter", "speaker_display", "wiper", "acap_control", "modbus_write",
  "paging_console_execute", "paging_console_button", "fire_vapix_event", "send_syslog"}

Outcome(type, q) ==
  CASE type = "http_request"           -> HttpRequest(q)
    [] type = "mqtt_publish"           -> MqttPublish(q)
    [] type = "sparkplug_publish"      -> SparkplugPublish(q)
    [] type = "slack_webhook"          -> SlackWebhook(q)
    [] type = "teams_webhook"          -> TeamsWebhook(q)
    [] type = "telegram"               -> Telegram(q)
    [] type = "influxdb_write"         -> InfluxdbWrite(q)
    [] type = "email"                  -> Email(q)
    [] type = "ftp_upload"             -> FtpUpload(q)
    [] type = "snapshot_upload"        -> SnapshotUpload(q)
    [] type = "ptz_preset"             -> PtzPreset(q)
    [] type = "audio_clip"             -> AudioClip(q)
    [] type = "siren_light"            -> SirenLight(q)
    [] type = "guard_tour"             -> GuardTour(q)
    [] type = "privacy_mask"           -> PrivacyMask(q)
    [] type = "set_device_param"       -> SetDeviceParam(q)
    [] type = "ir_cut_filter"          -> IrCutFilter(q)
    [] type = "speaker_display"        -> SpeakerDisplay(q)
    [] type = "wiper"                  -> Wiper(q)
    [] type = "acap_control"           -> AcapControl(q)
    [] type = "modbus_write"           -> ModbusWrite(q)
    [] type = "paging_console_execute" -> PagingConsoleExecute(q)
    [] type = "paging_console_button"  -> PagingConsoleButton(q)
    [] type = "fire_vapix_event"       -> FireVapixEvent(q)
    [] type = "send_syslog"            -> SendSyslog(q)
=============================================================================
