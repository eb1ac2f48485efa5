------------------------------ MODULE Revisions ------------------------------
(***************************************************************************)
(* The fifty-two migrations of apps/api/alembic/versions: for each the     *)
(* statements of its upgrade() and of its downgrade(), as the pieces a     *)
(* COMMIT of its own cuts it into (two for 0005, 0006, 0010, 0018 and      *)
(* 0042, one for the others).  A backfill changes no fact and is left out. *)
(***************************************************************************)
EXTENDS Schema

\* 0001: Initial schema — every table in alppy.models.

first_school ==
    Stamped("school", {"name", "default_curriculum"}, {"canton"})

first_teacher ==
    Stamped("teacher", {"email", "password_hash", "first_name", "last_name", "locale",
        "school_id"}, {"theme", "contrast", "motion", "calm"})
    \cup Keys("teacher", "cascade", {<<"school_id", "school">>})
    \cup Indexed("teacher", {"email", "school_id"})
    \cup {Unique("teacher", "uq_teacher_email", <<"email">>)}

first_school_year ==
    Stamped("school_year", {"label", "starts_on", "ends_on", "is_current", "school_id"}, {})
    \cup Keys("school_year", "cascade", {<<"school_id", "school">>})
    \cup Indexed("school_year", {"school_id"})

first_subject ==
    Stamped("subject", {"key", "labels", "school_id"}, {})
    \cup Keys("subject", "cascade", {<<"school_id", "school">>})
    \cup Indexed("subject", {"school_id"})

first_class ==
    Stamped("class", {"school_year_id", "teacher_id", "code", "school_id"}, {"label"})
    \cup Keys("class", "cascade", {<<"school_id", "school">>,
             <<"school_year_id", "school_year">>})
    \cup Keys("class", "restrict", {<<"teacher_id", "teacher">>})
    \cup Indexed("class", {"teacher_id", "school_year_id", "school_id"})
    \cup {Unique("class", "uq_class_code", <<"school_id", "school_year_id", "code">>)}

first_student ==
    Stamped("student", {"class_id", "school_year_id", "uid", "number", "first_name", "last_name",
        "school_id"}, {})
    \cup Keys("student", "cascade", {<<"school_id", "school">>,
             <<"school_year_id", "school_year">>, <<"class_id", "class">>})
    \cup Indexed("student", {"school_year_id", "uid", "school_id", "class_id"})
    \cup {Unique("student", "uq_student_uid", <<"school_id", "school_year_id", "uid">>),
          Check("student", "ck_student_number_positive", "number", "> 0")}

first_competency ==
    Stamped("competency", {"curriculum", "code", "subject_key", "cycle", "labels", "description"},
        {"parent_id"})
    \cup Keys("competency", "set null", {<<"parent_id", "competency">>})
    \cup {Unique("competency", "uq_competency_code", <<"curriculum", "code">>),
          Index("competency", "ix_competency_subject_cycle", <<"subject_key", "cycle">>)}

first_chapter ==
    Stamped("chapter", {"subject_id", "key", "labels", "position", "school_id"}, {})
    \cup Keys("chapter", "cascade", {<<"subject_id", "subject">>, <<"school_id", "school">>})
    \cup Indexed("chapter", {"subject_id", "school_id"})

first_chapter_competency ==
    Table("chapter_competency", {"chapter_id", "competency_id"}, {})
    \cup {PrimaryKey("chapter_competency", <<"chapter_id", "competency_id">>)}
    \cup Keys("chapter_competency", "cascade", {<<"chapter_id", "chapter">>,
             <<"competency_id", "competency">>})

first_source ==
    Stamped("source", {"subject_id", "filename", "storage_key", "content_type", "size_bytes",
        "sha256", "status", "school_id"}, {"uploaded_by_id", "language", "page_count", "error"})
    \cup Keys("source", "cascade", {<<"school_id", "school">>, <<"subject_id", "subject">>})
    \cup Keys("source", "set null", {<<"uploaded_by_id", "teacher">>})
    \cup Indexed("source", {"school_id", "sha256", "uploaded_by_id", "subject_id"})

first_source_chunk ==
    Stamped("source_chunk", {"source_id", "page", "position", "text", "school_id"}, {"embedding"})
    \cup Keys("source_chunk", "cascade", {<<"school_id", "school">>, <<"source_id", "source">>})
    \cup Indexed("source_chunk", {"school_id", "source_id"})
    \cup {Index("source_chunk", "ix_source_chunk_source_page", <<"source_id", "page">>)}

first_exercise ==
    Stamped("exercise", {"subject_id", "type", "origin", "language", "statement", "difficulty",
        "school_id"}, {"chapter_id", "source_id", "source_chunk_id", "source_page", "options",
        "answer_index", "answer_bool", "answer_text", "explanation", "approved_at",
        "generation_meta"})
    \cup Keys("exercise", "cascade", {<<"school_id", "school">>, <<"subject_id", "subject">>})
    \cup Keys("exercise", "set null", {<<"source_chunk_id", "source_chunk">>,
             <<"source_id", "source">>, <<"chapter_id", "chapter">>})
    \cup Indexed("exercise", {"school_id", "source_chunk_id", "chapter_id", "source_id",
             "subject_id"})
    \cup {Check("exercise", "ck_exercise_difficulty_range", "difficulty", "BETWEEN 1 AND 5"),
          Index("exercise", "ix_exercise_subject_origin", <<"subject_id", "origin">>)}

first_exercise_competency ==
    Table("exercise_competency", {"exercise_id", "competency_id"}, {})
    \cup {PrimaryKey("exercise_competency", <<"exercise_id", "competency_id">>)}
    \cup Keys("exercise_competency", "cascade", {<<"exercise_id", "exercise">>,
             <<"competency_id", "competency">>})

first_exercise_variant ==
    Stamped("exercise_variant", {"exercise_id", "statement", "school_id"}, {"student_id",
        "options", "answer_index", "answer_bool", "explanation", "generation_meta"})
    \cup Keys("exercise_variant", "cascade", {<<"student_id", "student">>,
             <<"school_id", "school">>, <<"exercise_id", "exercise">>})
    \cup Indexed("exercise_variant", {"exercise_id", "student_id", "school_id"})

first_sheet ==
    Stamped("sheet", {"class_id", "subject_id", "title", "target", "language", "layout_version",
        "school_id"}, {"created_by_id", "intent", "blank_pdf_key", "answer_key_pdf_key",
        "rendered_at"})
    \cup Keys("sheet", "cascade", {<<"school_id", "school">>, <<"subject_id", "subject">>,
             <<"class_id", "class">>})
    \cup Keys("sheet", "set null", {<<"created_by_id", "teacher">>})
    \cup Indexed("sheet", {"subject_id", "school_id", "created_by_id", "class_id"})

first_sheet_item ==
    Stamped("sheet_item", {"sheet_id", "exercise_id", "position", "school_id"},
        {"statement_override"})
    \cup Keys("sheet_item", "cascade", {<<"sheet_id", "sheet">>, <<"school_id", "school">>})
    \cup Keys("sheet_item", "restrict", {<<"exercise_id", "exercise">>})
    \cup Indexed("sheet_item", {"exercise_id", "sheet_id", "school_id"})
    \cup {Unique("sheet_item", "uq_sheet_item_position", <<"sheet_id", "position">>)}

first_sheet_instance ==
    Stamped("sheet_instance", {"sheet_id", "student_id", "student_uid", "item_plan", "school_id"},
        {"page_count"})
    \cup Keys("sheet_instance", "cascade", {<<"sheet_id", "sheet">>, <<"student_id", "student">>,
             <<"school_id", "school">>})
    \cup Indexed("sheet_instance", {"student_id", "student_uid", "school_id", "sheet_id"})
    \cup {Unique("sheet_instance", "uq_instance_student", <<"sheet_id", "student_id">>)}

first_scan ==
    Stamped("scan", {"original_filename", "storage_key", "status", "school_id"}, {"sheet_id",
        "uploaded_by_id", "error"})
    \cup Keys("scan", "cascade", {<<"school_id", "school">>})
    \cup Keys("scan", "set null", {<<"sheet_id", "sheet">>, <<"uploaded_by_id", "teacher">>})
    \cup Indexed("scan", {"uploaded_by_id", "school_id", "sheet_id"})

first_scan_page ==
    Stamped("scan_page", {"scan_id", "page_index", "image_key", "registered", "school_id"},
        {"registration_meta", "detected_uid", "uid_confidence", "student_id",
        "sheet_instance_id"})
    \cup Keys("scan_page", "cascade", {<<"scan_id", "scan">>, <<"school_id", "school">>})
    \cup Keys("scan_page", "set null", {<<"sheet_instance_id", "sheet_instance">>,
             <<"student_id", "student">>})
    \cup Indexed("scan_page", {"school_id", "student_id", "sheet_instance_id", "scan_id",
             "detected_uid"})

first_detection ==
    Stamped("detection", {"scan_page_id", "item_index", "confidence", "outcome", "school_id"},
        {"sheet_item_id", "detected_index", "detected_bool", "fill_ratios", "bubble_boxes",
        "corrected_by_id", "corrected_at"})
    \cup Keys("detection", "cascade", {<<"school_id", "school">>,
             <<"scan_page_id", "scan_page">>})
    \cup Keys("detection", "set null", {<<"corrected_by_id", "teacher">>,
             <<"sheet_item_id", "sheet_item">>})
    \cup Indexed("detection", {"scan_page_id", "school_id", "sheet_item_id", "corrected_by_id"})

first_attempt ==
    Stamped("attempt", {"student_id", "exercise_id", "correct", "score", "difficulty",
        "answered_at", "school_id"}, {"sheet_id", "sheet_instance_id", "detection_id"})
    \cup Keys("attempt", "cascade", {<<"student_id", "student">>, <<"school_id", "school">>})
    \cup Keys("attempt", "set null", {<<"detection_id", "detection">>, <<"sheet_id", "sheet">>,
             <<"sheet_instance_id", "sheet_instance">>})
    \cup Keys("attempt", "restrict", {<<"exercise_id", "exercise">>})
    \cup Indexed("attempt", {"exercise_id", "sheet_id", "school_id", "student_id",
             "sheet_instance_id", "detection_id"})
    \cup {Index("attempt", "ix_attempt_student_answered", <<"student_id", "answered_at">>)}

first_mastery_snapshot ==
    Stamped("mastery_snapshot", {"student_id", "competency_id", "computed_at", "score", "band",
        "attempts_count", "school_id"}, {"last_attempt_at"})
    \cup Keys("mastery_snapshot", "cascade", {<<"school_id", "school">>,
             <<"student_id", "student">>, <<"competency_id", "competency">>})
    \cup Indexed("mastery_snapshot", {"competency_id", "school_id", "student_id"})
    \cup {Check("mastery_snapshot", "ck_mastery_snapshot_score_unit_interval", "score",
              ">= 0 AND <= 1"),
          Index("mastery_snapshot", "ix_mastery_student_competency",
              <<"student_id", "competency_id", "computed_at">>)}

first_model_call ==
    Stamped("model_call", {"provider", "model", "purpose", "prompt_sha256", "ok", "school_id"},
        {"prompt_name", "prompt_version", "input_tokens", "output_tokens", "latency_ms",
        "cost_estimate_chf", "error"})
    \cup Keys("model_call", "cascade", {<<"school_id", "school">>})
    \cup Indexed("model_call", {"school_id"})

first_job ==
    Stamped("job", {"kind", "status", "progress", "payload", "school_id"}, {"message", "result",
        "error", "started_at", "finished_at"})
    \cup Keys("job", "cascade", {<<"school_id", "school">>}) \cup Indexed("job", {"school_id"})

first_types ==
    Labels("curriculum_kind", {"LP21", "PER"})
    \cup Labels("locale", {"FR", "DE", "EN"})
    \cup Labels("job_status", {"QUEUED", "RUNNING", "SUCCEEDED", "FAILED"})
    \cup Labels("exercise_type", {"MCQ", "TRUE_FALSE", "OPEN"})
    \cup Labels("exercise_origin", {"TEXTBOOK", "AI_GENERATED"})
    \cup Labels("sheet_target", {"CLASS", "STUDENT", "GROUP"})
    \cup Labels("scan_status", {"UPLOADED", "PROCESSING", "NEEDS_REVIEW", "CONFIRMED", "FAILED"})
    \cup Labels("detection_outcome", {"DETECTED", "LOW_CONFIDENCE", "BLANK", "MULTIPLE",
             "CORRECTED", "NOT_GRADEABLE"})
    \cup Labels("mastery_band", {"SOLID", "OK", "WEAK", "FADING", "NONE"})
    \cup Labels("job_kind", {"INGEST_SOURCE", "RENDER_SHEET", "PROCESS_SCAN",
             "GENERATE_ADAPTIVE"})

Up_0001 ==
    << <<Add(first_types),
        Add(first_school \cup first_teacher \cup first_school_year \cup first_subject
            \cup first_class \cup first_student \cup first_competency
            \cup first_chapter \cup first_chapter_competency \cup first_source
            \cup first_source_chunk \cup first_exercise \cup first_exercise_competency
            \cup first_exercise_variant \cup first_sheet \cup first_sheet_item
            \cup first_sheet_instance \cup first_scan \cup first_scan_page
            \cup first_detection \cup first_attempt \cup first_mastery_snapshot
            \cup first_model_call \cup first_job)>> >>

Down_0001 ==
    << <<DropTable("job"),
        DropTable("model_call"),
        DropTable("mastery_snapshot"),
        DropTable("attempt"),
        DropTable("detection"),
        DropTable("scan_page"),
        DropTable("scan"),
        DropTable("sheet_instance"),
        DropTable("sheet_item"),
        DropTable("sheet"),
        DropTable("exercise_variant"),
        DropTable("exercise_competency"),
        DropTable("exercise"),
        DropTable("source_chunk"),
        DropTable("source"),
        DropTable("chapter_competency"),
        DropTable("chapter"),
        DropTable("competency"),
        DropTable("student"),
        DropTable("class"),
        DropTable("subject"),
        DropTable("school_year"),
        DropTable("teacher"),
        DropTable("school"),
        DropTypes({"job_kind", "mastery_band", "detection_outcome", "scan_status", "sheet_target",
            "exercise_origin", "exercise_type", "job_status", "locale", "curriculum_kind"})>> >>

\* 0002: Source.notice — a truthful caveat on a successful ingest.

Up_0002 ==
    << <<Add(Optional("source", {"notice"}))>> >>

Down_0002 ==
    << <<DropColumns("source", {"notice"})>> >>

\* 0003: Scan correction integrity — the columns F2 needed and did not have.

Up_0003 ==
    << <<Add(Optional("scan", {"storage_keys", "layout_version"})
            \cup Required("scan_page", {"wrong_class", "discarded"})
            \cup Optional("scan_page", {"page_in_copy"})
            \cup Filled("scan_page", {"wrong_class", "discarded"})
            \cup Optional("detection", {"exercise_id", "printed_number", "machine_index",
                     "machine_outcome", "machine_confidence"})
            \cup Keys("detection", "set null", {<<"exercise_id", "exercise">>})
            \cup {Unique("attempt", "uq_attempt_student_exercise_sheet",
                      <<"student_id", "exercise_id", "sheet_id">>)})>> >>

Down_0003 ==
    << <<Drop({<<"uq_attempt_student_exercise_sheet">>}),
        DropColumns("detection", {"machine_confidence", "machine_outcome", "machine_index",
            "printed_number"}),
        Drop({Fk("detection", "exercise_id", "exercise")}),
        DropColumns("detection", {"exercise_id"}),
        DropColumns("scan_page", {"page_in_copy", "discarded", "wrong_class"}),
        DropColumns("scan", {"layout_version", "storage_keys"})>> >>

\* 0004: ``exercise.discarded_at`` — a generated item the teacher threw away.

Up_0004 ==
    << <<Add(Optional("exercise", {"discarded_at"})
            \cup {IndexAmong("exercise", "ix_exercise_discarded", <<"subject_id">>,
                      "discarded_at IS NOT NULL")})>> >>

Down_0004 ==
    << <<Drop({<<"ix_exercise_discarded">>}),
        DropColumns("exercise", {"discarded_at"})>> >>

\* 0005: ``source_section`` — the book's own chapters, and on-demand extraction.

Up_0005 ==
    << <<>>,
       <<AddLabels("exercise_origin", {"TEACHER"}),
        AddLabels("job_kind", {"EXTRACT_SECTION"}),
        Add(Stamped("source_section", {"school_id", "source_id", "title", "page_from", "page_to",
                "position"}, {"label", "extracted_at", "extraction_notice"})
            \cup {NamedKey("source_section", "fk_source_section_school", <<"school_id">>,
                      "school", "cascade"),
                  NamedKey("source_section", "fk_source_section_source", <<"source_id">>,
                      "source", "cascade"),
                  Unique("source_section", "uq_source_section_position",
                      <<"source_id", "position">>),
                  Index("source_section", "ix_source_section_source", <<"source_id", "position">>)}
            \cup Optional("exercise", {"source_section_id"})
            \cup {NamedKey("exercise", "fk_exercise_source_section", <<"source_section_id">>,
                      "source_section", "set null"),
                  Index("exercise", "ix_exercise_source_section",
                      <<"source_section_id", "source_page">>)})>> >>

Down_0005 ==
    << <<Drop({<<"ix_exercise_source_section">>, <<"fk_exercise_source_section">>}),
        DropColumns("exercise", {"source_section_id"}),
        Drop({<<"ix_source_section_source">>}),
        DropTable("source_section")>> >>

\* 0006: ``misconception_note``, sheet lineage, and the group label on a copy.

Up_0006 ==
    << <<>>,
       <<AddLabels("job_kind", {"GENERATE_FEEDBACK"}),
        Add(Stamped("misconception_note", {"school_id", "student_id", "subject_id", "language",
                "notes", "competency_ids"}, {"based_on_sheet_id", "approved_at", "discarded_at",
                "generation_meta"})
            \cup Filled("misconception_note", {"competency_ids"})
            \cup Indexed("misconception_note", {"school_id", "student_id", "subject_id",
                     "based_on_sheet_id"})
            \cup {NamedKey("misconception_note", "fk_misconception_note_school", <<"school_id">>,
                      "school", "cascade"),
                  NamedKey("misconception_note", "fk_misconception_note_student",
                      <<"student_id">>, "student", "cascade"),
                  NamedKey("misconception_note", "fk_misconception_note_subject",
                      <<"subject_id">>, "subject", "cascade"),
                  NamedKey("misconception_note", "fk_misconception_note_sheet",
                      <<"based_on_sheet_id">>, "sheet", "set null"),
                  Index("misconception_note", "ix_misconception_note_student_sheet",
                      <<"student_id", "based_on_sheet_id">>)}
            \cup Optional("sheet", {"derived_from_id", "feedback_pdf_key"})
            \cup Indexed("sheet", {"derived_from_id"})
            \cup {NamedKey("sheet", "fk_sheet_derived_from", <<"derived_from_id">>, "sheet",
                      "set null")}
            \cup Optional("sheet_instance", {"group_label", "feedback_id"})
            \cup Indexed("sheet_instance", {"feedback_id"})
            \cup {NamedKey("sheet_instance", "fk_sheet_instance_feedback", <<"feedback_id">>,
                      "misconception_note", "set null")})>> >>

Down_0006 ==
    << <<Drop({Ix("sheet_instance", "feedback_id"), <<"fk_sheet_instance_feedback">>}),
        DropColumns("sheet_instance", {"feedback_id", "group_label"}),
        DropColumns("sheet", {"feedback_pdf_key"}),
        Drop({Ix("sheet", "derived_from_id"), <<"fk_sheet_derived_from">>}),
        DropColumns("sheet", {"derived_from_id"}),
        Drop({Ix("misconception_note", "school_id"), Ix("misconception_note", "student_id"),
            Ix("misconception_note", "subject_id"), Ix("misconception_note", "based_on_sheet_id"),
            <<"ix_misconception_note_student_sheet">>}),
        DropTable("misconception_note")>> >>

\* 0007: ``event`` — the append-only log the agenda reads.

Up_0007 ==
    << <<NewType("event_kind", {"SOURCE_IMPORTED", "CHAPTER_READ", "SHEET_CREATED",
            "SHEET_RENDERED", "SHEET_PRINTED", "SCAN_UPLOADED", "SCAN_CONFIRMED",
            "ADAPTIVE_PROPOSED", "ADAPTIVE_EXPORTED", "FEEDBACK_WRITTEN", "FEEDBACK_APPROVED"}),
        NewType("event_subject", {"SOURCE", "SHEET", "SCAN", "CLASS"}),
        Add(Stamped("event", {"school_id", "kind", "occurred_at", "subject_type", "subject_id",
                "summary"}, {"actor_id", "class_id", "subject_area_id", "detail"})
            \cup Filled("event", {"summary"})
            \cup Indexed("event", {"class_id", "actor_id", "subject_area_id", "school_id"})
            \cup {NamedKey("event", "fk_event_school", <<"school_id">>, "school", "cascade"),
                  NamedKey("event", "fk_event_teacher", <<"actor_id">>, "teacher", "set null"),
                  NamedKey("event", "fk_event_class", <<"class_id">>, "class", "cascade"),
                  NamedKey("event", "fk_event_subject", <<"subject_area_id">>, "subject",
                      "set null"),
                  Index("event", "ix_event_school_occurred", <<"school_id", "occurred_at">>),
                  Index("event", "ix_event_subject", <<"subject_type", "subject_id">>)})>> >>

Down_0007 ==
    << <<Drop({Ix("event", "school_id"), Ix("event", "subject_area_id"), Ix("event", "actor_id"),
            Ix("event", "class_id"), <<"ix_event_subject">>, <<"ix_event_school_occurred">>}),
        DropTable("event"),
        DropTypesIfPresent({"event_kind", "event_subject"})>> >>

\* 0008: The foreign-key indexes the migrations and the models disagreed about.

Up_0008 ==
    << <<AddIfAbsent(Indexed("detection", {"exercise_id"})
                    \cup Indexed("exercise", {"source_section_id"})
                    \cup Indexed("source_section", {"school_id", "source_id"}))>> >>

Down_0008 ==
    << <<DropIfPresent({Ix("source_section", "source_id"), Ix("source_section", "school_id"),
            Ix("exercise", "source_section_id"), Ix("detection", "exercise_id")})>> >>

\* 0009: An exercise can carry the book's own code, title and a crop of the page.

Up_0009 ==
    << <<Add(Optional("exercise", {"label", "title", "figure_key", "figure_width_mm",
                "figure_height_mm"}))>> >>

Down_0009 ==
    << <<DropColumns("exercise", {"figure_height_mm", "figure_width_mm", "figure_key", "title",
            "label"})>> >>

\* 0010: Written-answer boxes, read by a vision model.

Up_0010 ==
    << <<>>,
       <<AddLabels("detection_outcome", {"PENDING"}),
        AddLabels("job_kind", {"GRADE_OPEN_ANSWERS"}),
        NewType("answer_box_fill", {"LINED", "GRID", "BLANK"}),
        Add(Optional("sheet_item", {"answer_box_lines", "answer_box_fill"})
            \cup {Check("sheet_item", "ck_sheet_item_answer_box_lines", "answer_box_lines",
                      "IN (3, 5, 8, 12)")}
            \cup Stamped("answer_box_placement", {"school_id", "sheet_id", "student_uid",
                     "copy_page", "item_index", "box_lines", "box_fill", "x_mm", "y_mm", "w_mm",
                     "h_mm", "layout_version"}, {"exercise_id"})
            \cup Indexed("answer_box_placement", {"school_id", "sheet_id", "exercise_id"})
            \cup {NamedKey("answer_box_placement", "fk_answer_box_placement_school",
                      <<"school_id">>, "school", "cascade"),
                  NamedKey("answer_box_placement", "fk_answer_box_placement_sheet",
                      <<"sheet_id">>, "sheet", "cascade"),
                  NamedKey("answer_box_placement", "fk_answer_box_placement_exercise",
                      <<"exercise_id">>, "exercise", "set null"),
                  Unique("answer_box_placement", "uq_answer_box_placement_slot",
                      <<"sheet_id", "student_uid", "copy_page", "item_index">>)}
            \cup Optional("detection", {"crop_key", "transcription", "machine_transcription",
                     "verdict_correct", "machine_verdict_correct", "vision_model"}))>> >>

Down_0010 ==
    << <<DropColumns("detection", {"vision_model", "machine_verdict_correct", "verdict_correct",
            "machine_transcription", "transcription", "crop_key"}),
        Drop({Ix("answer_box_placement", "exercise_id"), Ix("answer_box_placement", "sheet_id"),
            Ix("answer_box_placement", "school_id")}),
        DropTable("answer_box_placement"),
        Drop({<<"ck_sheet_item_answer_box_lines">>}),
        DropColumns("sheet_item", {"answer_box_fill", "answer_box_lines"}),
        DropTypesIfPresent({"answer_box_fill"})>> >>

\* 0011: A written-answer box may be switched off: 0 lines.

Up_0011 ==
    << <<Drop({<<"ck_sheet_item_answer_box_lines">>}),
        Add({Check("sheet_item", "ck_sheet_item_answer_box_lines", "answer_box_lines",
                 "IN (0, 3, 5, 8, 12)")})>> >>

Down_0011 ==
    << <<Drop({<<"ck_sheet_item_answer_box_lines">>}),
        Add({Check("sheet_item", "ck_sheet_item_answer_box_lines", "answer_box_lines",
                 "IN (3, 5, 8, 12)")})>> >>

\* 0012: The teacher's expected answer, per sheet item.

Up_0012 ==
    << <<Add(Optional("sheet_item", {"expected_answer"})
            \cup Optional("detection", {"reference_answer"}))>> >>

Down_0012 ==
    << <<DropColumns("detection", {"reference_answer"}),
        DropColumns("sheet_item", {"expected_answer"})>> >>

\* 0013: A written-answer box may be any height up to the page's ceiling.

Up_0013 ==
    << <<Drop({<<"ck_sheet_item_answer_box_lines">>}),
        Add({Check("sheet_item", "ck_sheet_item_answer_box_lines", "answer_box_lines",
                 "BETWEEN 0 AND 14")})>> >>

Down_0013 ==
    << <<Drop({<<"ck_sheet_item_answer_box_lines">>}),
        Add({Check("sheet_item", "ck_sheet_item_answer_box_lines", "answer_box_lines",
                 "IN (0, 3, 5, 8, 12)")})>> >>

\* 0014: The teacher's barème: points for a correct answer, a penalty for a wrong one.

Up_0014 ==
    << <<Add(Required("sheet", {"default_points_correct", "default_points_penalty"})
            \cup Filled("sheet", {"default_points_correct", "default_points_penalty"})
            \cup {Check("sheet", "ck_sheet_default_points_correct", "default_points_correct",
                      "BETWEEN 0 AND 20"),
                  Check("sheet", "ck_sheet_default_points_penalty", "default_points_penalty",
                      "BETWEEN 0 AND 20")}
            \cup Optional("sheet_item", {"points_correct", "points_penalty"})
            \cup {Check("sheet_item", "ck_sheet_item_points_correct", "points_correct",
                      "BETWEEN 0 AND 20"),
                  Check("sheet_item", "ck_sheet_item_points_penalty", "points_penalty",
                      "BETWEEN 0 AND 20")})>> >>

Down_0014 ==
    << <<Drop({<<"ck_sheet_item_points_penalty">>, <<"ck_sheet_item_points_correct">>}),
        DropColumns("sheet_item", {"points_penalty", "points_correct"}),
        Drop({<<"ck_sheet_default_points_penalty">>, <<"ck_sheet_default_points_correct">>}),
        DropColumns("sheet", {"default_points_penalty", "default_points_correct"})>> >>

\* 0015: Reopening a confirmed pile, and knowing which confirmation wrote a grade.

Up_0015 ==
    << <<Add(Required("scan", {"confirmation_count"})
            \cup Optional("scan", {"confirmed_at", "reopened_at"})
            \cup Filled("scan", {"confirmation_count"})
            \cup Optional("attempt", {"confirmed_scan_id"})
            \cup Keys("attempt", "set null", {<<"confirmed_scan_id", "scan">>})
            \cup Indexed("attempt", {"confirmed_scan_id"})),
        AddLabels("event_kind", {"SCAN_REOPENED"})>> >>

Down_0015 ==
    << <<Drop({Ix("attempt", "confirmed_scan_id"), Fk("attempt", "confirmed_scan_id", "scan")}),
        DropColumns("attempt", {"confirmed_scan_id"}),
        DropColumns("scan", {"confirmation_count", "reopened_at", "confirmed_at"})>> >>

\* 0016: Class -> Branch -> Competence -> Theme -> Sheet, as facts rather than joins.

Up_0016 ==
    << <<Add(Optional("chapter", {"primary_competency_id"})
            \cup Keys("chapter", "set null", {<<"primary_competency_id", "competency">>})
            \cup Indexed("chapter", {"primary_competency_id"})
            \cup {Unique("chapter", "uq_chapter_key", <<"school_id", "subject_id", "key">>)}
            \cup Table("class_subject", {"class_id", "subject_id", "position"}, {})
            \cup {PrimaryKey("class_subject", <<"class_id", "subject_id">>)}
            \cup Keys("class_subject", "cascade", {<<"class_id", "class">>,
                     <<"subject_id", "subject">>})
            \cup Optional("sheet", {"chapter_id"})),
        Require("sheet", {"chapter_id"}),
        Add(Keys("sheet", "restrict", {<<"chapter_id", "chapter">>})
            \cup Indexed("sheet", {"chapter_id"}))>> >>

Down_0016 ==
    << <<Drop({Ix("sheet", "chapter_id"), Fk("sheet", "chapter_id", "chapter")}),
        DropColumns("sheet", {"chapter_id"}),
        DropTable("class_subject"),
        Drop({<<"uq_chapter_key">>, Ix("chapter", "primary_competency_id"),
            Fk("chapter", "primary_competency_id", "competency")}),
        DropColumns("chapter", {"primary_competency_id"})>> >>

\* 0017: The prompt log: what was actually sent to a model, for debugging.

Up_0017 ==
    << <<Add(Entity("prompt_log", {"school_id", "provider", "model", "purpose", "prompt_sha256",
                "ok"}, {"model_call_id", "job_id", "sheet_id", "request_id", "prompt_name",
                "prompt_version", "system_text", "user_text", "response_text", "input_tokens",
                "output_tokens", "latency_ms", "error"})
            \cup Keys("prompt_log", "cascade", {<<"school_id", "school">>})
            \cup Keys("prompt_log", "set null", {<<"model_call_id", "model_call">>,
                     <<"job_id", "job">>, <<"sheet_id", "sheet">>})
            \cup Indexed("prompt_log", {"school_id", "model_call_id", "job_id", "sheet_id"})
            \cup {Index("prompt_log", "ix_prompt_log_school_created",
                      <<"school_id", "created_at">>),
                  Index("prompt_log", "ix_prompt_log_purpose_created",
                      <<"purpose", "created_at">>),
                  Index("prompt_log", "ix_prompt_log_request", <<"request_id">>)})>> >>

Down_0017 ==
    << <<Drop({<<"ix_prompt_log_request">>, <<"ix_prompt_log_purpose_created">>,
            <<"ix_prompt_log_school_created">>, Ix("prompt_log", "sheet_id"),
            Ix("prompt_log", "job_id"), Ix("prompt_log", "model_call_id"),
            Ix("prompt_log", "school_id")}),
        DropTable("prompt_log")>> >>

\* 0018: Proposing an adaptive batch becomes a job.

\* Faulty variant: the COMMIT comes after the table, before the version row.
Up_0018_CommitsLast ==
    << <<AddLabels("job_kind", {"PROPOSE_ADAPTIVE"}),
        Add(Entity("adaptive_proposal", {"school_id", "job_id", "payload"}, {})
            \cup Keys("adaptive_proposal", "cascade", {<<"school_id", "school">>,
                     <<"job_id", "job">>})
            \cup Indexed("adaptive_proposal", {"school_id", "job_id"})
            \cup {Unique("adaptive_proposal", "uq_adaptive_proposal_job", <<"job_id">>)})>>,
       <<>> >>

Up_0018 ==
    << <<>>,
       <<AddLabels("job_kind", {"PROPOSE_ADAPTIVE"}),
        Add(Entity("adaptive_proposal", {"school_id", "job_id", "payload"}, {})
            \cup Keys("adaptive_proposal", "cascade", {<<"school_id", "school">>,
                     <<"job_id", "job">>})
            \cup Indexed("adaptive_proposal", {"school_id", "job_id"})
            \cup {Unique("adaptive_proposal", "uq_adaptive_proposal_job", <<"job_id">>)})>> >>

Down_0018 ==
    << <<Drop({Ix("adaptive_proposal", "job_id"), Ix("adaptive_proposal", "school_id")}),
        DropTable("adaptive_proposal")>> >>

\* 0019: A student sits in many classes, and exactly one of them minted their UID.

Up_0019 ==
    << <<RenameColumn("student", "class_id", "home_class_id"),
        Drop({Fk("student", "class_id", "class")}),
        Add(Keys("student", "restrict", {<<"home_class_id", "class">>})),
        Drop({Ix("student", "class_id")}),
        Add(Indexed("student", {"home_class_id"})
            \cup Table("class_student", {"class_id", "student_id", "enrolled_at"}, {})
            \cup {PrimaryKey("class_student", <<"class_id", "student_id">>)}
            \cup Filled("class_student", {"enrolled_at"})
            \cup Keys("class_student", "cascade", {<<"class_id", "class">>,
                     <<"student_id", "student">>})
            \cup Indexed("class_student", {"student_id"}))>> >>

Down_0019 ==
    << <<Drop({Ix("class_student", "student_id")}),
        DropTable("class_student"),
        Drop({Ix("student", "home_class_id"), Fk("student", "home_class_id", "class")}),
        RenameColumn("student", "home_class_id", "class_id"),
        Add(Keys("student", "cascade", {<<"class_id", "class">>})
            \cup Indexed("student", {"class_id"}))>> >>

\* 0020: A sheet may answer several sheets, and one of them is the principal.

Up_0020 ==
    << <<Add(Table("sheet_source", {"sheet_id", "source_sheet_id", "position"}, {})
            \cup {PrimaryKey("sheet_source", <<"sheet_id", "source_sheet_id">>)}
            \cup Keys("sheet_source", "cascade", {<<"sheet_id", "sheet">>,
                     <<"source_sheet_id", "sheet">>})
            \cup Indexed("sheet_source", {"source_sheet_id"}))>> >>

Down_0020 ==
    << <<Drop({Ix("sheet_source", "source_sheet_id")}),
        DropTable("sheet_source")>> >>

\* 0021: A teacher is assigned a branch in a class, and may work at several schools.

Up_0021 ==
    << <<RenameColumn("class", "teacher_id", "head_teacher_id"),
        Drop({Fk("class", "teacher_id", "teacher")}),
        Add(Keys("class", "restrict", {<<"head_teacher_id", "teacher">>})),
        Drop({Ix("class", "teacher_id")}),
        Add(Indexed("class", {"head_teacher_id"})
            \cup Table("class_teacher_subject", {"class_id", "teacher_id", "subject_id",
                     "assigned_at"}, {})
            \cup {PrimaryKey("class_teacher_subject", <<"class_id", "teacher_id", "subject_id">>)}
            \cup Filled("class_teacher_subject", {"assigned_at"})
            \cup Keys("class_teacher_subject", "restrict", {<<"teacher_id", "teacher">>})
            \cup {NamedKey("class_teacher_subject", "fk_class_teacher_subject_class_subject",
                      <<"class_id", "subject_id">>, "class_subject", "cascade"),
                  Index("class_teacher_subject", "ix_class_teacher_subject_teacher",
                      <<"teacher_id", "class_id">>)}),
        RenameColumn("teacher", "school_id", "home_school_id"),
        Drop({Fk("teacher", "school_id", "school")}),
        Add(Keys("teacher", "cascade", {<<"home_school_id", "school">>})),
        Drop({Ix("teacher", "school_id")}),
        Add(Indexed("teacher", {"home_school_id"})
            \cup Table("teacher_school", {"teacher_id", "school_id", "joined_at"}, {})
            \cup {PrimaryKey("teacher_school", <<"teacher_id", "school_id">>)}
            \cup Filled("teacher_school", {"joined_at"})
            \cup Keys("teacher_school", "cascade", {<<"teacher_id", "teacher">>,
                     <<"school_id", "school">>})
            \cup {Index("teacher_school", "ix_teacher_school_school",
                      <<"school_id", "teacher_id">>)})>> >>

Down_0021 ==
    << <<Drop({<<"ix_teacher_school_school">>}),
        DropTable("teacher_school"),
        Drop({Ix("teacher", "home_school_id"), Fk("teacher", "home_school_id", "school")}),
        RenameColumn("teacher", "home_school_id", "school_id"),
        Add(Keys("teacher", "cascade", {<<"school_id", "school">>})
            \cup Indexed("teacher", {"school_id"})),
        Drop({<<"ix_class_teacher_subject_teacher">>}),
        DropTable("class_teacher_subject"),
        Drop({Ix("class", "head_teacher_id"), Fk("class", "head_teacher_id", "teacher")}),
        RenameColumn("class", "head_teacher_id", "teacher_id"),
        Add(Keys("class", "restrict", {<<"teacher_id", "teacher">>})
            \cup Indexed("class", {"teacher_id"}))>> >>

\* 0022: The teacher edits their own school's nouns.

Up_0022 ==
    << <<Add({Unique("subject", "uq_subject_key", <<"school_id", "key">>)}
            \cup Optional("source", {"title"}))>> >>

Down_0022 ==
    << <<DropColumns("source", {"title"}),
        Drop({<<"uq_subject_key">>})>> >>

\* 0023: A textbook's bibliographic facts, and a branch-level history cache.

Up_0023 ==
    << <<Add(Optional("source", {"publisher", "isbn", "url"})
            \cup Entity("mastery_branch_snapshot", {"school_id", "student_id", "subject_id",
                     "computed_at", "score", "band", "child_count", "assessed_child_count"}, {})
            \cup Keys("mastery_branch_snapshot", "cascade", {<<"school_id", "school">>,
                     <<"student_id", "student">>, <<"subject_id", "subject">>})
            \cup Indexed("mastery_branch_snapshot", {"school_id", "student_id", "subject_id"})
            \cup {Check("mastery_branch_snapshot",
                      "ck_mastery_branch_snapshot_branch_score_unit_interval", "score",
                      ">= 0 AND <= 1"),
                  Index("mastery_branch_snapshot", "ix_mastery_branch_student",
                      <<"student_id", "subject_id", "computed_at">>)})>> >>

Down_0023 ==
    << <<Drop({<<"ix_mastery_branch_student">>, Ix("mastery_branch_snapshot", "subject_id"),
            Ix("mastery_branch_snapshot", "student_id"),
            Ix("mastery_branch_snapshot", "school_id")}),
        DropTable("mastery_branch_snapshot"),
        DropColumns("source", {"url", "isbn", "publisher"})>> >>

\* 0024: Row-level security: the database stops taking the application's word for it.

ScopedTables ==
    {"adaptive_proposal", "answer_box_placement", "attempt", "chapter", "class", "detection",
        "event", "exercise", "exercise_variant", "job", "mastery_branch_snapshot",
        "mastery_snapshot", "misconception_note", "model_call", "prompt_log", "scan", "scan_page",
        "school_year", "sheet", "sheet_instance", "sheet_item", "source", "source_chunk",
        "source_section", "student", "subject"}

LinkedTables ==
    {<<"class_student", "class">>, <<"class_subject", "class">>,
        <<"class_teacher_subject", "class">>, <<"chapter_competency", "chapter">>,
        <<"exercise_competency", "exercise">>, <<"sheet_source", "sheet">>}

Up_0024 ==
    << <<Add(Policed(ScopedTables) \cup PolicedThrough(LinkedTables) \cup {SchoolPolicy("member")}),
        Add({TenantOfJob})>> >>

Down_0024 ==
    << <<DropFunction,
        DropPolicies({"school"} \cup {l[1] : l \in LinkedTables} \cup ScopedTables)>> >>

\* 0025: The three tables whose timestamps the database never learned to fill.

Up_0025 ==
    << <<Add(Filled("prompt_log", {"created_at", "updated_at"})
            \cup Filled("adaptive_proposal", {"created_at", "updated_at"})
            \cup Filled("mastery_branch_snapshot", {"created_at", "updated_at"}))>> >>

Down_0025 ==
    << <<Unfill("prompt_log", {"created_at", "updated_at"}),
        Unfill("adaptive_proposal", {"created_at", "updated_at"}),
        Unfill("mastery_branch_snapshot", {"created_at", "updated_at"})>> >>

\* 0026: A homeroom and a niveau group are both classes, and the product cannot tell.

Up_0026 ==
    << <<NewType("class_kind", {"homeroom", "course"}),
        Add(Optional("class", {"kind"}))>> >>

Down_0026 ==
    << <<DropColumns("class", {"kind"}),
        DropTypesIfPresent({"class_kind"})>> >>

\* 0027: A membership ends, and the fact that it existed outlives it.

Up_0027 ==
    << <<Add(Optional("class_student", {"valid_from", "valid_to"})),
        Require("class_student", {"valid_from"}),
        Add(Filled("class_student", {"valid_from"})),
        Drop({Pk("class_student")}),
        Add({PrimaryKey("class_student", <<"class_id", "student_id", "valid_from">>)}
            \cup {UniqueAmong("class_student", "uq_class_student_open",
                      <<"class_id", "student_id">>, "valid_to IS NULL")}
            \cup Optional("class_teacher_subject", {"valid_from", "valid_to"})),
        Require("class_teacher_subject", {"valid_from"}),
        Add(Filled("class_teacher_subject", {"valid_from"})),
        Drop({Pk("class_teacher_subject")}),
        Add({PrimaryKey("class_teacher_subject",
                 <<"class_id", "teacher_id", "subject_id", "valid_from">>)}
            \cup {UniqueAmong("class_teacher_subject", "uq_class_teacher_subject_open",
                      <<"class_id", "teacher_id", "subject_id">>, "valid_to IS NULL")}
            \cup Optional("teacher_school", {"valid_from", "valid_to"})),
        Require("teacher_school", {"valid_from"}),
        Add(Filled("teacher_school", {"valid_from"})),
        Drop({Pk("teacher_school")}),
        Add({PrimaryKey("teacher_school", <<"teacher_id", "school_id", "valid_from">>)}
            \cup {UniqueAmong("teacher_school", "uq_teacher_school_open",
                      <<"teacher_id", "school_id">>, "valid_to IS NULL")}),
        DropPolicies({"school"}),
        Add({SchoolPolicy("open member")})>> >>

Down_0027 ==
    << <<DropPolicies({"school"}),
        Add({SchoolPolicy("member")}),
        Drop({<<"uq_class_student_open">>, Pk("class_student")}),
        Add({PrimaryKey("class_student", <<"class_id", "student_id">>)}),
        DropColumns("class_student", {"valid_to", "valid_from"}),
        Drop({<<"uq_class_teacher_subject_open">>, Pk("class_teacher_subject")}),
        Add({PrimaryKey("class_teacher_subject", <<"class_id", "teacher_id", "subject_id">>)}),
        DropColumns("class_teacher_subject", {"valid_to", "valid_from"}),
        Drop({<<"uq_teacher_school_open">>, Pk("teacher_school")}),
        Add({PrimaryKey("teacher_school", <<"teacher_id", "school_id">>)}),
        DropColumns("teacher_school", {"valid_to", "valid_from"})>> >>

\* 0028: A pupil outlives the school year; the row that carried them did not.

Up_0028 ==
    << <<Add(Stamped("person", {"school_id", "first_name", "last_name"}, {"anonymised_at"})
            \cup Keys("person", "cascade", {<<"school_id", "school">>})
            \cup Indexed("person", {"school_id"}) \cup Optional("student", {"person_id"})
            \cup Keys("student", "cascade", {<<"person_id", "person">>}) \cup Policed({"person"})),
        Require("student", {"person_id"}),
        Add(Indexed("student", {"person_id"})),
        Drop({Fk("attempt", "student_id", "student")}),
        RenameColumn("attempt", "student_id", "person_id"),
        Add(Keys("attempt", "cascade", {<<"person_id", "person">>})),
        Rename(Ix("attempt", "student_id"), Ix("attempt", "person_id")),
        Rename(<<"ix_attempt_student_answered">>, <<"ix_attempt_person_answered">>),
        Drop({Fk("mastery_snapshot", "student_id", "student")}),
        RenameColumn("mastery_snapshot", "student_id", "person_id"),
        Add(Keys("mastery_snapshot", "cascade", {<<"person_id", "person">>})),
        Rename(Ix("mastery_snapshot", "student_id"), Ix("mastery_snapshot", "person_id")),
        Rename(<<"ix_mastery_student_competency">>, <<"ix_mastery_person_competency">>),
        Drop({Fk("mastery_branch_snapshot", "student_id", "student")}),
        RenameColumn("mastery_branch_snapshot", "student_id", "person_id"),
        Add(Keys("mastery_branch_snapshot", "cascade", {<<"person_id", "person">>})),
        Rename(Ix("mastery_branch_snapshot", "student_id"),
            Ix("mastery_branch_snapshot", "person_id")),
        Rename(<<"ix_mastery_branch_student">>, <<"ix_mastery_branch_person">>),
        Drop({<<"fk_misconception_note_student">>}),
        RenameColumn("misconception_note", "student_id", "person_id"),
        Add(Keys("misconception_note", "cascade", {<<"person_id", "person">>})),
        Rename(Ix("misconception_note", "student_id"), Ix("misconception_note", "person_id")),
        Rename(<<"ix_misconception_note_student_sheet">>,
            <<"ix_misconception_note_person_sheet">>),
        Rename(<<"uq_attempt_student_exercise_sheet">>, <<"uq_attempt_person_exercise_sheet">>)>> >>

Down_0028 ==
    << <<Rename(<<"uq_attempt_person_exercise_sheet">>, <<"uq_attempt_student_exercise_sheet">>),
        Rename(Ix("attempt", "person_id"), Ix("attempt", "student_id")),
        Rename(<<"ix_attempt_person_answered">>, <<"ix_attempt_student_answered">>),
        Drop({Fk("attempt", "person_id", "person")}),
        RenameColumn("attempt", "person_id", "student_id"),
        Add(Keys("attempt", "cascade", {<<"student_id", "student">>})),
        Rename(Ix("mastery_snapshot", "person_id"), Ix("mastery_snapshot", "student_id")),
        Rename(<<"ix_mastery_person_competency">>, <<"ix_mastery_student_competency">>),
        Drop({Fk("mastery_snapshot", "person_id", "person")}),
        RenameColumn("mastery_snapshot", "person_id", "student_id"),
        Add(Keys("mastery_snapshot", "cascade", {<<"student_id", "student">>})),
        Rename(Ix("mastery_branch_snapshot", "person_id"),
            Ix("mastery_branch_snapshot", "student_id")),
        Rename(<<"ix_mastery_branch_person">>, <<"ix_mastery_branch_student">>),
        Drop({Fk("mastery_branch_snapshot", "person_id", "person")}),
        RenameColumn("mastery_branch_snapshot", "person_id", "student_id"),
        Add(Keys("mastery_branch_snapshot", "cascade", {<<"student_id", "student">>})),
        Rename(Ix("misconception_note", "person_id"), Ix("misconception_note", "student_id")),
        Rename(<<"ix_misconception_note_person_sheet">>,
            <<"ix_misconception_note_student_sheet">>),
        Drop({Fk("misconception_note", "person_id", "person")}),
        RenameColumn("misconception_note", "person_id", "student_id"),
        Add({NamedKey("misconception_note", "fk_misconception_note_student", <<"student_id">>,
                 "student", "cascade")}),
        Drop({Ix("student", "person_id"), Fk("student", "person_id", "person")}),
        DropColumns("student", {"person_id"}),
        DropPolicies({"person"}),
        Drop({Ix("person", "school_id")}),
        DropTable("person")>> >>

\* 0029: A job belongs to a class, a branch and the teacher who queued it.

Up_0029 ==
    << <<Add(Optional("job", {"class_id", "subject_id", "created_by_id"})
            \cup Keys("job", "cascade", {<<"class_id", "class">>, <<"subject_id", "subject">>})
            \cup Keys("job", "set null", {<<"created_by_id", "teacher">>})
            \cup Indexed("job", {"class_id", "subject_id", "created_by_id"}))>> >>

Down_0029 ==
    << <<Drop({Ix("job", "created_by_id"), Ix("job", "subject_id"), Ix("job", "class_id"),
            Fk("job", "created_by_id", "teacher"), Fk("job", "subject_id", "subject"),
            Fk("job", "class_id", "class")}),
        DropColumns("job", {"created_by_id", "subject_id", "class_id"})>> >>

\* 0030: An answer box belongs to one render, not to a sheet.

Up_0030 ==
    << <<Add(Required("sheet", {"render_generation"}) \cup Filled("sheet", {"render_generation"})
            \cup Optional("answer_box_placement", {"render_generation"})
            \cup Optional("scan", {"render_generation"})),
        Drop({<<"uq_answer_box_placement_slot">>}),
        Add({Unique("answer_box_placement", "uq_answer_box_placement_slot",
                 <<"sheet_id", "render_generation", "student_uid", "copy_page", "item_index">>)})>> >>

\* Faulty variant: forgets the scan's generation.
Down_0030_KeepsScan ==
    << <<Drop({<<"uq_answer_box_placement_slot">>}),
        Add({Unique("answer_box_placement", "uq_answer_box_placement_slot",
                 <<"sheet_id", "student_uid", "copy_page", "item_index">>)}),
        DropColumns("answer_box_placement", {"render_generation"}),
        DropColumns("sheet", {"render_generation"})>> >>

Down_0030 ==
    << <<Drop({<<"uq_answer_box_placement_slot">>}),
        Add({Unique("answer_box_placement", "uq_answer_box_placement_slot",
                 <<"sheet_id", "student_uid", "copy_page", "item_index">>)}),
        DropColumns("scan", {"render_generation"}),
        DropColumns("answer_box_placement", {"render_generation"}),
        DropColumns("sheet", {"render_generation"})>> >>

\* 0031: The pile a job is about, as a column.

Up_0031 ==
    << <<Add(Optional("job", {"scan_id"}) \cup Keys("job", "cascade", {<<"scan_id", "scan">>})
            \cup Indexed("job", {"scan_id"}))>> >>

Down_0031 ==
    << <<Drop({Ix("job", "scan_id"), Fk("job", "scan_id", "scan")}),
        DropColumns("job", {"scan_id"})>> >>

\* 0032: Joining and leaving a staffroom become events.

Up_0032 ==
    << <<AddLabels("event_kind", {"TEACHER_JOINED", "TEACHER_LEFT"}),
        AddLabels("event_subject", {"TEACHER"})>> >>

Down_0032 ==
    << <<>> >>

\* 0033: A retry stops doing the work twice.

Up_0033 ==
    << <<Add(Stamped("idempotency_key", {"school_id", "endpoint", "key"}, {"response"})
            \cup Keys("idempotency_key", "cascade", {<<"school_id", "school">>})
            \cup Indexed("idempotency_key", {"school_id"})
            \cup {Unique("idempotency_key", "uq_idempotency_key",
                      <<"school_id", "endpoint", "key">>),
                  Index("idempotency_key", "ix_idempotency_key_created", <<"created_at">>)}
            \cup Policed({"idempotency_key"}))>> >>

Down_0033 ==
    << <<Drop({Ix("idempotency_key", "school_id"), <<"ix_idempotency_key_created">>}),
        DropTable("idempotency_key")>> >>

\* 0034: A returned paper's total stops moving.

Up_0034 ==
    << <<Add(Optional("sheet_instance", {"points_possible"}))>> >>

Down_0034 ==
    << <<DropColumns("sheet_instance", {"points_possible"})>> >>

\* 0035: A verdict records which prompt produced it.

Up_0035 ==
    << <<Add(Optional("detection", {"vision_prompt_version"}))>> >>

Down_0035 ==
    << <<DropColumns("detection", {"vision_prompt_version"})>> >>

\* 0036: A school year is written `2026/27`, and the database says so.

Up_0036 ==
    << <<Add({Check("school_year", "ck_school_year_label", "label", "LIKE ____/__")})>> >>

Down_0036 ==
    << <<Drop({<<"ck_school_year_label">>})>> >>

\* 0037: Approving an exercise, and editing an answer key, become events.

Up_0037 ==
    << <<AddLabels("event_kind", {"EXERCISE_APPROVED", "EXERCISE_EDITED"}),
        AddLabels("event_subject", {"EXERCISE"})>> >>

Down_0037 ==
    << <<>> >>

\* 0038: Projector mode, as a preference that follows the teacher.

Up_0038 ==
    << <<Add(Optional("teacher", {"discreet"}))>> >>

Down_0038 ==
    << <<DropColumns("teacher", {"discreet"})>> >>

\* 0039: The other direction of exercise_competency.

Up_0039 ==
    << <<Add({Index("exercise_competency", "ix_exercise_competency_competency",
                 <<"competency_id">>)})>> >>

Down_0039 ==
    << <<Drop({<<"ix_exercise_competency_competency">>})>> >>

\* 0040: When a sheet went to the photocopier, as a column.

Up_0040 ==
    << <<Add(Optional("sheet", {"printed_at"}))>> >>

Down_0040 ==
    << <<DropColumns("sheet", {"printed_at"})>> >>

\* 0041: A pupil's names can be removed without removing the pupil.

Up_0041 ==
    << <<Relax("person", {"first_name", "last_name"}),
        Relax("student", {"first_name", "last_name"})>> >>

Down_0041 ==
    << <<Require("person", {"first_name", "last_name"}),
        Require("student", {"first_name", "last_name"})>> >>

\* 0042: Retrieval stops reading the whole corpus to answer one question.

Up_0042 ==
    << <<>>,
       <<BuildConcurrently(EmbeddingIndex)>> >>

Down_0042 ==
    << <<>>,
       <<DropConcurrently(EmbeddingIndex)>> >>

\* 0043: Three indexes nothing could use, and eighteen nothing ever did.

Up_0043 ==
    << <<Add(Indexed("chapter_competency", {"competency_id"})
            \cup Indexed("class_subject", {"subject_id"})
            \cup Indexed("competency", {"parent_id"})),
        Drop({Ix("answer_box_placement", "sheet_id"), Ix("attempt", "person_id"),
            Ix("chapter", "school_id"), Ix("class", "school_id"), Ix("event", "school_id"),
            Ix("exercise", "source_section_id"), Ix("exercise", "subject_id"),
            Ix("idempotency_key", "school_id"), Ix("mastery_branch_snapshot", "person_id"),
            Ix("mastery_snapshot", "person_id"), Ix("misconception_note", "person_id"),
            Ix("prompt_log", "school_id"), Ix("sheet_instance", "sheet_id"),
            Ix("sheet_item", "sheet_id"), Ix("source_chunk", "source_id"),
            Ix("source_section", "source_id"), Ix("student", "school_id"),
            Ix("subject", "school_id")})>> >>

Down_0043 ==
    << <<Add(Indexed("answer_box_placement", {"sheet_id"}) \cup Indexed("attempt", {"person_id"})
            \cup Indexed("chapter", {"school_id"}) \cup Indexed("class", {"school_id"})
            \cup Indexed("event", {"school_id"})
            \cup Indexed("exercise", {"source_section_id", "subject_id"})
            \cup Indexed("idempotency_key", {"school_id"})
            \cup Indexed("mastery_branch_snapshot", {"person_id"})
            \cup Indexed("mastery_snapshot", {"person_id"})
            \cup Indexed("misconception_note", {"person_id"})
            \cup Indexed("prompt_log", {"school_id"}) \cup Indexed("sheet_instance", {"sheet_id"})
            \cup Indexed("sheet_item", {"sheet_id"}) \cup Indexed("source_chunk", {"source_id"})
            \cup Indexed("source_section", {"source_id"}) \cup Indexed("student", {"school_id"})
            \cup Indexed("subject", {"school_id"})),
        Drop({Ix("chapter_competency", "competency_id"), Ix("class_subject", "subject_id"),
            Ix("competency", "parent_id")})>> >>

\* 0044: One year per label, and one current year per school.

Up_0044 ==
    << <<Add({Unique("school_year", "uq_school_year_label", <<"school_id", "label">>),
             UniqueAmong("school_year", "uq_school_year_current", <<"school_id">>, "is_current")})>> >>

Down_0044 ==
    << <<Drop({<<"uq_school_year_current">>, <<"uq_school_year_label">>})>> >>

\* 0045: The anti-double-count backstop stops having a hole, and gains a partition key.

Up_0045 ==
    << <<Drop({<<"uq_attempt_person_exercise_sheet">>}),
        Add({UniqueWithNulls("attempt", "uq_attempt_person_exercise_sheet",
                 <<"person_id", "exercise_id", "sheet_id", "answered_at">>)})>> >>

Down_0045 ==
    << <<Drop({<<"uq_attempt_person_exercise_sheet">>}),
        Add({Unique("attempt", "uq_attempt_person_exercise_sheet",
                 <<"person_id", "exercise_id", "sheet_id">>)})>> >>

\* 0046: A note's competencies become rows the database can check.

Up_0046 ==
    << <<Add(Table("misconception_note_competency", {"note_id", "competency_id"}, {})
            \cup {PrimaryKey("misconception_note_competency", <<"note_id", "competency_id">>)}
            \cup Keys("misconception_note_competency", "cascade",
                     {<<"note_id", "misconception_note">>, <<"competency_id", "competency">>})
            \cup Indexed("misconception_note_competency", {"competency_id"})),
        DropColumns("misconception_note", {"competency_ids"})>> >>

Down_0046 ==
    << <<Add(Required("misconception_note", {"competency_ids"})
            \cup Filled("misconception_note", {"competency_ids"})),
        Drop({Ix("misconception_note_competency", "competency_id")}),
        DropTable("misconception_note_competency")>> >>

\* 0047: Discarding a page records who did it and when.

Up_0047 ==
    << <<Add(Optional("scan_page", {"discarded_at", "discarded_by_id"})
            \cup Keys("scan_page", "set null", {<<"discarded_by_id", "teacher">>})),
        DropColumns("scan_page", {"discarded"})>> >>

Down_0047 ==
    << <<Add(Required("scan_page", {"discarded"}) \cup Filled("scan_page", {"discarded"})),
        Drop({Fk("scan_page", "discarded_by_id", "teacher")}),
        DropColumns("scan_page", {"discarded_by_id", "discarded_at"})>> >>

\* 0048: Deleting a Branch stops depending on whether anyone printed a sheet.

Up_0048 ==
    << <<Drop({Fk("chapter", "subject_id", "subject")}),
        Add(Keys("chapter", "restrict", {<<"subject_id", "subject">>}))>> >>

Down_0048 ==
    << <<Drop({Fk("chapter", "subject_id", "subject")}),
        Add(Keys("chapter", "cascade", {<<"subject_id", "subject">>}))>> >>

\* 0049: A remplaçant is not a titulaire, and the staffing row could not say so.

Up_0049 ==
    << <<NewType("staffing_role", {"TITULAIRE", "APPUI", "REMPLACANT", "CO_ENSEIGNANT"}),
        Add(Optional("class_teacher_subject", {"role"}))>> >>

Down_0049 ==
    << <<DropColumns("class_teacher_subject", {"role"}),
        DropTypesIfPresent({"staffing_role"})>> >>

\* 0050: Reading a pupil's record leaves a trace.

Up_0050 ==
    << <<NewType("access_subject", {"STUDENT", "CLASS"}),
        Add(Stamped("access_log", {"school_id", "subject_type", "subject_id", "action",
                "occurred_at"}, {"teacher_id", "request_id"})
            \cup Filled("access_log", {"occurred_at"})
            \cup Keys("access_log", "cascade", {<<"school_id", "school">>})
            \cup Keys("access_log", "set null", {<<"teacher_id", "teacher">>})
            \cup Indexed("access_log", {"school_id"})
            \cup {Index("access_log", "ix_access_log_subject",
                      <<"subject_type", "subject_id", "occurred_at">>),
                  Index("access_log", "ix_access_log_teacher", <<"teacher_id", "occurred_at">>)}
            \cup Policed({"access_log"}))>> >>

Down_0050 ==
    << <<DropPolicies({"access_log"}),
        Drop({<<"ix_access_log_teacher">>, <<"ix_access_log_subject">>,
            Ix("access_log", "school_id")}),
        DropTable("access_log"),
        DropTypesIfPresent({"access_subject"})>> >>

\* 0051: The curriculum gains its real levels, an edition, and a word for streaming.

Up_0051 ==
    << <<NewType("competency_kind", {"DOMAINE", "OBJECTIF", "COMPOSANTE", "PROGRESSION",
            "ATTENTE"}),
        NewType("curriculum_year", {"H9", "H10", "H11"}),
        Add(Stamped("curriculum_edition", {"curriculum", "edition"}, {"valid_from", "valid_to"})
            \cup {Unique("curriculum_edition", "uq_curriculum_edition",
                      <<"curriculum", "edition">>)}
            \cup Stamped("stream", {"canton", "code", "labels", "position"}, {})
            \cup {Unique("stream", "uq_stream_code", <<"canton", "code">>),
                  Index("stream", "ix_stream_canton_position", <<"canton", "position">>)}
            \cup Optional("class", {"stream_id"})
            \cup Keys("class", "restrict", {<<"stream_id", "stream">>})
            \cup Indexed("class", {"stream_id"})
            \cup Required("competency", {"kind", "is_official"})
            \cup Optional("competency", {"edition_id", "year", "source_ref"})
            \cup Filled("competency", {"kind", "is_official"})),
        Require("competency", {"edition_id"}),
        Add(Keys("competency", "restrict", {<<"edition_id", "curriculum_edition">>})
            \cup Indexed("competency", {"edition_id"})
            \cup {Index("competency", "ix_competency_kind_year", <<"kind", "year">>)}),
        Drop({<<"uq_competency_code">>}),
        Add({Unique("competency", "uq_competency_code", <<"curriculum", "edition_id", "code">>)})>> >>

Down_0051 ==
    << <<Drop({<<"uq_competency_code">>}),
        Add({Unique("competency", "uq_competency_code", <<"curriculum", "code">>)}),
        Relax("competency", {"edition_id"}),
        Drop({<<"ix_competency_kind_year">>, Ix("competency", "edition_id"),
            Fk("competency", "edition_id", "curriculum_edition")}),
        DropColumns("competency", {"source_ref", "is_official", "year", "kind", "edition_id"}),
        Drop({Ix("class", "stream_id"), Fk("class", "stream_id", "stream")}),
        DropColumns("class", {"stream_id"}),
        Drop({<<"ix_stream_canton_position">>}),
        DropTable("stream"),
        DropTable("curriculum_edition"),
        DropTypesIfPresent({"curriculum_year", "competency_kind"})>> >>

\* 0052: `class_kind` labels join the convention every other enum follows.

Up_0052 ==
    << <<RenameLabel("class_kind", "homeroom", "HOMEROOM"),
        RenameLabel("class_kind", "course", "COURSE")>> >>

Down_0052 ==
    << <<RenameLabel("class_kind", "HOMEROOM", "homeroom"),
        RenameLabel("class_kind", "COURSE", "course")>> >>

-----------------------------------------------------------------------------
LastRevision == 52

Upgrades ==
    <<Up_0001, Up_0002, Up_0003, Up_0004, Up_0005, Up_0006, Up_0007, Up_0008, Up_0009, Up_0010,
      Up_0011, Up_0012, Up_0013, Up_0014, Up_0015, Up_0016, Up_0017, Up_0018, Up_0019,
      Up_0020, Up_0021, Up_0022, Up_0023, Up_0024, Up_0025, Up_0026, Up_0027, Up_0028,
      Up_0029, Up_0030, Up_0031, Up_0032, Up_0033, Up_0034, Up_0035, Up_0036, Up_0037,
      Up_0038, Up_0039, Up_0040, Up_0041, Up_0042, Up_0043, Up_0044, Up_0045, Up_0046,
      Up_0047, Up_0048, Up_0049, Up_0050, Up_0051, Up_0052>>

Downgrades ==
    <<Down_0001, Down_0002, Down_0003, Down_0004, Down_0005, Down_0006, Down_0007, Down_0008,
      Down_0009, Down_0010, Down_0011, Down_0012, Down_0013, Down_0014, Down_0015, Down_0016,
      Down_0017, Down_0018, Down_0019, Down_0020, Down_0021, Down_0022, Down_0023, Down_0024,
      Down_0025, Down_0026, Down_0027, Down_0028, Down_0029, Down_0030, Down_0031, Down_0032,
      Down_0033, Down_0034, Down_0035, Down_0036, Down_0037, Down_0038, Down_0039, Down_0040,
      Down_0041, Down_0042, Down_0043, Down_0044, Down_0045, Down_0046, Down_0047, Down_0048,
      Down_0049, Down_0050, Down_0051, Down_0052>>

=============================================================================
