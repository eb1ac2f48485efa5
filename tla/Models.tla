------------------------------- MODULE Models -------------------------------
(***************************************************************************)
(* The schema the application believes it has: the tables declared in      *)
(* alppy/models, in the facts of module Schema.  A column marked index     *)
(* gets an index of its own, a school-scoped table a key to school, and    *)
(* every enum type the names of its members as labels.                     *)
(***************************************************************************)
EXTENDS Schema

CurriculumKind == Labels("curriculum_kind", {"LP21", "PER"})

Locale == Labels("locale", {"FR", "DE", "EN"})

StaffingRole == Labels("staffing_role", {"TITULAIRE", "APPUI", "REMPLACANT", "CO_ENSEIGNANT"})

ClassKind == Labels("class_kind", {"HOMEROOM", "COURSE"})

CompetencyKind == Labels("competency_kind", {"DOMAINE", "OBJECTIF", "COMPOSANTE", "PROGRESSION",
                      "ATTENTE"})

CurriculumYear == Labels("curriculum_year", {"H9", "H10", "H11"})

JobStatus == Labels("job_status", {"QUEUED", "RUNNING", "SUCCEEDED", "FAILED"})

ExerciseType == Labels("exercise_type", {"MCQ", "TRUE_FALSE", "OPEN"})

ExerciseOrigin == Labels("exercise_origin", {"TEXTBOOK", "AI_GENERATED", "TEACHER"})

SheetTarget == Labels("sheet_target", {"CLASS", "STUDENT", "GROUP"})

AnswerBoxFill == Labels("answer_box_fill", {"LINED", "GRID", "BLANK"})

EventKind == Labels("event_kind", {"SOURCE_IMPORTED", "CHAPTER_READ", "SHEET_CREATED",
                 "SHEET_RENDERED", "SHEET_PRINTED", "SCAN_UPLOADED", "SCAN_CONFIRMED",
                 "SCAN_REOPENED", "ADAPTIVE_PROPOSED", "ADAPTIVE_EXPORTED", "FEEDBACK_WRITTEN",
                 "FEEDBACK_APPROVED", "TEACHER_JOINED", "TEACHER_LEFT", "EXERCISE_APPROVED",
                 "EXERCISE_EDITED"})

EventSubject == Labels("event_subject", {"SOURCE", "SHEET", "SCAN", "CLASS", "TEACHER",
                    "EXERCISE"})

ScanStatus == Labels("scan_status", {"UPLOADED", "PROCESSING", "NEEDS_REVIEW", "CONFIRMED",
                  "FAILED"})

DetectionOutcome == Labels("detection_outcome", {"DETECTED", "LOW_CONFIDENCE", "BLANK",
                        "MULTIPLE", "CORRECTED", "NOT_GRADEABLE", "PENDING"})

MasteryBand == Labels("mastery_band", {"SOLID", "OK", "WEAK", "FADING", "NONE"})

AccessSubject == Labels("access_subject", {"STUDENT", "CLASS"})

JobKind == Labels("job_kind", {"INGEST_SOURCE", "EXTRACT_SECTION", "RENDER_SHEET", "PROCESS_SCAN",
               "PROPOSE_ADAPTIVE", "GENERATE_ADAPTIVE", "GENERATE_FEEDBACK",
               "GRADE_OPEN_ANSWERS"})

School ==
    Stamped("school", {"name", "default_curriculum"}, {"canton"})

teacher_school ==
    Table("teacher_school", {"teacher_id", "school_id", "joined_at", "valid_from"}, {"valid_to"})
    \cup {PrimaryKey("teacher_school", <<"teacher_id", "school_id", "valid_from">>)}
    \cup Filled("teacher_school", {"joined_at", "valid_from"})
    \cup Keys("teacher_school", "cascade", {<<"teacher_id", "teacher">>,
             <<"school_id", "school">>})
    \cup {Index("teacher_school", "ix_teacher_school_school", <<"school_id", "teacher_id">>),
          UniqueAmong("teacher_school", "uq_teacher_school_open", <<"teacher_id", "school_id">>,
              "valid_to IS NULL")}

Teacher ==
    Stamped("teacher", {"home_school_id", "email", "password_hash", "first_name", "last_name",
        "locale"}, {"theme", "contrast", "motion", "calm", "discreet"})
    \cup Keys("teacher", "cascade", {<<"home_school_id", "school">>})
    \cup Indexed("teacher", {"home_school_id", "email"})
    \cup {Unique("teacher", "uq_teacher_email", <<"email">>)}

SchoolYear ==
    Stamped("school_year", {"label", "starts_on", "ends_on", "is_current", "school_id"}, {})
    \cup Keys("school_year", "cascade", {<<"school_id", "school">>})
    \cup Indexed("school_year", {"school_id"})
    \cup {Check("school_year", "ck_school_year_label", "label", "LIKE ____/__"),
          Unique("school_year", "uq_school_year_label", <<"school_id", "label">>),
          UniqueAmong("school_year", "uq_school_year_current", <<"school_id">>, "is_current")}

Subject ==
    Stamped("subject", {"key", "labels", "school_id"}, {})
    \cup Keys("subject", "cascade", {<<"school_id", "school">>})
    \cup {Unique("subject", "uq_subject_key", <<"school_id", "key">>)}

class_subject ==
    Table("class_subject", {"class_id", "subject_id", "position"}, {})
    \cup {PrimaryKey("class_subject", <<"class_id", "subject_id">>)}
    \cup Keys("class_subject", "cascade", {<<"class_id", "class">>, <<"subject_id", "subject">>})
    \cup Indexed("class_subject", {"subject_id"})

class_teacher_subject ==
    Table("class_teacher_subject", {"class_id", "teacher_id", "subject_id", "assigned_at",
        "valid_from"}, {"valid_to", "role"})
    \cup {PrimaryKey("class_teacher_subject",
              <<"class_id", "teacher_id", "subject_id", "valid_from">>)}
    \cup Filled("class_teacher_subject", {"assigned_at", "valid_from"})
    \cup Keys("class_teacher_subject", "restrict", {<<"teacher_id", "teacher">>})
    \cup {NamedKey("class_teacher_subject", "fk_class_teacher_subject_class_subject",
              <<"class_id", "subject_id">>, "class_subject", "cascade"),
          Index("class_teacher_subject", "ix_class_teacher_subject_teacher",
              <<"teacher_id", "class_id">>),
          UniqueAmong("class_teacher_subject", "uq_class_teacher_subject_open",
              <<"class_id", "teacher_id", "subject_id">>, "valid_to IS NULL")}

class_student ==
    Table("class_student", {"class_id", "student_id", "enrolled_at", "valid_from"}, {"valid_to"})
    \cup {PrimaryKey("class_student", <<"class_id", "student_id", "valid_from">>)}
    \cup Filled("class_student", {"enrolled_at", "valid_from"})
    \cup Keys("class_student", "cascade", {<<"class_id", "class">>, <<"student_id", "student">>})
    \cup Indexed("class_student", {"student_id"})
    \cup {UniqueAmong("class_student", "uq_class_student_open", <<"class_id", "student_id">>,
              "valid_to IS NULL")}

Class ==
    Stamped("class", {"school_year_id", "head_teacher_id", "code", "school_id"}, {"label", "kind",
        "stream_id"})
    \cup Keys("class", "cascade", {<<"school_year_id", "school_year">>,
             <<"school_id", "school">>})
    \cup Keys("class", "restrict", {<<"head_teacher_id", "teacher">>, <<"stream_id", "stream">>})
    \cup Indexed("class", {"school_year_id", "head_teacher_id", "stream_id"})
    \cup {Unique("class", "uq_class_code", <<"school_id", "school_year_id", "code">>)}

Person ==
    Stamped("person", {"school_id"}, {"first_name", "last_name", "anonymised_at"})
    \cup Keys("person", "cascade", {<<"school_id", "school">>})
    \cup Indexed("person", {"school_id"})

Student ==
    Stamped("student", {"home_class_id", "person_id", "school_year_id", "uid", "number",
        "school_id"}, {"first_name", "last_name"})
    \cup Keys("student", "cascade", {<<"person_id", "person">>,
             <<"school_year_id", "school_year">>, <<"school_id", "school">>})
    \cup Keys("student", "restrict", {<<"home_class_id", "class">>})
    \cup Indexed("student", {"home_class_id", "person_id", "school_year_id", "uid"})
    \cup {Unique("student", "uq_student_uid", <<"school_id", "school_year_id", "uid">>),
          Check("student", "ck_student_number_positive", "number", "> 0")}

Stream ==
    Stamped("stream", {"canton", "code", "labels", "position"}, {})
    \cup {Unique("stream", "uq_stream_code", <<"canton", "code">>),
          Index("stream", "ix_stream_canton_position", <<"canton", "position">>)}

CurriculumEdition ==
    Stamped("curriculum_edition", {"curriculum", "edition"}, {"valid_from", "valid_to"})
    \cup {Unique("curriculum_edition", "uq_curriculum_edition", <<"curriculum", "edition">>)}

Competency ==
    Stamped("competency", {"curriculum", "edition_id", "kind", "is_official", "code",
        "subject_key", "cycle", "labels", "description"}, {"year", "source_ref", "parent_id"})
    \cup Filled("competency", {"kind", "is_official"})
    \cup Keys("competency", "set null", {<<"parent_id", "competency">>})
    \cup Keys("competency", "restrict", {<<"edition_id", "curriculum_edition">>})
    \cup Indexed("competency", {"edition_id", "parent_id"})
    \cup {Unique("competency", "uq_competency_code", <<"curriculum", "edition_id", "code">>),
          Index("competency", "ix_competency_subject_cycle", <<"subject_key", "cycle">>),
          Index("competency", "ix_competency_kind_year", <<"kind", "year">>)}

chapter_competency ==
    Table("chapter_competency", {"chapter_id", "competency_id"}, {})
    \cup {PrimaryKey("chapter_competency", <<"chapter_id", "competency_id">>)}
    \cup Keys("chapter_competency", "cascade", {<<"chapter_id", "chapter">>,
             <<"competency_id", "competency">>})
    \cup Indexed("chapter_competency", {"competency_id"})

exercise_competency ==
    Table("exercise_competency", {"exercise_id", "competency_id"}, {})
    \cup {PrimaryKey("exercise_competency", <<"exercise_id", "competency_id">>)}
    \cup Keys("exercise_competency", "cascade", {<<"exercise_id", "exercise">>,
             <<"competency_id", "competency">>})
    \cup {Index("exercise_competency", "ix_exercise_competency_competency", <<"competency_id">>)}

misconception_note_competency ==
    Table("misconception_note_competency", {"note_id", "competency_id"}, {})
    \cup {PrimaryKey("misconception_note_competency", <<"note_id", "competency_id">>)}
    \cup Keys("misconception_note_competency", "cascade", {<<"note_id", "misconception_note">>,
             <<"competency_id", "competency">>})
    \cup Indexed("misconception_note_competency", {"competency_id"})

Chapter ==
    Stamped("chapter", {"subject_id", "key", "labels", "position", "school_id"},
        {"primary_competency_id"})
    \cup Keys("chapter", "cascade", {<<"school_id", "school">>})
    \cup Keys("chapter", "set null", {<<"primary_competency_id", "competency">>})
    \cup Keys("chapter", "restrict", {<<"subject_id", "subject">>})
    \cup Indexed("chapter", {"subject_id", "primary_competency_id"})
    \cup {Unique("chapter", "uq_chapter_key", <<"school_id", "subject_id", "key">>)}

Source ==
    Stamped("source", {"subject_id", "filename", "storage_key", "content_type", "size_bytes",
        "sha256", "status", "school_id"}, {"uploaded_by_id", "title", "publisher", "isbn", "url",
        "language", "page_count", "error", "notice"})
    \cup Keys("source", "cascade", {<<"subject_id", "subject">>, <<"school_id", "school">>})
    \cup Keys("source", "set null", {<<"uploaded_by_id", "teacher">>})
    \cup Indexed("source", {"subject_id", "uploaded_by_id", "sha256", "school_id"})

SourceSection ==
    Stamped("source_section", {"source_id", "title", "page_from", "page_to", "position",
        "school_id"}, {"label", "extracted_at", "extraction_notice"})
    \cup Keys("source_section", "cascade", {<<"source_id", "source">>, <<"school_id", "school">>})
    \cup Indexed("source_section", {"school_id"})
    \cup {Unique("source_section", "uq_source_section_position", <<"source_id", "position">>),
          Index("source_section", "ix_source_section_source", <<"source_id", "position">>)}

SourceChunk ==
    Stamped("source_chunk", {"source_id", "page", "position", "text", "school_id"}, {"embedding"})
    \cup Keys("source_chunk", "cascade", {<<"source_id", "source">>, <<"school_id", "school">>})
    \cup Indexed("source_chunk", {"school_id"})
    \cup {Index("source_chunk", "ix_source_chunk_source_page", <<"source_id", "page">>),
          Index("source_chunk", "ix_source_chunk_embedding_hnsw", <<"embedding">>)}

Exercise ==
    Stamped("exercise", {"subject_id", "type", "origin", "language", "statement", "difficulty",
        "school_id"}, {"chapter_id", "source_id", "source_chunk_id", "source_section_id",
        "source_page", "label", "title", "figure_key", "figure_width_mm", "figure_height_mm",
        "options", "answer_index", "answer_bool", "answer_text", "explanation", "approved_at",
        "discarded_at", "generation_meta"})
    \cup Keys("exercise", "cascade", {<<"subject_id", "subject">>, <<"school_id", "school">>})
    \cup Keys("exercise", "set null", {<<"chapter_id", "chapter">>, <<"source_id", "source">>,
             <<"source_chunk_id", "source_chunk">>, <<"source_section_id", "source_section">>})
    \cup Indexed("exercise", {"chapter_id", "source_id", "source_chunk_id", "school_id"})
    \cup {Check("exercise", "ck_exercise_difficulty_range", "difficulty", "BETWEEN 1 AND 5"),
          Index("exercise", "ix_exercise_subject_origin", <<"subject_id", "origin">>),
          Index("exercise", "ix_exercise_source_section", <<"source_section_id", "source_page">>),
          IndexAmong("exercise", "ix_exercise_discarded", <<"subject_id">>,
              "discarded_at IS NOT NULL")}

ExerciseVariant ==
    Stamped("exercise_variant", {"exercise_id", "statement", "school_id"}, {"student_id",
        "options", "answer_index", "answer_bool", "explanation", "generation_meta"})
    \cup Keys("exercise_variant", "cascade", {<<"exercise_id", "exercise">>,
             <<"student_id", "student">>, <<"school_id", "school">>})
    \cup Indexed("exercise_variant", {"exercise_id", "student_id", "school_id"})

sheet_source ==
    Table("sheet_source", {"sheet_id", "source_sheet_id", "position"}, {})
    \cup {PrimaryKey("sheet_source", <<"sheet_id", "source_sheet_id">>)}
    \cup Keys("sheet_source", "cascade", {<<"sheet_id", "sheet">>,
             <<"source_sheet_id", "sheet">>})
    \cup Indexed("sheet_source", {"source_sheet_id"})

Sheet ==
    Stamped("sheet", {"class_id", "subject_id", "chapter_id", "title", "target", "language",
        "layout_version", "default_points_correct", "default_points_penalty", "render_generation",
        "school_id"}, {"created_by_id", "intent", "derived_from_id", "blank_pdf_key",
        "answer_key_pdf_key", "feedback_pdf_key", "rendered_at", "printed_at"})
    \cup Filled("sheet", {"default_points_correct", "default_points_penalty",
             "render_generation"})
    \cup Keys("sheet", "cascade", {<<"class_id", "class">>, <<"subject_id", "subject">>,
             <<"school_id", "school">>})
    \cup Keys("sheet", "set null", {<<"created_by_id", "teacher">>,
             <<"derived_from_id", "sheet">>})
    \cup Keys("sheet", "restrict", {<<"chapter_id", "chapter">>})
    \cup Indexed("sheet", {"class_id", "subject_id", "chapter_id", "created_by_id",
             "derived_from_id", "school_id"})
    \cup {Check("sheet", "ck_sheet_default_points_correct", "default_points_correct",
              "BETWEEN 0 AND 20"),
          Check("sheet", "ck_sheet_default_points_penalty", "default_points_penalty",
              "BETWEEN 0 AND 20")}

SheetItem ==
    Stamped("sheet_item", {"sheet_id", "exercise_id", "position", "school_id"},
        {"statement_override", "answer_box_lines", "answer_box_fill", "expected_answer",
        "points_correct", "points_penalty"})
    \cup Keys("sheet_item", "cascade", {<<"sheet_id", "sheet">>, <<"school_id", "school">>})
    \cup Keys("sheet_item", "restrict", {<<"exercise_id", "exercise">>})
    \cup Indexed("sheet_item", {"exercise_id", "school_id"})
    \cup {Unique("sheet_item", "uq_sheet_item_position", <<"sheet_id", "position">>),
          Check("sheet_item", "ck_sheet_item_answer_box_lines", "answer_box_lines",
              "BETWEEN 0 AND 14"),
          Check("sheet_item", "ck_sheet_item_points_correct", "points_correct",
              "BETWEEN 0 AND 20"),
          Check("sheet_item", "ck_sheet_item_points_penalty", "points_penalty",
              "BETWEEN 0 AND 20")}

SheetInstance ==
    Stamped("sheet_instance", {"sheet_id", "student_id", "student_uid", "item_plan", "school_id"},
        {"page_count", "points_possible", "group_label", "feedback_id"})
    \cup Keys("sheet_instance", "cascade", {<<"sheet_id", "sheet">>, <<"student_id", "student">>,
             <<"school_id", "school">>})
    \cup Keys("sheet_instance", "set null", {<<"feedback_id", "misconception_note">>})
    \cup Indexed("sheet_instance", {"student_id", "student_uid", "feedback_id", "school_id"})
    \cup {Unique("sheet_instance", "uq_instance_student", <<"sheet_id", "student_id">>)}

AnswerBoxPlacement ==
    Stamped("answer_box_placement", {"sheet_id", "student_uid", "copy_page", "item_index",
        "box_lines", "box_fill", "x_mm", "y_mm", "w_mm", "h_mm", "layout_version", "school_id"},
        {"render_generation", "exercise_id"})
    \cup Keys("answer_box_placement", "cascade", {<<"sheet_id", "sheet">>,
             <<"school_id", "school">>})
    \cup Keys("answer_box_placement", "set null", {<<"exercise_id", "exercise">>})
    \cup Indexed("answer_box_placement", {"exercise_id", "school_id"})
    \cup {Unique("answer_box_placement", "uq_answer_box_placement_slot",
              <<"sheet_id", "render_generation", "student_uid", "copy_page", "item_index">>)}

MisconceptionNote ==
    Stamped("misconception_note", {"person_id", "subject_id", "language", "notes", "school_id"},
        {"based_on_sheet_id", "approved_at", "discarded_at", "generation_meta"})
    \cup Keys("misconception_note", "cascade", {<<"person_id", "person">>,
             <<"subject_id", "subject">>, <<"school_id", "school">>})
    \cup Keys("misconception_note", "set null", {<<"based_on_sheet_id", "sheet">>})
    \cup Indexed("misconception_note", {"subject_id", "based_on_sheet_id", "school_id"})
    \cup {Index("misconception_note", "ix_misconception_note_person_sheet",
              <<"person_id", "based_on_sheet_id">>)}

Event ==
    Stamped("event", {"kind", "occurred_at", "subject_type", "subject_id", "summary",
        "school_id"}, {"actor_id", "class_id", "subject_area_id", "detail"})
    \cup Filled("event", {"summary"})
    \cup Keys("event", "cascade", {<<"class_id", "class">>, <<"school_id", "school">>})
    \cup Keys("event", "set null", {<<"actor_id", "teacher">>, <<"subject_area_id", "subject">>})
    \cup Indexed("event", {"actor_id", "class_id", "subject_area_id"})
    \cup {Index("event", "ix_event_school_occurred", <<"school_id", "occurred_at">>),
          Index("event", "ix_event_subject", <<"subject_type", "subject_id">>)}

Scan ==
    Stamped("scan", {"original_filename", "storage_key", "status", "confirmation_count",
        "school_id"}, {"sheet_id", "uploaded_by_id", "storage_keys", "layout_version",
        "render_generation", "error", "confirmed_at", "reopened_at"})
    \cup Filled("scan", {"confirmation_count"})
    \cup Keys("scan", "cascade", {<<"school_id", "school">>})
    \cup Keys("scan", "set null", {<<"sheet_id", "sheet">>, <<"uploaded_by_id", "teacher">>})
    \cup Indexed("scan", {"sheet_id", "uploaded_by_id", "school_id"})

ScanPage ==
    Stamped("scan_page", {"scan_id", "page_index", "image_key", "registered", "wrong_class",
        "school_id"}, {"registration_meta", "detected_uid", "uid_confidence", "student_id",
        "sheet_instance_id", "discarded_at", "discarded_by_id", "page_in_copy"})
    \cup Filled("scan_page", {"wrong_class"})
    \cup Keys("scan_page", "cascade", {<<"scan_id", "scan">>, <<"school_id", "school">>})
    \cup Keys("scan_page", "set null", {<<"student_id", "student">>,
             <<"sheet_instance_id", "sheet_instance">>, <<"discarded_by_id", "teacher">>})
    \cup Indexed("scan_page", {"scan_id", "detected_uid", "student_id", "sheet_instance_id",
             "school_id"})

\* Faulty variant: an index dropped from the model, without a migration.
Detection_Unindexed ==
    Stamped("detection", {"scan_page_id", "item_index", "confidence", "outcome", "school_id"},
        {"sheet_item_id", "exercise_id", "printed_number", "detected_index", "detected_bool",
        "machine_index", "machine_outcome", "machine_confidence", "fill_ratios", "bubble_boxes",
        "crop_key", "transcription", "machine_transcription", "verdict_correct",
        "machine_verdict_correct", "vision_model", "vision_prompt_version", "reference_answer",
        "corrected_by_id", "corrected_at"})
    \cup Keys("detection", "cascade", {<<"scan_page_id", "scan_page">>,
             <<"school_id", "school">>})
    \cup Keys("detection", "set null", {<<"sheet_item_id", "sheet_item">>,
             <<"exercise_id", "exercise">>, <<"corrected_by_id", "teacher">>})
    \cup Indexed("detection", {"scan_page_id", "sheet_item_id", "corrected_by_id", "school_id"})

Detection ==
    Stamped("detection", {"scan_page_id", "item_index", "confidence", "outcome", "school_id"},
        {"sheet_item_id", "exercise_id", "printed_number", "detected_index", "detected_bool",
        "machine_index", "machine_outcome", "machine_confidence", "fill_ratios", "bubble_boxes",
        "crop_key", "transcription", "machine_transcription", "verdict_correct",
        "machine_verdict_correct", "vision_model", "vision_prompt_version", "reference_answer",
        "corrected_by_id", "corrected_at"})
    \cup Keys("detection", "cascade", {<<"scan_page_id", "scan_page">>,
             <<"school_id", "school">>})
    \cup Keys("detection", "set null", {<<"sheet_item_id", "sheet_item">>,
             <<"exercise_id", "exercise">>, <<"corrected_by_id", "teacher">>})
    \cup Indexed("detection", {"scan_page_id", "sheet_item_id", "exercise_id", "corrected_by_id",
             "school_id"})

Attempt ==
    Stamped("attempt", {"person_id", "exercise_id", "correct", "score", "difficulty",
        "answered_at", "school_id"}, {"sheet_id", "sheet_instance_id", "detection_id",
        "confirmed_scan_id"})
    \cup Keys("attempt", "cascade", {<<"person_id", "person">>, <<"school_id", "school">>})
    \cup Keys("attempt", "set null", {<<"sheet_id", "sheet">>,
             <<"sheet_instance_id", "sheet_instance">>, <<"detection_id", "detection">>,
             <<"confirmed_scan_id", "scan">>})
    \cup Keys("attempt", "restrict", {<<"exercise_id", "exercise">>})
    \cup Indexed("attempt", {"exercise_id", "sheet_id", "sheet_instance_id", "detection_id",
             "confirmed_scan_id", "school_id"})
    \cup {Index("attempt", "ix_attempt_person_answered", <<"person_id", "answered_at">>),
          UniqueWithNulls("attempt", "uq_attempt_person_exercise_sheet",
              <<"person_id", "exercise_id", "sheet_id", "answered_at">>)}

MasterySnapshot ==
    Stamped("mastery_snapshot", {"person_id", "competency_id", "computed_at", "score", "band",
        "attempts_count", "school_id"}, {"last_attempt_at"})
    \cup Keys("mastery_snapshot", "cascade", {<<"person_id", "person">>,
             <<"competency_id", "competency">>, <<"school_id", "school">>})
    \cup Indexed("mastery_snapshot", {"competency_id", "school_id"})
    \cup {Index("mastery_snapshot", "ix_mastery_person_competency",
              <<"person_id", "competency_id", "computed_at">>),
          Check("mastery_snapshot", "ck_mastery_snapshot_score_unit_interval", "score",
              ">= 0 AND <= 1")}

MasteryBranchSnapshot ==
    Stamped("mastery_branch_snapshot", {"person_id", "subject_id", "computed_at", "score", "band",
        "child_count", "assessed_child_count", "school_id"}, {})
    \cup Keys("mastery_branch_snapshot", "cascade", {<<"person_id", "person">>,
             <<"subject_id", "subject">>, <<"school_id", "school">>})
    \cup Indexed("mastery_branch_snapshot", {"subject_id", "school_id"})
    \cup {Index("mastery_branch_snapshot", "ix_mastery_branch_person",
              <<"person_id", "subject_id", "computed_at">>),
          Check("mastery_branch_snapshot",
              "ck_mastery_branch_snapshot_branch_score_unit_interval", "score", ">= 0 AND <= 1")}

ModelCall ==
    Stamped("model_call", {"provider", "model", "purpose", "prompt_sha256", "ok", "school_id"},
        {"prompt_name", "prompt_version", "input_tokens", "output_tokens", "latency_ms",
        "cost_estimate_chf", "error"})
    \cup Keys("model_call", "cascade", {<<"school_id", "school">>})
    \cup Indexed("model_call", {"school_id"})

AdaptiveProposal ==
    Stamped("adaptive_proposal", {"job_id", "payload", "school_id"}, {})
    \cup Keys("adaptive_proposal", "cascade", {<<"job_id", "job">>, <<"school_id", "school">>})
    \cup Indexed("adaptive_proposal", {"job_id", "school_id"})
    \cup {Unique("adaptive_proposal", "uq_adaptive_proposal_job", <<"job_id">>)}

AccessLog ==
    Stamped("access_log", {"subject_type", "subject_id", "action", "occurred_at", "school_id"},
        {"teacher_id", "request_id"})
    \cup Filled("access_log", {"occurred_at"})
    \cup Keys("access_log", "cascade", {<<"school_id", "school">>})
    \cup Keys("access_log", "set null", {<<"teacher_id", "teacher">>})
    \cup Indexed("access_log", {"school_id"})
    \cup {Index("access_log", "ix_access_log_subject",
              <<"subject_type", "subject_id", "occurred_at">>),
          Index("access_log", "ix_access_log_teacher", <<"teacher_id", "occurred_at">>)}

PromptLog ==
    Stamped("prompt_log", {"provider", "model", "purpose", "prompt_sha256", "ok", "school_id"},
        {"model_call_id", "job_id", "sheet_id", "request_id", "prompt_name", "prompt_version",
        "system_text", "user_text", "response_text", "input_tokens", "output_tokens",
        "latency_ms", "error"})
    \cup Keys("prompt_log", "cascade", {<<"school_id", "school">>})
    \cup Keys("prompt_log", "set null", {<<"model_call_id", "model_call">>, <<"job_id", "job">>,
             <<"sheet_id", "sheet">>})
    \cup Indexed("prompt_log", {"model_call_id", "job_id", "sheet_id"})
    \cup {Index("prompt_log", "ix_prompt_log_school_created", <<"school_id", "created_at">>),
          Index("prompt_log", "ix_prompt_log_purpose_created", <<"purpose", "created_at">>),
          Index("prompt_log", "ix_prompt_log_request", <<"request_id">>)}

Job ==
    Stamped("job", {"kind", "status", "progress", "payload", "school_id"}, {"message", "result",
        "error", "started_at", "finished_at", "class_id", "subject_id", "created_by_id",
        "scan_id"})
    \cup Keys("job", "cascade", {<<"class_id", "class">>, <<"subject_id", "subject">>,
             <<"scan_id", "scan">>, <<"school_id", "school">>})
    \cup Keys("job", "set null", {<<"created_by_id", "teacher">>})
    \cup Indexed("job", {"class_id", "subject_id", "created_by_id", "scan_id", "school_id"})

IdempotencyKey ==
    Stamped("idempotency_key", {"endpoint", "key", "school_id"}, {"response"})
    \cup Keys("idempotency_key", "cascade", {<<"school_id", "school">>})
    \cup {Unique("idempotency_key", "uq_idempotency_key", <<"school_id", "endpoint", "key">>),
          Index("idempotency_key", "ix_idempotency_key_created", <<"created_at">>)}

\* Base.metadata: what create_all() would build, and autogenerate compares with.
Metadata ==
    CurriculumKind \cup Locale \cup StaffingRole \cup ClassKind \cup CompetencyKind
    \cup CurriculumYear \cup JobStatus \cup ExerciseType \cup ExerciseOrigin \cup SheetTarget
    \cup AnswerBoxFill \cup EventKind \cup EventSubject \cup ScanStatus \cup DetectionOutcome
    \cup MasteryBand \cup AccessSubject \cup JobKind \cup School \cup teacher_school \cup Teacher
    \cup SchoolYear \cup Subject \cup class_subject \cup class_teacher_subject \cup class_student
    \cup Class \cup Person \cup Student \cup Stream \cup CurriculumEdition \cup Competency
    \cup chapter_competency \cup exercise_competency \cup misconception_note_competency
    \cup Chapter \cup Source \cup SourceSection \cup SourceChunk \cup Exercise
    \cup ExerciseVariant \cup sheet_source \cup Sheet \cup SheetItem \cup SheetInstance
    \cup AnswerBoxPlacement \cup MisconceptionNote \cup Event \cup Scan \cup ScanPage
    \cup Detection \cup Attempt \cup MasterySnapshot \cup MasteryBranchSnapshot \cup ModelCall
    \cup AdaptiveProposal \cup AccessLog \cup PromptLog \cup Job \cup IdempotencyKey

=============================================================================
